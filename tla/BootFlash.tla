------------------------------ MODULE BootFlash ------------------------------
(***************************************************************************)
(* How the bootloader uses the external flash: the verification of the     *)
(* stored image (ota_verify.c) and the erase of the metadata               *)
(* (clear_ota_metadata), down to the commands of the blocking driver       *)
(* (qspi_boot.c).  Bootloader takes a single step for each of the two.     *)
(*                                                                         *)
(* The chip ignores a command while it is busy, and an erase that no write *)
(* enable came before.  It may miss a write enable; the controller may not *)
(* report the end of an instruction in time, whether the chip has carried  *)
(* it out or not; an erase may take longer than the driver waits.          *)
(***************************************************************************)
EXTENDS Crc32, FiniteSets

CONSTANTS
  Images,             \* images that the ground may have sent
  Damages,            \* sets of bits that may be wrong in the stored image
  VERIFY_CHUNK_SIZE,  \* bytes that are read at once
  QSPI_BOOT_TIMEOUT,  \* polls of the chip
  Retries,            \* write enables that qspi_boot_wren sends
  Attempts,           \* erases that clear_ota_metadata tries
  MaxFaults           \* bound: what goes wrong in the controller or the chip

ASSUME BootFlashAssumption ==
  /\ Images \subseteq Seq(SUBSET (0..7))
  /\ VERIFY_CHUNK_SIZE \in Nat \ {0}
  /\ QSPI_BOOT_TIMEOUT \in Nat \ {0}
  /\ Retries \in Nat \ {0} /\ Attempts \in Nat \ {0}
  /\ MaxFaults \in Nat

VARIABLES
  pc,        \* where the bootloader stands
  image,     \* what the ground sent
  stored,    \* what the chip holds of it
  expected,  \* the CRC of it, in the metadata
  off, crc,  \* of ota_verify_crc
  verdict,   \* "unknown", "good" or "bad"
  unread,    \* history: a read has failed
  attempt,   \* of clear_ota_metadata
  retries,   \* of qspi_boot_wren
  polls,     \* of qspi_boot_wait_busy
  cleared,   \* what the last erase reported: "unknown", "ok" or "failed"
  meta,      \* the metadata sector: "pending", "torn" or "blank"
  wel, busy, \* status of the chip
  faults

check == <<image, stored, expected, off, crc, verdict, unread>>
erase == <<attempt, retries, polls, cleared>>
chip  == <<meta, wel, busy>>
vars  == <<pc, check, erase, chip, faults>>

\* The image with some bits inverted.
Damaged(bytes, bits) ==
  [n \in 1..Len(bytes) |->
     Xor(bytes[n], {b \in 0..7 : 8 * (n - 1) + b \in bits})]

Init ==
  /\ pc = "verify"
  /\ \E sent \in Images, bits \in Damages :
       /\ image = sent /\ stored = Damaged(sent, bits)
       /\ expected = binascii_crc32(sent)
  /\ off = 0 /\ crc = AllOnes /\ verdict = "unknown" /\ unread = FALSE
  /\ attempt = 0 /\ retries = 0 /\ polls = 0 /\ cleared = "unknown"
  /\ meta = "pending" /\ wel = FALSE /\ busy = FALSE
  /\ faults = 0

At(s) == pc = s
Goto(s) == pc' = s
Fault == faults < MaxFaults /\ faults' = faults + 1

----------------------------------------------------------------------------
(* ota_verify_crc.  The size is in the metadata, too.                      *)

size == Len(image)

Chunk == IF size - off > VERIFY_CHUNK_SIZE THEN VERIFY_CHUNK_SIZE
                                           ELSE size - off

\* A variant that begins each chunk afresh.
VerifyChunkAfresh ==
  /\ At("verify")
  /\ off < size
  /\ crc' = Update(AllOnes, SubSeq(stored, off + 1, off + Chunk))
  /\ off' = off + Chunk
  /\ UNCHANGED <<pc, image, stored, expected, verdict, unread, erase, chip, faults>>

VerifyChunk ==
  /\ At("verify")
  /\ off < size
  /\ crc' = Update(crc, SubSeq(stored, off + 1, off + Chunk))
  /\ off' = off + Chunk
  /\ UNCHANGED <<pc, image, stored, expected, verdict, unread, erase, chip, faults>>

\* qspi_boot_read timed out.
VerifyReadFails ==
  /\ At("verify")
  /\ off < size
  /\ Fault
  /\ verdict' = "bad" /\ unread' = TRUE
  /\ Goto("clear")
  /\ UNCHANGED <<image, stored, expected, off, crc, erase, chip>>

VerifyEnd ==
  /\ At("verify")
  /\ off >= size
  /\ verdict' = IF Xor(crc, AllOnes) = expected THEN "good" ELSE "bad"
  /\ Goto("clear")
  /\ UNCHANGED <<image, stored, expected, off, crc, unread, erase, chip, faults>>

----------------------------------------------------------------------------
(* clear_ota_metadata: after a bad verdict, or once the image is copied.   *)

\* A variant that tries once too often.
ClearAttemptMore ==
  /\ At("clear")
  /\ attempt <= Attempts /\ cleared # "ok"
  /\ attempt' = attempt + 1
  /\ retries' = 0
  /\ Goto("wren")
  /\ UNCHANGED <<check, polls, cleared, chip, faults>>

ClearAttempt ==
  /\ At("clear")
  /\ attempt < Attempts /\ cleared # "ok"
  /\ attempt' = attempt + 1
  /\ retries' = 0
  /\ Goto("wren")
  /\ UNCHANGED <<check, polls, cleared, chip, faults>>

ClearEnd ==
  /\ At("clear")
  /\ attempt >= Attempts \/ cleared = "ok"
  /\ Goto("done")
  /\ UNCHANGED <<check, erase, chip, faults>>

\* A function of the driver returns an error.
Fails == cleared' = "failed" /\ Goto("clear")

\* The chip takes a write enable, unless it is busy.
EnableTaken == wel' = (wel \/ ~busy) /\ UNCHANGED <<meta, busy>>

Wren ==
  /\ At("wren")
  /\ \/ /\ EnableTaken
        /\ Goto("wel")
        /\ UNCHANGED <<cleared, faults>>
     \/ /\ Fault                                    \* the chip misses it
        /\ Goto("wel")
        /\ UNCHANGED <<cleared, chip>>
     \/ /\ Fault                                    \* INSTRE stays away
        /\ EnableTaken \/ UNCHANGED chip
        /\ Fails
  /\ UNCHANGED <<check, attempt, retries, polls>>

\* A variant that does not look at the status.
ReadWelBlind ==
  /\ At("wel")
  /\ Goto("erase")
  /\ UNCHANGED <<check, attempt, retries, polls, cleared, chip, faults>>

\* The status register, read after each write enable.
ReadWel ==
  /\ At("wel")
  /\ \/ /\ wel
        /\ Goto("erase")
        /\ UNCHANGED <<retries, cleared, faults>>
     \/ /\ ~wel
        /\ retries' = retries + 1
        /\ IF retries' < Retries THEN Goto("wren") /\ UNCHANGED cleared
                                 ELSE Fails
        /\ UNCHANGED faults
     \/ /\ Fault
        /\ Fails
        /\ UNCHANGED retries
  /\ UNCHANGED <<check, attempt, polls, chip>>

\* The chip begins an erase if it is enabled and not busy.
EraseTaken ==
  IF wel /\ ~busy
  THEN busy' = TRUE /\ meta' = "torn" /\ UNCHANGED wel
  ELSE UNCHANGED chip

SectorErase ==
  /\ At("erase")
  /\ polls' = 0
  /\ \/ /\ EraseTaken
        /\ Goto("busy")
        /\ UNCHANGED <<cleared, faults>>
     \/ /\ Fault
        /\ EraseTaken \/ UNCHANGED chip
        /\ Fails
  /\ UNCHANGED <<check, attempt, retries>>

\* A variant that waits as long as the chip is busy.
WaitBusyPatient ==
  /\ At("busy")
  /\ ~busy
  /\ cleared' = "ok"
  /\ Goto("clear")
  /\ UNCHANGED <<check, attempt, retries, polls, chip, faults>>

\* qspi_boot_wait_busy.
WaitBusy ==
  /\ At("busy")
  /\ \/ /\ ~busy
        /\ cleared' = "ok"
        /\ Goto("clear")
        /\ UNCHANGED <<polls, faults>>
     \/ /\ busy /\ polls + 1 < QSPI_BOOT_TIMEOUT
        /\ polls' = polls + 1
        /\ UNCHANGED <<pc, cleared, faults>>
     \/ /\ busy /\ polls + 1 >= QSPI_BOOT_TIMEOUT
        /\ Fails
        /\ UNCHANGED <<polls, faults>>
     \/ /\ Fault
        /\ Fails
        /\ UNCHANGED polls
  /\ UNCHANGED <<check, attempt, retries, chip>>

\* The erase is complete.
ChipDone ==
  /\ busy
  /\ busy' = FALSE /\ wel' = FALSE /\ meta' = "blank"
  /\ UNCHANGED <<pc, check, erase, faults>>

Verify == VerifyChunk \/ VerifyReadFails \/ VerifyEnd
Clear  == ClearAttempt \/ ClearEnd \/ Wren \/ ReadWel \/ SectorErase \/ WaitBusy

Next == Verify \/ Clear \/ ChipDone

Spec == Init /\ [][Next]_vars

\* The program runs; the chip may be busy for ever.
FairSpec == Spec /\ WF_vars(Verify \/ Clear)

----------------------------------------------------------------------------
(* Properties.                                                             *)

VerifyTypes ==
  /\ image \in Images /\ Len(stored) = Len(image)
  /\ off \in 0..size
  /\ verdict \in {"unknown", "good", "bad"} /\ unread \in BOOLEAN

CrcTypes == crc \subseteq AllOnes /\ expected \subseteq AllOnes

EraseTypes ==
  /\ attempt \in 0..Attempts /\ retries \in 0..Retries
  /\ polls \in 0..(QSPI_BOOT_TIMEOUT - 1)
  /\ cleared \in {"unknown", "ok", "failed"}
  /\ meta \in {"pending", "torn", "blank"}
  /\ wel \in BOOLEAN /\ busy \in BOOLEAN

TypeOK ==
  /\ pc \in {"verify", "clear", "wren", "wel", "erase", "busy", "done"}
  /\ VerifyTypes /\ CrcTypes /\ EraseTypes
  /\ faults \in 0..MaxFaults

\* The verdict is good exactly if the image is stored as it was sent and could
\* be read: the loop over chunks computes the CRC of the ground (ota_verify.h),
\* and that tells every damage of few bits.
VerdictIsRight ==
  /\ verdict = "good" => stored = image /\ ~unread
  /\ verdict = "bad"  => stored # image \/ unread

\* What VerdictIsRight takes: no damage leaves the CRC as it was.
DamageShows ==
  \A sent \in Images, bits \in Damages :
    binascii_crc32(Damaged(sent, bits)) = binascii_crc32(sent) =>
      Damaged(sent, bits) = sent

\* Metadata that were reported cleared are blank and the chip is at rest, even
\* if an earlier attempt went on in the chip after the driver gave it up.
ClearedMeansBlank == cleared = "ok" => meta = "blank" /\ ~busy

\* The bootloader never waits for the flash for ever: it gets through the
\* verification and the erase even if the chip stays busy, by its bounds on the
\* polls, the write enables and the attempts.
FlashNeverBlocks == <>(pc = "done")
=============================================================================
