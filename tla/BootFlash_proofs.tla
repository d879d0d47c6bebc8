-------------------------- MODULE BootFlash_proofs --------------------------
(***************************************************************************)
(* Proofs about the bootloader's use of the external flash, for any image, *)
(* any length of a chunk, any number of polls, write enables and attempts, *)
(* and any number of faults: its types, that metadata reported cleared are *)
(* blank, and that the verdict on the image is right.                      *)
(*                                                                         *)
(* The last needs to know what the CRC computes for every message.  The    *)
(* inductions over bits, bytes and chunks use the least number for which   *)
(* a claim fails, as a member of a set.  The loop of the bootloader is the *)
(* division of the ground with all words in a mirror, and it may stop and  *)
(* go on after any byte.  Every step of it can be taken back, so that what *)
(* one byte has changed is never lost again.                               *)
(***************************************************************************)
EXTENDS BootFlash, WellFoundedInduction, SequenceTheorems, TLAPS

Bytes == SUBSET (0..7)
Words == SUBSET AllOnes

Places == pc \in {"verify", "clear", "wren", "wel", "erase", "busy", "done"}

FaultsBounded == faults \in 0..MaxFaults

\* Where an erase stands.  While it goes on in the chip the metadata are torn
\* and writing is enabled.  The driver gives the command after it has seen the
\* write enable: if that is gone by then, an earlier erase has just come to its
\* end.  It waits for an erase that has begun, be it over or not.
Erasing ==
  /\ meta = "torn" <=> busy
  /\ busy => wel
  /\ pc \in {"wren", "wel"} => retries < Retries
  /\ pc = "erase" => wel \/ meta = "blank"
  /\ pc = "busy" => meta # "pending"
  /\ cleared = "ok" => pc \in {"clear", "done"} /\ meta = "blank"

EInv == Places /\ VerifyTypes /\ EraseTypes /\ FaultsBounded /\ Erasing

----------------------------------------------------------------------------
(* The first state.                                                        *)

LEMMA Bounds ==
  /\ VERIFY_CHUNK_SIZE \in Nat \ {0} /\ QSPI_BOOT_TIMEOUT \in Nat \ {0}
  /\ Retries \in Nat \ {0} /\ Attempts \in Nat \ {0} /\ MaxFaults \in Nat
BY BootFlashAssumption

\* A damaged image is a message as long as the one that was sent.
LEMMA DamagedLength ==
  ASSUME NEW sent \in Images, NEW bits
  PROVE  /\ sent \in Seq(Bytes) /\ Len(sent) \in Nat
         /\ Damaged(sent, bits) \in Seq(Bytes) /\ Len(Damaged(sent, bits)) = Len(sent)
<1>1. sent \in Seq(SUBSET (0..7))
  BY BootFlashAssumption
<1>2. Len(sent) \in Nat /\ \A n \in 1..Len(sent) : sent[n] \in SUBSET (0..7)
  BY <1>1
<1> DEFINE byte(n) == Xor(sent[n], {b \in 0..7 : 8 * (n - 1) + b \in bits})
<1>3. \A n \in 1..Len(sent) : byte(n) \in SUBSET (0..7)
  BY <1>2 DEF Xor
<1>4. Damaged(sent, bits) = [n \in 1..Len(sent) |-> byte(n)]
  BY DEF Damaged
<1> HIDE DEF byte
<1>5. Damaged(sent, bits) \in [1..Len(sent) -> SUBSET (0..7)]
  BY <1>3, <1>4
<1>6. Damaged(sent, bits) \in Seq(SUBSET (0..7))
  BY <1>2, <1>5, SeqDef
<1>7. DOMAIN Damaged(sent, bits) = 1..Len(sent)
  BY <1>5
<1> QED
  BY <1>1, <1>2, <1>6, <1>7, LenProperties DEF Bytes

LEMMA InitErases == Init => EInv
<1> SUFFICES ASSUME Init PROVE EInv
  OBVIOUS
<1>1. PICK sent \in Images, bits \in Damages :
        image = sent /\ stored = Damaged(sent, bits)
  BY DEF Init
<1>2. Len(sent) \in Nat /\ Len(stored) = Len(sent)
  BY <1>1, DamagedLength
<1>b. FALSE \in BOOLEAN
  BY Zenon
<1>o. 0 \in 0..Len(image)
  BY <1>1, <1>2
<1>3. VerifyTypes
  BY <1>b, <1>o, <1>1, <1>2 DEF Init, VerifyTypes, size
<1>z. 0 \in 0..Attempts /\ 0 \in 0..Retries /\ 0 \in 0..(QSPI_BOOT_TIMEOUT - 1)
  BY Bounds
<1>4. EraseTypes
  BY <1>b, <1>z DEF Init, EraseTypes
<1>5. Places /\ FaultsBounded /\ Erasing
  BY Bounds DEF Init, Places, FaultsBounded, Erasing
<1> QED
  BY <1>3, <1>4, <1>5 DEF EInv

----------------------------------------------------------------------------
(* Every step.                                                             *)

\* The verification leaves the metadata alone.
LEMMA VerifyKeeps ==
  ASSUME EInv, Verify
  PROVE  EInv'
<1>0. /\ image \in Images /\ Len(stored) = Len(image) /\ Len(image) \in Nat
      /\ off \in 0..Len(image) /\ verdict \in {"unknown", "good", "bad"}
      /\ unread \in BOOLEAN
  BY DamagedLength DEF EInv, VerifyTypes, size
<1>1. UNCHANGED <<erase, chip>> /\ pc = "verify" /\ pc' \in {"verify", "clear"}
  BY DEF Verify, VerifyChunk, VerifyReadFails, VerifyEnd, At, Goto
<1>2. EraseTypes'
  BY <1>1 DEF EInv, EraseTypes, erase, chip
<1>3. Places' /\ Erasing'
  BY <1>1 DEF EInv, Places, Erasing, erase, chip
<1>4. CASE VerifyChunk
  <2>1. Chunk \in Nat /\ off + Chunk <= Len(image)
    BY <1>0, <1>4, Bounds DEF VerifyChunk, Chunk, size
  <2>2. VerifyTypes'
    BY <1>0, <1>4, <2>1 DEF VerifyChunk, VerifyTypes, size
  <2>3. FaultsBounded'
    BY <1>4 DEF EInv, FaultsBounded, VerifyChunk
  <2> QED
    BY <1>2, <1>3, <2>2, <2>3 DEF EInv
<1>5. CASE VerifyReadFails
  <2>1. VerifyTypes'
    BY <1>0, <1>5 DEF VerifyReadFails, VerifyTypes, size
  <2>2. FaultsBounded'
    BY <1>5, Bounds DEF EInv, FaultsBounded, VerifyReadFails, Fault
  <2> QED
    BY <1>2, <1>3, <2>1, <2>2 DEF EInv
<1>6. CASE VerifyEnd
  <2>1. VerifyTypes'
    BY <1>0, <1>6 DEF VerifyEnd, VerifyTypes, size
  <2>2. FaultsBounded'
    BY <1>6 DEF EInv, FaultsBounded, VerifyEnd
  <2> QED
    BY <1>2, <1>3, <2>1, <2>2 DEF EInv
<1> QED
  BY <1>4, <1>5, <1>6 DEF Verify

\* The erase leaves the verification alone.
LEMMA ClearKeepsVerify ==
  ASSUME EInv, Clear \/ ChipDone \/ UNCHANGED vars
  PROVE  VerifyTypes' /\ FaultsBounded'
<1>1. UNCHANGED check
  BY DEF Clear, ClearAttempt, ClearEnd, Wren, ReadWel, SectorErase, WaitBusy,
         ChipDone, vars
<1>2. UNCHANGED faults \/ Fault
  BY DEF Clear, ClearAttempt, ClearEnd, Wren, ReadWel, SectorErase, WaitBusy,
         ChipDone, vars
<1>3. VerifyTypes'
  BY <1>1 DEF EInv, VerifyTypes, check, size
<1>4. FaultsBounded'
  BY <1>2, Bounds DEF EInv, FaultsBounded, Fault
<1> QED
  BY <1>3, <1>4

LEMMA ClearKeeps ==
  ASSUME EInv, Clear \/ ChipDone \/ UNCHANGED vars
  PROVE  Places' /\ EraseTypes' /\ Erasing'
<1>0. Places /\ EraseTypes /\ Erasing
  BY DEF EInv
<1>1. CASE ClearAttempt
  BY <1>0, <1>1, Bounds DEF ClearAttempt, Places, EraseTypes, Erasing, At, Goto, chip
<1>2. CASE ClearEnd
  BY <1>0, <1>2 DEF ClearEnd, Places, EraseTypes, Erasing, At, Goto, chip, erase
<1>3. CASE Wren
  <2>1. /\ pc = "wren" /\ pc' \in {"wel", "clear"}
        /\ UNCHANGED <<attempt, retries, polls, meta, busy>>
        /\ wel' = wel \/ wel' = (wel \/ ~busy)
        /\ cleared' = cleared \/ cleared' = "failed"
    BY <1>3 DEF Wren, At, Goto, EnableTaken, Fails, chip
  <2>2. wel' \in BOOLEAN
    BY <1>0, <2>1, Zenon DEF EraseTypes
  <2>3. wel => wel'
    BY <2>1, Zenon
  <2> QED
    BY <1>0, <2>1, <2>2, <2>3 DEF Places, EraseTypes, Erasing
<1>4. CASE ReadWel
  <2>1. /\ pc = "wel" /\ UNCHANGED <<attempt, polls, meta, wel, busy>>
        /\ \/ wel /\ pc' = "erase" /\ UNCHANGED <<retries, cleared>>
           \/ /\ retries' = retries + 1 /\ retries' < Retries
              /\ pc' = "wren" /\ cleared' = cleared
           \/ /\ retries' = retries \/ retries' = retries + 1
              /\ pc' = "clear" /\ cleared' = "failed"
    BY <1>4 DEF ReadWel, At, Goto, Fails, chip
  <2>2. retries \in Nat /\ retries < Retries
    BY <1>0, <2>1 DEF EraseTypes, Erasing
  <2>3. retries' \in 0..Retries
    BY <2>1, <2>2, Bounds
  <2> QED
    BY <1>0, <2>1, <2>2, <2>3 DEF Places, EraseTypes, Erasing
<1>5. CASE SectorErase
  <2>1. /\ pc = "erase" /\ polls' = 0 /\ UNCHANGED <<attempt, retries>>
        /\ \/ pc' = "busy" /\ cleared' = cleared /\ EraseTaken
           \/ pc' = "clear" /\ cleared' = "failed" /\ (EraseTaken \/ UNCHANGED chip)
    BY <1>5 DEF SectorErase, At, Goto, Fails
  <2>2. \/ busy' /\ busy' = TRUE /\ meta' = "torn" /\ wel' = wel /\ wel
        \/ UNCHANGED <<meta, wel, busy>> /\ ~(EraseTaken /\ wel /\ ~busy)
    BY <2>1 DEF EraseTaken, chip
  <2>3. 0 \in 0..(QSPI_BOOT_TIMEOUT - 1)
    BY Bounds
  <2>4. Places' /\ EraseTypes'
    BY <1>0, <2>1, <2>2, <2>3 DEF Places, EraseTypes
  <2>5. pc' = "busy" => meta' # "pending"
    BY <1>0, <2>1, <2>2 DEF EraseTypes, Erasing
  <2> QED
    BY <1>0, <2>1, <2>2, <2>4, <2>5 DEF Erasing
<1>6. CASE WaitBusy
  <2>1. /\ pc = "busy" /\ UNCHANGED <<attempt, retries, meta, wel, busy>>
        /\ \/ ~busy /\ cleared' = "ok" /\ pc' = "clear" /\ polls' = polls
           \/ polls + 1 < QSPI_BOOT_TIMEOUT /\ polls' = polls + 1 /\ UNCHANGED <<pc, cleared>>
           \/ cleared' = "failed" /\ pc' = "clear" /\ polls' = polls
    BY <1>6 DEF WaitBusy, At, Goto, Fails, chip
  <2>2. polls' \in 0..(QSPI_BOOT_TIMEOUT - 1)
    BY <1>0, <2>1, Bounds DEF EraseTypes
  <2>3. ~busy => meta = "blank"
    BY <1>0, <2>1 DEF EraseTypes, Erasing
  <2> QED
    BY <1>0, <2>1, <2>2, <2>3 DEF Places, EraseTypes, Erasing
<1>7. CASE ChipDone
  <2>1. FALSE \in BOOLEAN
    BY Zenon
  <2> QED
    BY <1>0, <1>7, <2>1 DEF ChipDone, Places, EraseTypes, Erasing, erase
<1>8. CASE UNCHANGED vars
  BY <1>0, <1>8 DEF vars, erase, chip, Places, EraseTypes, Erasing
<1> QED
  BY <1>1, <1>2, <1>3, <1>4, <1>5, <1>6, <1>7, <1>8 DEF Clear

LEMMA NextErases == EInv /\ [Next]_vars => EInv'
<1> SUFFICES ASSUME EInv, [Next]_vars PROVE EInv'
  OBVIOUS
<1>1. CASE Verify
  BY <1>1, VerifyKeeps
<1>2. CASE Clear \/ ChipDone \/ UNCHANGED vars
  BY <1>2, ClearKeeps, ClearKeepsVerify DEF EInv
<1> QED
  BY <1>1, <1>2 DEF Next

----------------------------------------------------------------------------
(* Induction over numbers.                                                 *)

\* Every set of numbers has a least one.
LEMMA LeastNumber ==
  ASSUME NEW T \in SUBSET Nat, T # {}
  PROVE  \E x \in T : \A y \in T : x <= y
<1> DEFINE R == {ss \in Nat \X Nat : ss[1] < ss[2]}
<1>1. IsWellFoundedOn(R, Nat)
  BY NatLessThanWellFounded, Zenon DEF OpToRel
<1>2. \A x, y \in Nat : y < x => <<y, x>> \in R
  OBVIOUS
<1> HIDE DEF R
<1>3. PICK x \in T : \A y \in T : ~ (<<y, x>> \in R)
  BY <1>1, WFMin
<1>4. \A y \in T : ~(y < x)
  BY <1>2, <1>3
<1>5. \A y \in T : x <= y
  BY <1>4
<1> QED
  BY <1>5

\* Induction up to N, for the numbers in a set.
LEMMA UpTo ==
  ASSUME NEW N \in Nat, NEW T, 0 \in T,
         \A n \in 1..N : n - 1 \in T => n \in T
  PROVE  \A n \in 0..N : n \in T
<1> DEFINE Rest == {n \in 0..N : n \notin T}
<1> SUFFICES ASSUME Rest # {} PROVE FALSE
  OBVIOUS
<1>1. Rest \in SUBSET Nat
  OBVIOUS
<1> HIDE DEF Rest
<1>2. PICK x \in Rest : \A y \in Rest : x <= y
  BY <1>1, LeastNumber
<1> USE DEF Rest
<1>3. x \in 0..N /\ x \notin T /\ x # 0
  BY <1>2
<1>4. x - 1 \notin Rest
  BY <1>2, <1>3
<1>5. x \in 1..N /\ x - 1 \in T
  BY <1>3, <1>4
<1> QED
  BY <1>3, <1>5

\* A recursion over the numbers up to N has a solution.
LEMMA Recursion ==
  ASSUME NEW N \in Nat, NEW c \in Words, NEW step \in [1..N -> [Words -> Words]]
  PROVE  \E r \in [0..N -> Words] :
           r[0] = c /\ \A n \in 1..N : r[n] = step[n][r[n - 1]]
<1> DEFINE Solves(r, k) ==
      r[0] = c /\ \A n \in 1..k : r[n] = step[n][r[n - 1]]
<1> DEFINE T == {k \in 0..N : \E r \in [0..k -> Words] : Solves(r, k)}
<1>1. 0 \in T
  <2> DEFINE r == [n \in 0..0 |-> c]
  <2>1. r \in [0..0 -> Words] /\ Solves(r, 0)
    OBVIOUS
  <2> HIDE DEF r, Solves
  <2> QED
    BY <2>1
<1>2. ASSUME NEW k \in 1..N, k - 1 \in T
      PROVE  k \in T
  <2>1. PICK r \in [0..(k - 1) -> Words] : Solves(r, k - 1)
    BY <1>2
  <2> DEFINE next == step[k][r[k - 1]]
  <2>2. next \in Words
    BY <2>1
  <2> HIDE DEF next
  <2> DEFINE q == [n \in 0..k |-> IF n = k THEN next ELSE r[n]]
  <2>3. q \in [0..k -> Words]
    BY <2>2
  <2>4. q[0] = c
    BY <2>1
  <2>5. \A n \in 1..(k - 1) : q[n] = r[n] /\ q[n - 1] = r[n - 1]
    OBVIOUS
  <2>6. q[k] = step[k][q[k - 1]]
    BY DEF next
  <2>7. Solves(q, k)
    <3> SUFFICES ASSUME NEW n \in 1..k PROVE q[n] = step[n][q[n - 1]]
      BY <2>4
    <3>1. CASE n = k
      BY <2>6, <3>1
    <3>2. CASE n # k
      BY <2>1, <2>5, <3>2
    <3> QED
      BY <3>1, <3>2
  <2> HIDE DEF q, Solves
  <2> QED
    BY <2>3, <2>7
<1>3. N \in 0..N
  OBVIOUS
<1> HIDE DEF T
<1>4. N \in T
  BY <1>1, <1>2, <1>3, UpTo
<1> QED
  BY <1>4 DEF T

----------------------------------------------------------------------------
(* Words, bit by bit.                                                      *)

LEMMA Mirrored ==
  ASSUME NEW w \in Words
  PROVE  Mirror(w) \in Words /\ \A i \in AllOnes : i \in Mirror(w) <=> 31 - i \in w
BY DEF Mirror, Words, AllOnes

LEMMA Shifted ==
  ASSUME NEW w \in Words, NEW k \in Nat
  PROVE  /\ ShiftRight(w, k) \in Words
         /\ \A i \in Nat : i \in ShiftRight(w, k) <=> i + k \in w
BY DEF ShiftRight, Words, AllOnes

LEMMA ByteShifted ==
  ASSUME NEW y \in Bytes, NEW k \in Nat
  PROVE  /\ ShiftRight(y, k) \in Bytes
         /\ \A i \in Nat : i \in ShiftRight(y, k) <=> i + k \in y
BY DEF ShiftRight, Bytes

LEMMA Xored ==
  ASSUME NEW v, NEW w
  PROVE  \A i : i \in Xor(v, w) <=> ~(i \in v <=> i \in w)
BY DEF Xor

LEMMA PolynomialWord ==
  /\ Polynomial \in Words /\ Generator \in Words
  /\ \A i \in AllOnes : i \in Polynomial <=> 31 - i \in Generator
BY DEF Polynomial, Generator, Words, AllOnes

\* What a turn of the inner loop does to each bit.
LEMMA BitStepped ==
  ASSUME NEW w \in Words
  PROVE  /\ BitStep[w] \in Words
         /\ \A i \in AllOnes :
              i \in BitStep[w] <=> ~(i + 1 \in w <=> 0 \in w /\ i \in Polynomial)
<1>1. BitStep[w] = IF 0 \in w THEN Xor(ShiftRight(w, 1), Polynomial) ELSE ShiftRight(w, 1)
  BY DEF BitStep, Words
<1>2. ShiftRight(w, 1) \in Words /\ \A i \in Nat : i \in ShiftRight(w, 1) <=> i + 1 \in w
  BY Shifted
<1>3. BitStep[w] \in Words
  BY <1>1, <1>2, PolynomialWord DEF Xor, Words
<1>4. \A i \in AllOnes : i \in ShiftRight(w, 1) <=> i + 1 \in w
  BY <1>2 DEF AllOnes
<1>5. ASSUME NEW i \in AllOnes
      PROVE  i \in BitStep[w] <=> ~(i + 1 \in w <=> 0 \in w /\ i \in Polynomial)
  <2>1. i \in Xor(ShiftRight(w, 1), Polynomial)
          <=> ~(i \in ShiftRight(w, 1) <=> i \in Polynomial)
    BY Xored
  <2>2. i \in ShiftRight(w, 1) <=> i + 1 \in w
    BY <1>4
  <2> QED
    BY <1>1, <2>1, <2>2
<1> QED
  BY <1>3, <1>5

\* What the ground's division does to each bit.
LEMMA Fed ==
  ASSUME NEW r \in Words, NEW bit \in BOOLEAN
  PROVE  /\ Feed(r, bit) \in Words
         /\ \A i \in AllOnes :
              i \in Feed(r, bit) <=>
                ~(i - 1 \in r <=> ((31 \in r) # bit) /\ i \in Generator)
<1> DEFINE shifted == {i + 1 : i \in r \ {31}}
<1>1. shifted \in Words /\ \A i \in AllOnes : i \in shifted <=> i - 1 \in r
  BY DEF Words, AllOnes
<1>2. Feed(r, bit) = IF (31 \in r) # bit THEN Xor(shifted, Generator) ELSE shifted
  BY DEF Feed
<1> HIDE DEF shifted
<1>3. Feed(r, bit) \in Words
  BY <1>1, <1>2, PolynomialWord DEF Xor, Words
<1>4. ASSUME NEW i \in AllOnes
      PROVE  i \in Feed(r, bit) <=>
                ~(i - 1 \in r <=> ((31 \in r) # bit) /\ i \in Generator)
  <2>1. CASE (31 \in r) # bit
    <3>1. i \in Xor(shifted, Generator) <=> ~(i \in shifted <=> i \in Generator)
      BY Xored
    <3>2. i \in shifted <=> i - 1 \in r
      BY <1>1
    <3> QED
      BY <1>2, <2>1, <3>1, <3>2
  <2>2. CASE ~((31 \in r) # bit)
    BY <1>1, <1>2, <2>2, Zenon
  <2> QED
    BY <2>1, <2>2
<1> QED
  BY <1>3, <1>4

\* The loop's bit is the ground's, in a mirror.
LEMMA FeedMirrors ==
  ASSUME NEW r \in Words, NEW y \in Bytes
  PROVE  BitStep[Xor(Mirror(r), y)] = Xor(Mirror(Feed(r, 0 \in y)), ShiftRight(y, 1))
<1> DEFINE w == Xor(Mirror(r), y)
<1> DEFINE f == Feed(r, 0 \in y)
<1>0. (0 \in y) \in BOOLEAN
  OBVIOUS
<1>1. y \in Words
  BY DEF Bytes, Words, AllOnes
<1>2. w \in Words
  BY <1>1, Mirrored DEF Xor, Words
<1>3. f \in Words
  BY <1>0, Fed
<1>4. Mirror(f) \in Words /\ ShiftRight(y, 1) \in Words
  BY <1>1, <1>3, Mirrored, Shifted
<1>5. BitStep[w] \in Words /\ Xor(Mirror(f), ShiftRight(y, 1)) \in Words
  BY <1>2, <1>4, BitStepped DEF Xor, Words
<1>6. ASSUME NEW i \in AllOnes
      PROVE  i \in BitStep[w] <=> i \in Xor(Mirror(f), ShiftRight(y, 1))
  <2>1. i \in BitStep[w] <=> ~(i + 1 \in w <=> 0 \in w /\ i \in Polynomial)
    BY <1>2, BitStepped
  <2>2. i \in Xor(Mirror(f), ShiftRight(y, 1)) <=> ~(31 - i \in f <=> i + 1 \in y)
    <3>1. i \in Mirror(f) <=> 31 - i \in f
      BY <1>3, Mirrored
    <3>2. i \in ShiftRight(y, 1) <=> i + 1 \in y
      BY ByteShifted DEF AllOnes
    <3>3. i \in Xor(Mirror(f), ShiftRight(y, 1))
            <=> ~(i \in Mirror(f) <=> i \in ShiftRight(y, 1))
      BY Xored
    <3> HIDE DEF f
    <3> QED
      BY <3>1, <3>2, <3>3
  <2>3. 31 - i \in f <=>
          ~(30 - i \in r <=> ((31 \in r) # (0 \in y)) /\ 31 - i \in Generator)
    <3>1. 31 - i \in AllOnes /\ (31 - i) - 1 = 30 - i
      BY DEF AllOnes
    <3>2. \A j \in AllOnes :
            j \in f <=> ~(j - 1 \in r <=> ((31 \in r) # (0 \in y)) /\ j \in Generator)
      BY <1>0, Fed
    <3> HIDE DEF f
    <3> QED
      BY <3>1, <3>2
  <2>4. 0 \in w <=> ((31 \in r) # (0 \in y))
    <3>1. 0 \in Mirror(r) <=> 31 \in r
      BY Mirrored DEF AllOnes
    <3>2. 0 \in w <=> ~(0 \in Mirror(r) <=> 0 \in y)
      BY Xored
    <3> QED
      BY <3>1, <3>2
  <2>5. i + 1 \in w <=> ~(30 - i \in r <=> i + 1 \in y)
    <3>1. i + 1 \in Mirror(r) <=> 30 - i \in r
      <4>1. CASE i = 31
        BY <4>1, Mirrored DEF Words, AllOnes
      <4>2. CASE i # 31
        BY <4>2, Mirrored DEF AllOnes
      <4> QED
        BY <4>1, <4>2
    <3>2. i + 1 \in w <=> ~(i + 1 \in Mirror(r) <=> i + 1 \in y)
      BY Xored
    <3> QED
      BY <3>1, <3>2
  <2>6. i \in Polynomial <=> 31 - i \in Generator
    BY PolynomialWord
  <2> HIDE DEF w, f
  <2> QED
    BY <2>1, <2>2, <2>3, <2>4, <2>5, <2>6, Zenon
<1> HIDE DEF w, f
<1>7. BitStep[w] = Xor(Mirror(f), ShiftRight(y, 1))
  BY <1>5, <1>6 DEF Words
<1> QED
  BY <1>7 DEF w, f

----------------------------------------------------------------------------
(* The loops, each as a function from the number of turns to a word.       *)

\* The eight turns for a byte.
LEMMA ByteLoop ==
  ASSUME NEW w \in Words, NEW y \in Bytes
  PROVE  \E r \in [0..8 -> Words] :
           /\ r[0] = Xor(w, y) /\ \A n \in 1..8 : r[n] = BitStep[r[n - 1]]
           /\ ByteStep(w, y) = r[8]
<1> DEFINE c == Xor(w, y)
<1> DEFINE N == 8
<1>1. c \in Words /\ N \in Nat
  BY DEF Xor, Words, Bytes, AllOnes
<1> DEFINE step == [n \in 1..N |-> [v \in Words |-> BitStep[v]]]
<1>2. step \in [1..N -> [Words -> Words]]
  BY BitStepped
<1>3. \A n \in 1..N, v \in Words : step[n][v] = BitStep[v]
  OBVIOUS
<1> HIDE DEF c, N, step
<1>4. PICK r \in [0..N -> Words] :
        r[0] = c /\ \A n \in 1..N : r[n] = step[n][r[n - 1]]
  BY <1>1, <1>2, Recursion
<1>5. \A n \in 1..N : r[n] = BitStep[r[n - 1]]
  BY <1>1, <1>3, <1>4
<1> DEFINE Solution(f) ==
      f = [n \in 0..N |-> IF n = 0 THEN c ELSE BitStep[f[n - 1]]]
<1> DEFINE after == CHOOSE f : Solution(f)
<1>6. Solution(r)
  BY <1>1, <1>4, <1>5
<1>7. Solution(after)
  BY <1>6
<1>8. ByteStep(w, y) = after[N]
  BY DEF ByteStep, c, N
<1> HIDE DEF after
<1>9. after[0] = r[0]
  BY <1>1, <1>4, <1>7
<1>10. \A n \in 1..N : after[n - 1] = r[n - 1] => after[n] = r[n]
  BY <1>1, <1>5, <1>7
<1> HIDE DEF Solution
<1> DEFINE T == {n \in 0..N : after[n] = r[n]}
<1>11. 0 \in T /\ \A n \in 1..N : n - 1 \in T => n \in T
  BY <1>1, <1>9, <1>10
<1> HIDE DEF T
<1>12. N \in 0..N
  BY <1>1
<1>13. N \in T
  BY <1>1, <1>11, <1>12, UpTo
<1>14. after[N] = r[N]
  BY <1>13 DEF T
<1> QED
  BY <1>4, <1>5, <1>8, <1>14 DEF c, N

LEMMA ByteStepWord ==
  ASSUME NEW w \in Words, NEW y \in Bytes
  PROVE  ByteStep(w, y) \in Words
BY ByteLoop

\* The turns for the bytes of a message.
LEMMA UpdateLoop ==
  ASSUME NEW c \in Words, NEW b \in Seq(Bytes)
  PROVE  \E r \in [0..Len(b) -> Words] :
           /\ r[0] = c /\ \A n \in 1..Len(b) : r[n] = ByteStep(r[n - 1], b[n])
           /\ Update(c, b) = r[Len(b)]
<1> DEFINE N == Len(b)
<1>1. N \in Nat /\ \A n \in 1..N : b[n] \in Bytes
  OBVIOUS
<1> DEFINE step == [n \in 1..N |-> [w \in Words |-> ByteStep(w, b[n])]]
<1>2. step \in [1..N -> [Words -> Words]]
  BY <1>1, ByteStepWord
<1>3. \A n \in 1..N, w \in Words : step[n][w] = ByteStep(w, b[n])
  OBVIOUS
<1> HIDE DEF step, N
<1>4. PICK r \in [0..N -> Words] :
        r[0] = c /\ \A n \in 1..N : r[n] = step[n][r[n - 1]]
  BY <1>1, <1>2, Recursion
<1>5. \A n \in 1..N : r[n] = ByteStep(r[n - 1], b[n])
  BY <1>1, <1>3, <1>4
<1> DEFINE Solution(f) ==
      f = [n \in 0..N |-> IF n = 0 THEN c ELSE ByteStep(f[n - 1], b[n])]
<1> DEFINE after == CHOOSE f : Solution(f)
<1>6. Solution(r)
  BY <1>1, <1>4, <1>5
<1>7. Solution(after)
  BY <1>6
<1>8. Update(c, b) = after[N]
  BY DEF Update, N
<1> HIDE DEF after
<1>9. after[0] = r[0]
  BY <1>1, <1>4, <1>7
<1>10. \A n \in 1..N : after[n - 1] = r[n - 1] => after[n] = r[n]
  BY <1>1, <1>5, <1>7
<1> HIDE DEF Solution
<1> DEFINE T == {n \in 0..N : after[n] = r[n]}
<1>11. 0 \in T /\ \A n \in 1..N : n - 1 \in T => n \in T
  BY <1>1, <1>9, <1>10
<1> HIDE DEF T
<1>12. N \in 0..N
  BY <1>1
<1>13. N \in T
  BY <1>1, <1>11, <1>12, UpTo
<1>14. after[N] = r[N]
  BY <1>13 DEF T
<1> QED
  BY <1>4, <1>5, <1>8, <1>14 DEF N

\* The turns of the ground, one for each bit of the message.
LEMMA GroundLoop ==
  ASSUME NEW b \in Seq(Bytes)
  PROVE  \E r \in [0..(8 * Len(b)) -> Words] :
           /\ r[0] = AllOnes
           /\ \A n \in 1..(8 * Len(b)) : r[n] = Feed(r[n - 1], MessageBits(b)[n])
           /\ binascii_crc32(b) = Xor(Mirror(r[8 * Len(b)]), AllOnes)
<1> DEFINE N == 8 * Len(b)
<1> DEFINE m == MessageBits(b)
<1>1. N \in Nat
  OBVIOUS
<1>a. \A n \in 1..N : m[n] \in BOOLEAN
  <2> TAKE n \in 1..N
  <2> DEFINE p == ((n - 1) % 8) \in b[(n + 7) \div 8]
  <2>0. m = [k \in 1..N |-> ((k - 1) % 8) \in b[(k + 7) \div 8]]
    BY DEF MessageBits
  <2> HIDE DEF m, N
  <2>1. m[n] = p
    BY <2>0, Zenon
  <2>2. p = TRUE \/ p = FALSE
    <3>1. CASE ((n - 1) % 8) \in b[(n + 7) \div 8]
      BY <3>1
    <3>2. CASE ((n - 1) % 8) \notin b[(n + 7) \div 8]
      BY <3>2
    <3> QED
      BY <3>1, <3>2
  <2> HIDE DEF m, p
  <2> QED
    BY <2>1, <2>2
<1> HIDE DEF m
<1> DEFINE step == [n \in 1..N |-> [w \in Words |-> Feed(w, m[n])]]
<1>b. \A n \in 1..N, w \in Words : Feed(w, m[n]) \in Words
  BY <1>a, Fed
<1>2. step \in [1..N -> [Words -> Words]]
  BY <1>b
<1>3. \A n \in 1..N, w \in Words : step[n][w] = Feed(w, m[n])
  OBVIOUS
<1> HIDE DEF step, N
<1>c. AllOnes \in Words
  BY DEF Words
<1>4. PICK r \in [0..N -> Words] :
        r[0] = AllOnes /\ \A n \in 1..N : r[n] = step[n][r[n - 1]]
  BY <1>1, <1>2, <1>c, Recursion
<1>5. \A n \in 1..N : r[n] = Feed(r[n - 1], m[n])
  BY <1>1, <1>3, <1>4
<1> DEFINE Solution(f) ==
      f = [n \in 0..N |-> IF n = 0 THEN AllOnes ELSE Feed(f[n - 1], m[n])]
<1> DEFINE rest == CHOOSE f : Solution(f)
<1>6. Solution(r)
  BY <1>1, <1>4, <1>5
<1>7. Solution(rest)
  BY <1>6
<1>8. binascii_crc32(b) = Xor(Mirror(rest[N]), AllOnes)
  BY DEF binascii_crc32, N, m
<1> HIDE DEF rest
<1>9. rest[0] = r[0]
  BY <1>1, <1>4, <1>7
<1>10. \A n \in 1..N : rest[n - 1] = r[n - 1] => rest[n] = r[n]
  BY <1>1, <1>5, <1>7
<1> HIDE DEF Solution
<1> DEFINE T == {n \in 0..N : rest[n] = r[n]}
<1>11. 0 \in T /\ \A n \in 1..N : n - 1 \in T => n \in T
  BY <1>1, <1>9, <1>10
<1> HIDE DEF T
<1>12. N \in 0..N
  BY <1>1
<1>13. N \in T
  BY <1>1, <1>11, <1>12, UpTo
<1>14. rest[N] = r[N]
  BY <1>13 DEF T
<1> QED
  BY <1>4, <1>5, <1>8, <1>14 DEF N, m

\* A byte in the loop is eight bits of the ground, in a mirror.
LEMMA ByteMirrors ==
  ASSUME NEW y \in Bytes, NEW g \in [0..8 -> Words],
         \A k \in 1..8 : g[k] = Feed(g[k - 1], k - 1 \in y)
  PROVE  ByteStep(Mirror(g[0]), y) = Mirror(g[8])
<1>1. Mirror(g[0]) \in Words
  BY Mirrored
<1>2. PICK a \in [0..8 -> Words] :
        /\ a[0] = Xor(Mirror(g[0]), y) /\ \A n \in 1..8 : a[n] = BitStep[a[n - 1]]
        /\ ByteStep(Mirror(g[0]), y) = a[8]
  BY <1>1, ByteLoop
<1> DEFINE T == {k \in 0..8 : a[k] = Xor(Mirror(g[k]), ShiftRight(y, k))}
<1>3. 0 \in T
  <2>1. ShiftRight(y, 0) = y
    <3>1. ShiftRight(y, 0) \in Bytes /\ \A i \in Nat : i \in ShiftRight(y, 0) <=> i + 0 \in y
      BY ByteShifted
    <3>2. \A i \in 0..7 : i \in ShiftRight(y, 0) <=> i \in y
      BY <3>1
    <3> QED
      BY <3>1, <3>2 DEF Bytes
  <2> QED
    BY <1>2, <2>1
<1>4. ASSUME NEW k \in 1..8, k - 1 \in T
      PROVE  k \in T
  <2> DEFINE j == k - 1
  <2> DEFINE z == ShiftRight(y, j)
  <2>0. j \in Nat /\ k \in Nat
    OBVIOUS
  <2> HIDE DEF j
  <2>1. z \in Bytes /\ \A i \in Nat : i \in z <=> i + j \in y
    BY <2>0, ByteShifted
  <2> USE DEF j
  <2>2. g[k - 1] \in Words
    OBVIOUS
  <2>3. a[k] = BitStep[Xor(Mirror(g[k - 1]), z)]
    BY <1>2, <1>4
  <2> HIDE DEF z
  <2>4. a[k] = Xor(Mirror(Feed(g[k - 1], 0 \in z)), ShiftRight(z, 1))
    BY <2>1, <2>2, <2>3, FeedMirrors
  <2>5. (0 \in z) = (k - 1 \in y)
    <3>1. 0 \in z <=> 0 + (k - 1) \in y
      BY <2>1
    <3> QED
      BY <3>1
  <2>6. ShiftRight(z, 1) = ShiftRight(y, k)
    <3>1. /\ ShiftRight(z, 1) \in Bytes /\ ShiftRight(y, k) \in Bytes
          /\ \A i \in Nat : i \in ShiftRight(z, 1) <=> i + 1 \in z
          /\ \A i \in Nat : i \in ShiftRight(y, k) <=> i + k \in y
      <4> HIDE DEF j
      <4> QED
        BY <2>0, <2>1, ByteShifted
    <3>2. \A i \in Nat : i + 1 \in z <=> i + k \in y
      <4> TAKE i \in Nat
      <4>1. i + 1 \in Nat /\ (i + 1) + (k - 1) = i + k
        OBVIOUS
      <4> QED
        BY <2>1, <4>1
    <3>3. \A i \in 0..7 : i \in ShiftRight(z, 1) <=> i \in ShiftRight(y, k)
      BY <3>1, <3>2
    <3> QED
      BY <3>1, <3>3 DEF Bytes
  <2>7. g[k] = Feed(g[k - 1], 0 \in z)
    BY <2>5
  <2> QED
    BY <2>4, <2>6, <2>7
<1>5. 8 \in T
  <2> HIDE DEF T
  <2>1. \A k \in 0..8 : k \in T
    <3> DEFINE N == 8
    <3>1. N \in Nat
      OBVIOUS
    <3>2. \A k \in 1..N : k - 1 \in T => k \in T
      BY <1>4
    <3> HIDE DEF N
    <3>3. \A k \in 0..N : k \in T
      BY <1>3, <3>1, <3>2, UpTo
    <3> QED
      BY <3>3 DEF N
  <2> QED
    BY <2>1
<1>6. Xor(Mirror(g[8]), ShiftRight(y, 8)) = Mirror(g[8])
  <2>1. ShiftRight(y, 8) = {}
    BY DEF ShiftRight, Bytes
  <2> QED
    BY <2>1 DEF Xor
<1> QED
  BY <1>2, <1>5, <1>6

\* The loop of the bootloader computes what the ground does.
LEMMA LoopIsCrc ==
  ASSUME NEW b \in Seq(Bytes)
  PROVE  Xor(Update(AllOnes, b), AllOnes) = binascii_crc32(b)
<1> DEFINE N == Len(b)
<1>0. N \in Nat /\ \A n \in 1..N : b[n] \in Bytes
  OBVIOUS
<1>w. AllOnes \in Words
  BY DEF Words
<1>1. PICK u \in [0..N -> Words] :
        /\ u[0] = AllOnes /\ \A n \in 1..N : u[n] = ByteStep(u[n - 1], b[n])
        /\ Update(AllOnes, b) = u[N]
  BY <1>w, UpdateLoop
<1>2. PICK g \in [0..(8 * N) -> Words] :
        /\ g[0] = AllOnes
        /\ \A n \in 1..(8 * N) : g[n] = Feed(g[n - 1], MessageBits(b)[n])
        /\ binascii_crc32(b) = Xor(Mirror(g[8 * N]), AllOnes)
  BY GroundLoop
<1>3. \A n \in 1..(8 * N) :
        MessageBits(b)[n] = (((n - 1) % 8) \in b[(n + 7) \div 8])
  BY DEF MessageBits
<1> HIDE DEF N
<1> DEFINE T == {n \in 0..N : u[n] = Mirror(g[8 * n])}
<1>4. 0 \in T
  <2>1. Mirror(AllOnes) = AllOnes
    <3>1. \A i \in AllOnes : i \in Mirror(AllOnes)
      <4> TAKE i \in AllOnes
      <4>1. 31 - i \in AllOnes
        BY DEF AllOnes
      <4>2. i \in Mirror(AllOnes) <=> 31 - i \in AllOnes
        BY <1>w, Mirrored
      <4> QED
        BY <4>1, <4>2
    <3>2. Mirror(AllOnes) \in Words
      BY <1>w, Mirrored
    <3> QED
      BY <3>1, <3>2 DEF Words
  <2> QED
    BY <1>0, <1>1, <1>2, <2>1
<1>5. ASSUME NEW n \in 1..N, n - 1 \in T
      PROVE  n \in T
  <2> DEFINE h == [k \in 0..8 |-> g[8 * (n - 1) + k]]
  <2>1. h \in [0..8 -> Words] /\ h[0] = g[8 * (n - 1)] /\ h[8] = g[8 * n]
    BY <1>0
  <2>2. ASSUME NEW k \in 1..8
        PROVE  h[k] = Feed(h[k - 1], k - 1 \in b[n])
    <3> DEFINE m == 8 * (n - 1) + k
    <3>1. m \in 1..(8 * N) /\ (m - 1) % 8 = k - 1 /\ (m + 7) \div 8 = n
      BY <1>0
    <3>2. h[k] = g[m] /\ h[k - 1] = g[m - 1]
      BY <3>1
    <3> HIDE DEF m, h
    <3>3. g[m] = Feed(g[m - 1], MessageBits(b)[m])
      BY <1>2, <3>1
    <3>4. MessageBits(b)[m] = (k - 1 \in b[n])
      BY <1>3, <3>1
    <3> QED
      BY <3>2, <3>3, <3>4
  <2> HIDE DEF h
  <2>3. ByteStep(Mirror(h[0]), b[n]) = Mirror(h[8])
    BY <1>0, <2>1, <2>2, ByteMirrors
  <2>4. u[n] = ByteStep(u[n - 1], b[n]) /\ u[n - 1] = Mirror(g[8 * (n - 1)])
    BY <1>1, <1>5
  <2> QED
    BY <2>1, <2>3, <2>4
<1>6. N \in 0..N
  BY <1>0
<1>7. u[N] = Mirror(g[8 * N])
  <2> HIDE DEF T
  <2>1. N \in T
    BY <1>0, <1>4, <1>5, <1>6, UpTo
  <2> QED
    BY <2>1 DEF T
<1> QED
  BY <1>1, <1>2, <1>7

----------------------------------------------------------------------------
(* Chunks.                                                                 *)

\* The bytes of s from p + 1 to p + e take the loop over s from r[p] to r[p + e].
LEMMA PartOfLoop ==
  ASSUME NEW s \in Seq(Bytes), NEW r \in [0..Len(s) -> Words],
         \A n \in 1..Len(s) : r[n] = ByteStep(r[n - 1], s[n]),
         NEW p \in Nat, NEW e \in Nat, p + e <= Len(s)
  PROVE  Update(r[p], SubSeq(s, p + 1, p + e)) = r[p + e]
<1> DEFINE t == SubSeq(s, p + 1, p + e)
<1>1. /\ t \in Seq(Bytes) /\ Len(t) = e
      /\ \A n \in 1..e : t[n] = s[p + n]
  OBVIOUS
<1>2. r[p] \in Words
  OBVIOUS
<1> HIDE DEF t
<1>3. PICK q \in [0..e -> Words] :
        /\ q[0] = r[p] /\ \A n \in 1..e : q[n] = ByteStep(q[n - 1], t[n])
        /\ Update(r[p], t) = q[e]
  BY <1>1, <1>2, UpdateLoop
<1> DEFINE T == {n \in 0..e : q[n] = r[p + n]}
<1>4. 0 \in T
  BY <1>3
<1>5. ASSUME NEW n \in 1..e, n - 1 \in T
      PROVE  n \in T
  <2>1. q[n - 1] = r[p + n - 1]
    BY <1>5
  <2>2. p + n \in 1..Len(s)
    OBVIOUS
  <2>3. r[p + n] = ByteStep(r[p + n - 1], s[p + n])
    BY <2>2
  <2>4. q[n] = ByteStep(q[n - 1], t[n]) /\ t[n] = s[p + n]
    BY <1>1, <1>3
  <2> QED
    BY <2>1, <2>3, <2>4
<1>6. e \in 0..e
  OBVIOUS
<1> HIDE DEF T
<1>7. e \in T
  BY <1>4, <1>5, <1>6, UpTo
<1> QED
  BY <1>3, <1>7 DEF t, T

\* One chunk more.
LEMMA Chunks ==
  ASSUME NEW c \in Words, NEW s \in Seq(Bytes),
         NEW p \in Nat, NEW e \in Nat, p + e <= Len(s)
  PROVE  Update(Update(c, SubSeq(s, 1, p)), SubSeq(s, p + 1, p + e))
           = Update(c, SubSeq(s, 1, p + e))
<1>1. PICK r \in [0..Len(s) -> Words] :
        r[0] = c /\ \A n \in 1..Len(s) : r[n] = ByteStep(r[n - 1], s[n])
  BY UpdateLoop
<1>2. \A k \in 0..Len(s) : Update(c, SubSeq(s, 1, k)) = r[k]
  <2> TAKE k \in 0..Len(s)
  <2>1. Update(r[0], SubSeq(s, 0 + 1, 0 + k)) = r[0 + k]
    <3> DEFINE z == 0
    <3>1. z \in Nat /\ k \in Nat /\ z + k <= Len(s)
      OBVIOUS
    <3> HIDE DEF z
    <3>2. Update(r[z], SubSeq(s, z + 1, z + k)) = r[z + k]
      BY <1>1, <3>1, PartOfLoop
    <3> QED
      BY <3>2 DEF z
  <2>2. 0 + 1 = 1 /\ 0 + k = k
    OBVIOUS
  <2> QED
    BY <1>1, <2>1, <2>2
<1>3. Update(r[p], SubSeq(s, p + 1, p + e)) = r[p + e]
  BY <1>1, PartOfLoop
<1>4. p \in 0..Len(s) /\ p + e \in 0..Len(s)
  OBVIOUS
<1> QED
  BY <1>2, <1>3, <1>4

----------------------------------------------------------------------------
(* Damage.                                                                 *)

\* The bit that was shifted out is seen in bit 31.
LEMMA BitInjective ==
  ASSUME NEW v \in Words, NEW w \in Words, BitStep[v] = BitStep[w]
  PROVE  v = w
<1>1. \A x \in Words : \A i \in AllOnes :
        i \in BitStep[x] <=> ~(i + 1 \in x <=> 0 \in x /\ i \in Polynomial)
  BY BitStepped
<1>2. \A x \in Words : 31 \in BitStep[x] <=> 0 \in x
  <2>1. 31 \in AllOnes /\ 31 \in Polynomial /\ 31 + 1 = 32
    BY DEF AllOnes, Polynomial
  <2>2. \A x \in Words : 32 \notin x
    BY DEF Words, AllOnes
  <2> QED
    BY <1>1, <2>1, <2>2
<1>3. 0 \in v <=> 0 \in w
  <2>1. (31 \in BitStep[v] <=> 0 \in v) /\ (31 \in BitStep[w] <=> 0 \in w)
    BY <1>2
  <2> QED
    BY <2>1
<1>4. ASSUME NEW i \in AllOnes
      PROVE  i \in v <=> i \in w
  <2>1. CASE i = 0
    BY <1>3, <2>1
  <2>2. CASE i # 0
    <3> DEFINE j == i - 1
    <3>1. j \in AllOnes /\ j + 1 = i
      BY <2>2 DEF AllOnes
    <3> HIDE DEF j
    <3> QED
      BY <1>1, <1>3, <3>1
  <2> QED
    BY <2>1, <2>2
<1> QED
  BY <1>4 DEF Words

LEMMA ByteInjective ==
  ASSUME NEW v \in Words, NEW w \in Words, NEW y \in Bytes, NEW z \in Bytes,
         ByteStep(v, y) = ByteStep(w, z)
  PROVE  Xor(v, y) = Xor(w, z)
<1>1. PICK a \in [0..8 -> Words] :
        /\ a[0] = Xor(v, y) /\ \A n \in 1..8 : a[n] = BitStep[a[n - 1]]
        /\ ByteStep(v, y) = a[8]
  BY ByteLoop
<1>2. PICK b \in [0..8 -> Words] :
        /\ b[0] = Xor(w, z) /\ \A n \in 1..8 : b[n] = BitStep[b[n - 1]]
        /\ ByteStep(w, z) = b[8]
  BY ByteLoop
<1> DEFINE N == 8
<1> DEFINE T == {k \in 0..N : a[N - k] = b[N - k]}
<1>3. 0 \in T
  <2>1. ByteStep(v, y) = a[8] /\ ByteStep(w, z) = b[8]
    BY <1>1, <1>2
  <2>2. a[8] = b[8]
    BY <2>1, Zenon
  <2>3. N - 0 = 8 /\ 0 \in 0..N
    OBVIOUS
  <2> QED
    BY <2>2, <2>3
<1>4. ASSUME NEW k \in 1..N, k - 1 \in T
      PROVE  k \in T
  <2> DEFINE n == N - k + 1
  <2>1. n \in 1..8 /\ n - 1 \in 0..8 /\ N - (k - 1) = n /\ N - k = n - 1
    OBVIOUS
  <2>2. a[n] = b[n]
    BY <1>4, <2>1
  <2> HIDE DEF n, N
  <2>3. BitStep[a[n - 1]] = BitStep[b[n - 1]]
    BY <1>1, <1>2, <2>1, <2>2
  <2>4. a[n - 1] = b[n - 1]
    BY <2>1, <2>3, BitInjective
  <2> QED
    BY <2>1, <2>4
<1>5. N \in Nat /\ N \in 0..N
  OBVIOUS
<1> HIDE DEF T, N
<1>6. N \in T
  BY <1>3, <1>4, <1>5, UpTo
<1>7. a[0] = b[0]
  BY <1>6 DEF T, N
<1> QED
  BY <1>1, <1>2, <1>7

\* Words that differ, or bytes that differ, stay so in the loop.
LEMMA ByteTells ==
  ASSUME NEW v \in Words, NEW w \in Words, NEW y \in Bytes, NEW z \in Bytes,
         v = w <=> y # z
  PROVE  ByteStep(v, y) # ByteStep(w, z)
<1> SUFFICES ASSUME ByteStep(v, y) = ByteStep(w, z) PROVE FALSE
  OBVIOUS
<1>1. Xor(v, y) = Xor(w, z)
  BY ByteInjective
<1>2. \A i : (i \in v <=> i \in y) <=> (i \in w <=> i \in z)
  <2> TAKE i
  <2>1. i \in Xor(v, y) <=> ~(i \in v <=> i \in y)
    BY Xored
  <2>2. i \in Xor(w, z) <=> ~(i \in w <=> i \in z)
    BY Xored
  <2> QED
    BY <1>1, <2>1, <2>2
<1>3. CASE v = w
  <2>1. \A i : i \in y <=> i \in z
    BY <1>2, <1>3
  <2>2. y = z
    BY <2>1
  <2> QED
    BY <1>3, <2>2
<1>4. CASE v # w
  <2>1. \A i : i \in v <=> i \in w
    BY <1>2, <1>4
  <2>2. v = w
    BY <2>1
  <2> QED
    BY <1>4, <2>2
<1> QED
  BY <1>3, <1>4

\* A CRC tells two messages apart of which one byte differs.
LEMMA OneByteShows ==
  ASSUME NEW b \in Seq(Bytes), NEW d \in Seq(Bytes), Len(b) = Len(d),
         NEW at \in 1..Len(b), b[at] # d[at],
         \A n \in 1..Len(b) : n # at => b[n] = d[n]
  PROVE  binascii_crc32(b) # binascii_crc32(d)
<1> DEFINE N == Len(b)
<1>0. N \in Nat /\ \A n \in 1..N : b[n] \in Bytes /\ d[n] \in Bytes
  OBVIOUS
<1>w. AllOnes \in Words
  BY DEF Words
<1>1. PICK u \in [0..N -> Words] :
        /\ u[0] = AllOnes /\ \A n \in 1..N : u[n] = ByteStep(u[n - 1], b[n])
        /\ Update(AllOnes, b) = u[N]
  BY <1>w, UpdateLoop
<1>2. PICK v \in [0..N -> Words] :
        /\ v[0] = AllOnes /\ \A n \in 1..N : v[n] = ByteStep(v[n - 1], d[n])
        /\ Update(AllOnes, d) = v[N]
  <2> DEFINE M == Len(d)
  <2>1. \E v \in [0..M -> Words] :
          /\ v[0] = AllOnes /\ \A n \in 1..M : v[n] = ByteStep(v[n - 1], d[n])
          /\ Update(AllOnes, d) = v[M]
    BY <1>w, UpdateLoop
  <2>2. M = N
    OBVIOUS
  <2> HIDE DEF M, N
  <2> QED
    BY <2>1, <2>2
<1> HIDE DEF N
<1> DEFINE T == {n \in 0..N : u[n] = v[n] <=> n < at}
<1>a. at \in 1..N /\ \A n \in 1..N : n # at => b[n] = d[n]
  BY DEF N
<1>3. 0 \in T
  BY <1>0, <1>1, <1>2, <1>a
<1>4. ASSUME NEW n \in 1..N, n - 1 \in T
      PROVE  n \in T
  <2>1. u[n - 1] \in Words /\ v[n - 1] \in Words /\ b[n] \in Bytes /\ d[n] \in Bytes
    BY <1>0, <1>1, <1>2
  <2>2. u[n] = ByteStep(u[n - 1], b[n]) /\ v[n] = ByteStep(v[n - 1], d[n])
    BY <1>1, <1>2
  <2>3. u[n - 1] = v[n - 1] <=> n - 1 < at
    BY <1>4
  <2>4. CASE n < at
    <3>1. u[n - 1] = v[n - 1] /\ b[n] = d[n]
      BY <1>a, <2>3, <2>4
    <3> QED
      BY <2>2, <2>4, <3>1
  <2>5. CASE ~(n < at)
    <3>1. n - 1 < at <=> n = at
      BY <1>a, <2>5
    <3>2. u[n - 1] = v[n - 1] <=> b[n] # d[n]
      BY <1>a, <2>3, <3>1
    <3>3. u[n] # v[n]
      BY <2>1, <2>2, <3>2, ByteTells
    <3> QED
      BY <2>5, <3>3
  <2> QED
    BY <2>4, <2>5
<1>5. N \in 0..N
  BY <1>0
<1>6. u[N] # v[N]
  <2> HIDE DEF T
  <2>1. N \in T
    BY <1>0, <1>3, <1>4, <1>5, UpTo
  <2> QED
    BY <1>a, <2>1 DEF T
<1>7. u[N] \in Words /\ v[N] \in Words
  BY <1>5
<1>8. Xor(u[N], AllOnes) # Xor(v[N], AllOnes)
  <2>1. PICK i : ~(i \in u[N] <=> i \in v[N])
    BY <1>6, <1>7 DEF Words
  <2>2. i \in Xor(u[N], AllOnes) <=> ~(i \in u[N] <=> i \in AllOnes)
    BY Xored
  <2>3. i \in Xor(v[N], AllOnes) <=> ~(i \in v[N] <=> i \in AllOnes)
    BY Xored
  <2> QED
    BY <2>1, <2>2, <2>3
<1> QED
  BY <1>1, <1>2, <1>8, LoopIsCrc

----------------------------------------------------------------------------
(* The verification.                                                       *)

\* So far the loop has computed the CRC of the bytes below off, and a verdict
\* is what the CRC of the stored image says, or a failed read.
Verifying ==
  /\ \E bits \in Damages : stored = Damaged(image, bits)
  /\ expected = binascii_crc32(image)
  /\ crc = Update(AllOnes, SubSeq(stored, 1, off))
  /\ pc = "verify" <=> verdict = "unknown"
  /\ verdict # "bad" => ~unread
  /\ verdict = "good" => binascii_crc32(stored) = expected
  /\ verdict = "bad" => unread \/ binascii_crc32(stored) # expected

LEMMA StoredBytes ==
  ASSUME EInv, Verifying
  PROVE  /\ image \in Seq(Bytes) /\ stored \in Seq(Bytes)
         /\ Len(stored) = Len(image) /\ Len(image) \in Nat /\ off \in 0..Len(image)
BY DamagedLength DEF EInv, VerifyTypes, Verifying, size

LEMMA UpdateWord ==
  ASSUME NEW c \in Words, NEW b \in Seq(Bytes)
  PROVE  Update(c, b) \in Words
<1>1. PICK r \in [0..Len(b) -> Words] : Update(c, b) = r[Len(b)]
  BY UpdateLoop
<1>2. Len(b) \in 0..Len(b)
  OBVIOUS
<1> QED
  BY <1>1, <1>2

LEMMA InitVerifies == Init => Verifying
<1> SUFFICES ASSUME Init PROVE Verifying
  OBVIOUS
<1>1. PICK sent \in Images, bits \in Damages :
        image = sent /\ stored = Damaged(sent, bits) /\ expected = binascii_crc32(sent)
  BY DEF Init
<1>2. stored \in Seq(Bytes)
  BY <1>1, DamagedLength
<1>3. SubSeq(stored, 1, 0) = <<>>
  BY <1>2
<1>4. Update(AllOnes, <<>>) = AllOnes
  <2> DEFINE none == <<>>
  <2>1. none \in Seq(Bytes) /\ Len(none) = 0 /\ AllOnes \in Words
    BY DEF Words
  <2> HIDE DEF none
  <2>2. PICK r \in [0..Len(none) -> Words] :
          r[0] = AllOnes /\ Update(AllOnes, none) = r[Len(none)]
    BY <2>1, UpdateLoop
  <2>3. Update(AllOnes, none) = AllOnes
    BY <2>1, <2>2
  <2> QED
    BY <2>3 DEF none
<1>5. crc = Update(AllOnes, SubSeq(stored, 1, off))
  BY <1>3, <1>4 DEF Init
<1> QED
  BY <1>1, <1>5 DEF Init, Verifying

LEMMA NextVerifies == EInv /\ Verifying /\ [Next]_vars => Verifying'
<1> SUFFICES ASSUME EInv, Verifying, [Next]_vars PROVE Verifying'
  OBVIOUS
<1>0. /\ image \in Seq(Bytes) /\ stored \in Seq(Bytes)
      /\ Len(stored) = Len(image) /\ Len(image) \in Nat /\ off \in 0..Len(image)
  BY StoredBytes
<1>1. CASE VerifyChunk
  <2>1. Chunk \in Nat /\ off + Chunk <= Len(stored)
    BY <1>0, <1>1, Bounds DEF VerifyChunk, Chunk, size
  <2>2. AllOnes \in Words /\ off \in Nat
    BY <1>0 DEF Words
  <2>3. /\ crc' = Update(crc, SubSeq(stored, off + 1, off + Chunk))
        /\ off' = off + Chunk
        /\ UNCHANGED <<pc, image, stored, expected, verdict, unread>>
    BY <1>1 DEF VerifyChunk
  <2> HIDE DEF Chunk
  <2>4. crc' = Update(AllOnes, SubSeq(stored, 1, off + Chunk))
    BY <1>0, <2>1, <2>2, <2>3, Chunks DEF Verifying
  <2> QED
    BY <2>3, <2>4 DEF Verifying
<1>2. CASE VerifyReadFails
  BY <1>2 DEF VerifyReadFails, Verifying, At, Goto
<1>3. CASE VerifyEnd
  <2>1. pc = "verify" /\ off = Len(stored)
    BY <1>0, <1>3 DEF VerifyEnd, At, size
  <2>2. SubSeq(stored, 1, off) = stored
    BY <1>0, <2>1
  <2>3. Xor(crc, AllOnes) = binascii_crc32(stored)
    BY <1>0, <2>2, LoopIsCrc DEF Verifying
  <2>4. ~unread
    BY <2>1 DEF Verifying
  <2>5. /\ verdict' = IF binascii_crc32(stored) = expected THEN "good" ELSE "bad"
        /\ pc' = "clear" /\ UNCHANGED <<image, stored, expected, off, crc, unread>>
    BY <1>3, <2>3 DEF VerifyEnd, Goto
  <2> QED
    BY <2>4, <2>5 DEF Verifying
<1>4. CASE Clear \/ ChipDone \/ UNCHANGED vars
  <2>1. UNCHANGED check
    BY <1>4 DEF Clear, ClearAttempt, ClearEnd, Wren, ReadWel, SectorErase, WaitBusy,
           ChipDone, vars
  <2>2. pc' = "verify" <=> pc = "verify"
    BY <1>4 DEF Clear, ClearAttempt, ClearEnd, Wren, ReadWel, SectorErase, WaitBusy,
           ChipDone, vars, At, Goto, Fails
  <2> QED
    BY <2>1, <2>2 DEF Verifying, check
<1> QED
  BY <1>1, <1>2, <1>3, <1>4 DEF Next, Verify

----------------------------------------------------------------------------
(* The theorems.                                                           *)

\* The loop of ota_verify_crc computes the CRC that the ground computes with
\* binascii, for every message.
THEOREM CrcIsOfTheGround ==
  \A b \in Seq(Bytes) : Xor(Update(AllOnes, b), AllOnes) = binascii_crc32(b)
BY LoopIsCrc

\* Whatever happens to a single byte of a message, of any length, changes its
\* CRC, so that ota_verify_crc notices it.
THEOREM DamagedByteShows ==
  \A b, d \in Seq(Bytes) : \A at \in 1..Len(b) :
    /\ Len(b) = Len(d)
    /\ \A n \in 1..Len(b) : b[n] = d[n] <=> n # at
    => binascii_crc32(b) # binascii_crc32(d)
<1> SUFFICES ASSUME NEW b \in Seq(Bytes), NEW d \in Seq(Bytes), NEW at \in 1..Len(b),
                    Len(b) = Len(d),
                    \A n \in 1..Len(b) : b[n] = d[n] <=> n # at
             PROVE  binascii_crc32(b) # binascii_crc32(d)
  OBVIOUS
<1>1. b[at] # d[at] /\ \A n \in 1..Len(b) : n # at => b[n] = d[n]
  OBVIOUS
<1> QED
  BY <1>1, OneByteShows

\* Types: every variable of verification and erase, the words of the CRC too.
THEOREM TypeCorrect == Spec => []TypeOK
<1>1. EInv /\ Verifying => TypeOK
  <2> SUFFICES ASSUME EInv, Verifying PROVE TypeOK
    OBVIOUS
  <2>1. SubSeq(stored, 1, off) \in Seq(Bytes)
    <3>1. stored \in Seq(Bytes) /\ off \in Nat /\ off <= Len(stored)
      BY StoredBytes
    <3> QED
      BY <3>1
  <2>2. AllOnes \in Words
    BY DEF Words
  <2>3. crc \in Words
    BY <2>1, <2>2, UpdateWord DEF Verifying
  <2>4. expected \in Words
    <3>1. Update(AllOnes, image) \in Words
      BY <2>2, StoredBytes, UpdateWord
    <3>2. expected = Xor(Update(AllOnes, image), AllOnes)
      BY StoredBytes, LoopIsCrc DEF Verifying
    <3> QED
      BY <3>1, <3>2 DEF Xor, Words
  <2> QED
    BY <2>3, <2>4 DEF EInv, TypeOK, Places, FaultsBounded, CrcTypes, Words
<1> QED
  BY <1>1, InitErases, NextErases, InitVerifies, NextVerifies, PTL DEF Spec

\* A verdict is what the CRC of the ground says, and good only if everything
\* could be read.
VerdictOfTheCrc ==
  /\ verdict = "good" => ~unread /\ binascii_crc32(stored) = binascii_crc32(image)
  /\ verdict = "bad"  => unread \/ binascii_crc32(stored) # binascii_crc32(image)

\* ota_verify_crc, which reads the image in chunks, decides as the ground would,
\* for any image, any damage and any length of a chunk.
THEOREM VerdictIsOfTheCrc == Spec => []VerdictOfTheCrc
<1>1. Verifying => VerdictOfTheCrc
  BY DEF Verifying, VerdictOfTheCrc
<1> QED
  BY <1>1, InitErases, NextErases, InitVerifies, NextVerifies, PTL DEF Spec

\* The verdict is right for every image and every damage that a CRC shows.
THEOREM VerdictRight ==
  ASSUME DamageShows
  PROVE  Spec => []VerdictIsRight
<1>1. EInv /\ Verifying => VerdictIsRight
  <2> SUFFICES ASSUME EInv, Verifying PROVE VerdictIsRight
    OBVIOUS
  <2>1. image \in Images
    BY DEF EInv, VerifyTypes
  <2>2. PICK bits \in Damages : stored = Damaged(image, bits)
    BY DEF Verifying
  <2>3. binascii_crc32(stored) = binascii_crc32(image) => stored = image
    BY <2>1, <2>2, DamageShows DEF DamageShows
  <2> QED
    BY <2>3 DEF Verifying, VerdictIsRight
<1> QED
  BY <1>1, InitErases, NextErases, InitVerifies, NextVerifies, PTL DEF Spec

\* clear_ota_metadata never reports success for metadata that are still there,
\* or that the chip is still erasing, whatever went wrong in earlier attempts
\* and however long an erase goes on that the driver has given up.
THEOREM ClearedIsBlank == Spec => []ClearedMeansBlank
<1>1. EInv => ClearedMeansBlank
  BY DEF EInv, Erasing, ClearedMeansBlank
<1> QED
  BY <1>1, InitErases, NextErases, PTL DEF Spec
=============================================================================
