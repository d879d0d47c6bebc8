------------------------- MODULE Bootloader_proofs --------------------------
(***************************************************************************)
(* Proofs about Bootloader, for all images, all sizes, every number of     *)
(* power cuts and any failures.                                            *)
(***************************************************************************)
EXTENDS Bootloader, TLAPS

LEMMA Constants ==
  /\ Image # {}
  /\ Size \in [Image -> Nat \ {0}]
  /\ Room \in Nat \ {0} /\ APP_MAX_SIZE \in Nat
  /\ PagesPerSector \in Nat \ {0}
  /\ MaxCuts \in Nat /\ MaxDecays \in Nat
  /\ NoMeta \notin Image
  /\ Blank # Torn
  /\ Blank \notin Image \X Nat /\ Torn \notin Image \X Nat
BY BootAssumption DEF BootAssumption

\* What is being installed is whole and not too large, it fits or is noted
\* not to, and the pages before pos are in place.
Copying ==
  /\ pc \in {"verify", "erase", "copy", "check"} =>
       /\ meta # NoMeta /\ Size[meta] <= APP_MAX_SIZE
       /\ Size[meta] <= Room \/ "size" \in faults
  /\ pc \in {"erase", "copy", "check"} => intact
  /\ pc = "copy" => \A n \in AppPage : n < pos => app[n] = <<meta, n>>

IInv == TypeOK /\ Copying

----------------------------------------------------------------------------
(* Type correctness and the state of the copy.                             *)

LEMMA InitIInv == Init => IInv
<1> SUFFICES ASSUME Init PROVE IInv
  OBVIOUS
<1>1. PICK v \in Image : app = [n \in AppPage |-> IF n < Size[v] THEN <<v, n>> ELSE Blank]
  BY DEF Init
<1>2. app \in [AppPage -> Content]
  <2>1. \A n \in AppPage : n \in Nat
    BY Constants DEF AppPage
  <2> QED  BY <1>1, <2>1 DEF Content
<1>3. pc = "init" /\ pos = 0 /\ meta = NoMeta /\ intact = FALSE /\ faults = {}
      /\ cuts = 0 /\ decays = 0
  BY DEF Init
<1>4. TypeOK
  BY <1>2, <1>3, Constants DEF TypeOK, Steps
<1>5. Copying
  BY <1>3 DEF Copying
<1> QED  BY <1>4, <1>5 DEF IInv

\* Any of the pages is erased, torn or written: still pages.
LEMMA WithType ==
  ASSUME app \in [AppPage -> Content], NEW pages, NEW c \in Content
  PROVE  With(pages, c) \in [AppPage -> Content]
BY DEF With

LEMMA SimplePages == Blank \in Content /\ Torn \in Content
BY DEF Content

LEMMA JumpType == AppIsValid => pc' \in {"app", "hung"}
BY DEF AppIsValid

\* The history only grows.
LEMMA FaultType ==
  ASSUME NEW f \in Faults, faults \subseteq Faults, Fault(f)
  PROVE  faults' \subseteq Faults /\ faults \subseteq faults' /\ f \in faults'
BY DEF Fault

LEMMA KnownFaults ==
  "efc" \in Faults /\ "read" \in Faults /\ "verdict" \in Faults /\ "size" \in Faults
BY DEF Faults

LEMMA FaultsGrow ==
  ASSUME TypeOK, [Next]_vars
  PROVE  faults' \subseteq Faults /\ faults \subseteq faults'
<1>1. CASE faults' = faults
  BY <1>1 DEF TypeOK
<1>2. CASE \E f \in {"efc", "read", "verdict", "size"} : Fault(f)
  BY <1>2, FaultType, KnownFaults DEF TypeOK
<1>3. faults' = faults \/ \E f \in {"efc", "read", "verdict", "size"} : Fault(f)
  <2>1. CASE Boot
    BY <2>1 DEF Boot, QspiInit, NothingPending, BadSize, ReadMetadata, VerifyOk,
       VerifyFails, EraseSector, EraseDone, CopyPage, CopyDone, CheckOk, CheckFails
  <2>2. CASE ~Boot /\ Next
    BY <2>2 DEF Next, AppStores, AppDiscards, AppResets, Decay, PowerCut
  <2>3. CASE UNCHANGED vars
    BY <2>3 DEF vars
  <2> QED  BY <2>1, <2>2, <2>3
<1> QED  BY <1>1, <1>2, <1>3

LEMMA IInvStep == IInv /\ [Next]_vars => IInv'
<1> SUFFICES ASSUME TypeOK, Copying, [Next]_vars PROVE IInv'
  BY DEF IInv
<1> USE Constants DEF Jump
<1>0. faults' \subseteq Faults /\ faults \subseteq faults'
  BY FaultsGrow
<1>1. CASE QspiInit
  BY <1>0, <1>1, JumpType DEF QspiInit, IInv, TypeOK, Copying, Steps, flash, AppPage, Content
<1>2. CASE NothingPending
  BY <1>0, <1>2, JumpType DEF NothingPending, IInv, TypeOK, Copying, Steps, flash
<1>3. CASE BadSize
  BY <1>0, <1>3, JumpType DEF BadSize, ClearMetadata, IInv, TypeOK, Copying, Steps
<1>4. CASE ReadMetadata
  BY <1>0, <1>4 DEF ReadMetadata, TooLarge, Fault, IInv, TypeOK, Copying, Steps, flash
<1>5. CASE VerifyOk
  BY <1>0, <1>5 DEF VerifyOk, IInv, TypeOK, Copying, Steps, flash
<1>6. CASE VerifyFails
  BY <1>0, <1>6, JumpType DEF VerifyFails, ClearMetadata, IInv, TypeOK, Copying, Steps
<1>7. CASE EraseSector
  <2>1. app' \in [AppPage -> Content]
    BY <1>7, WithType, SimplePages DEF EraseSector, TypeOK
  <2>2. pos' \in Nat /\ pc' \in {"erase", "check"}
    BY <1>7 DEF EraseSector, TypeOK
  <2> QED  BY <1>0, <1>7, <2>1, <2>2 DEF EraseSector, IInv, TypeOK, Copying, Steps
<1>8. CASE EraseDone
  BY <1>0, <1>8 DEF EraseDone, IInv, TypeOK, Copying, Steps, flash, AppPage
<1>9. CASE CopyPage
  <2>1. meta \in Image /\ pc = "copy" /\ pos \in Nat /\ pos <= Room
    BY <1>9 DEF CopyPage, TypeOK, Copying
  <2>2. <<meta, pos>> \in Content
    BY <2>1 DEF Content
  <2>3. app' \in [AppPage -> Content]
    BY <1>9, <2>2, WithType, SimplePages DEF CopyPage, TypeOK
  <2>4. pos' \in Nat /\ (pc' = "copy" => pos' <= Room) /\ pc' \in {"copy", "check"}
    BY <1>9, <2>1 DEF CopyPage, TypeOK
  <2>5. pc' = "copy" => \A n \in AppPage : n < pos' => app'[n] = <<meta, n>>
    <3> SUFFICES ASSUME pc' = "copy", NEW n \in AppPage, n < pos'
                 PROVE  app'[n] = <<meta, n>>
      OBVIOUS
    <3>1. app' = With({pos}, <<meta, pos>>) /\ pos' = pos + 1
      BY <1>9, <2>1 DEF CopyPage
    <3>2. n \in Nat
      BY DEF AppPage
    <3>3. CASE n = pos
      BY <3>1, <3>3 DEF With
    <3>4. CASE n # pos
      BY <2>1, <3>1, <3>2, <3>4 DEF With, Copying
    <3> QED  BY <3>3, <3>4
  <2> QED  BY <1>0, <1>9, <2>1, <2>3, <2>4, <2>5 DEF CopyPage, IInv, TypeOK, Copying, Steps
<1>10. CASE CopyDone
  BY <1>0, <1>10 DEF CopyDone, IInv, TypeOK, Copying, Steps, flash
<1>11. CASE CheckOk
  BY <1>0, <1>11, JumpType DEF CheckOk, ClearMetadata, IInv, TypeOK, Copying, Steps
<1>12. CASE CheckFails
  BY <1>0, <1>12, JumpType DEF CheckFails, IInv, TypeOK, Copying, Steps, flash
<1>13. CASE \E v \in Image : AppStores(v)
  BY <1>0, <1>13 DEF AppStores, IInv, TypeOK, Copying, Steps
<1>14. CASE AppDiscards
  BY <1>0, <1>14 DEF AppDiscards, IInv, TypeOK, Copying, Steps
<1>15. CASE AppResets
  BY <1>0, <1>15 DEF AppResets, IInv, TypeOK, Copying, Steps, flash
<1>16. CASE Decay
  <2>1. pc = "app" /\ UNCHANGED <<pc, pos, app, meta, cuts>>
    BY <1>16 DEF Decay
  <2>2. intact' \in BOOLEAN
    BY <1>16 DEF Decay
  <2>3. decays' \in Nat
    BY <1>16 DEF Decay, TypeOK
  <2>4. TypeOK'
    BY <1>0, <2>1, <2>2, <2>3 DEF TypeOK
  <2> QED  BY <2>1, <2>4 DEF IInv, Copying
<1>17. CASE PowerCut
  <2>1. app' \in [AppPage -> Content]
    BY <1>17, WithType, SimplePages DEF PowerCut, TypeOK
  <2>2. meta' \in Image \cup {NoMeta}
    BY <1>17 DEF PowerCut, ClearMetadata, TypeOK
  <2>3. intact' \in BOOLEAN
    BY <1>17 DEF PowerCut, TypeOK
  <2>4. pc' = "init" /\ pos' = 0 /\ cuts' \in Nat /\ decays' \in Nat
    BY <1>17 DEF PowerCut, TypeOK
  <2>5. TypeOK'
    BY <1>0, <2>1, <2>2, <2>3, <2>4 DEF TypeOK, Steps
  <2> QED  BY <2>4, <2>5 DEF IInv, Copying
<1>18. CASE UNCHANGED vars
  BY <1>18 DEF vars, flash, IInv, TypeOK, Copying, Steps
<1> QED
  BY <1>1, <1>2, <1>3, <1>4, <1>5, <1>6, <1>7, <1>8, <1>9, <1>10, <1>11,
     <1>12, <1>13, <1>14, <1>15, <1>16, <1>17, <1>18 DEF Next, Boot

THEOREM Invariance == Spec => []IInv
BY InitIInv, IInvStep, PTL DEF Spec

THEOREM TypeCorrect == Spec => []TypeOK
<1>1. IInv => TypeOK
  BY DEF IInv
<1> QED  BY <1>1, Invariance, PTL

\* The application is overwritten only from a stored image that is whole:
\* boot_copy_firmware runs only after boot_verify_external.
THEOREM CopiesOnlyWholeImages == Spec => SourceIsWhole
<1>1. IInv /\ [Next]_vars => [app' # app => meta # NoMeta /\ intact]_vars
  <2> SUFFICES ASSUME IInv, Next, app' # app
               PROVE  meta # NoMeta /\ intact
    OBVIOUS
  <2>1. pc \in {"erase", "copy"}
    <3>1. EraseSector \/ CopyPage \/ PowerCut
      BY DEF Next, Boot, QspiInit, NothingPending, BadSize, ReadMetadata, VerifyOk,
         VerifyFails, EraseDone, CopyDone, CheckOk, CheckFails, AppStores, AppDiscards,
         AppResets, Decay, flash
    <3> QED  BY <3>1 DEF EraseSector, CopyPage, PowerCut
  <2> QED  BY <2>1 DEF IInv, Copying
<1> QED  BY <1>1, Invariance, PTL DEF Spec, SourceIsWhole

----------------------------------------------------------------------------
(* There is always something left to start from.                           *)

\* The application is left as it is but by an erase or a write, and the
\* metadata go only once the image is in place, or is no good.
LEMMA RetryRemainsStep ==
  ASSUME IInv, RetryRemains, Next, Decay => Whole, "verdict" \notin faults',
         "size" \notin faults'
  PROVE  RetryRemains'
<1> USE DEF RetryRemains, Jump
<1>0. "verdict" \notin faults /\ "size" \notin faults
  BY FaultsGrow DEF IInv
<1>1. CASE Whole /\ app' = app
  <2>1. PICK v \in Image : Holds(v)
    BY <1>1 DEF Whole
  <2>2. Holds(v)'
    BY <1>1, <2>1 DEF Holds
  <2> QED  BY <2>2 DEF Whole
<1>2. CASE Installable /\ UNCHANGED <<meta, intact>>
  BY <1>2 DEF Installable
<1>3. CASE EraseSector \/ CopyPage \/ EraseDone \/ CopyDone \/ CheckFails
  <2>1. Installable /\ UNCHANGED <<meta, intact>>
    BY <1>0, <1>3 DEF EraseSector, CopyPage, EraseDone, CopyDone, CheckFails, flash,
       IInv, Copying, Installable
  <2> QED  BY <1>2, <2>1
<1>4. CASE QspiInit \/ NothingPending \/ ReadMetadata \/ VerifyOk \/ AppResets
  <2>1. UNCHANGED <<app, meta, intact>>
    BY <1>4 DEF QspiInit, NothingPending, ReadMetadata, VerifyOk, AppResets, flash
  <2> QED  BY <1>1, <1>2, <2>1
<1>5. CASE BadSize \/ VerifyFails
  <2>1. app' = app
    BY <1>5 DEF BadSize, VerifyFails
  <2>2. ~Installable
    <3>1. meta # NoMeta => Size[meta] \in Nat
      BY Constants DEF IInv, TypeOK
    <3>2. faults \subseteq Faults /\ ~Fault("verdict")
      BY FaultType, KnownFaults DEF IInv, TypeOK
    <3> QED  BY <1>5, <3>1, <3>2, Constants DEF BadSize, VerifyFails, TooLarge, Installable
  <2> QED  BY <1>1, <2>1, <2>2
<1>6. CASE CheckOk
  <2>1. app' = app /\ Holds(meta) /\ meta \in Image
    BY <1>6, Constants DEF CheckOk, CopyIsGood, IInv, Copying, TypeOK
  <2> QED  BY <1>1, <2>1 DEF Whole
<1>7. CASE (\E v \in Image : AppStores(v)) \/ AppDiscards \/ Decay
  <2>1. app' = app /\ Whole
    BY <1>7 DEF AppStores, AppDiscards, Decay
  <2> QED  BY <1>1, <2>1
<1>8. CASE PowerCut
  <2>1. CASE UNCHANGED <<meta, intact>> /\ pc \in {"erase", "copy"}
    BY <1>0, <1>2, <2>1 DEF IInv, Copying, Installable
  <2>2. CASE UNCHANGED <<meta, intact>> /\ pc \notin {"erase", "copy"}
    BY <1>1, <1>2, <1>8, <2>2 DEF PowerCut
  <2>3. CASE Clearing
    <3>1. app' = app
      BY <1>8, <2>3 DEF PowerCut, Clearing
    <3>2. ~(pc = "check" /\ CopyIsGood) => ~Installable
      <4>1. meta # NoMeta => Size[meta] \in Nat
        BY Constants DEF IInv, TypeOK
      <4> QED  BY <2>3, <4>1, Constants DEF Clearing, TooLarge, Installable
    <3>3. pc = "check" /\ CopyIsGood => Whole
      BY DEF CopyIsGood, IInv, Copying, TypeOK, Whole
    <3> QED  BY <1>1, <3>1, <3>2, <3>3
  <2>4. ~Fault("verdict")
    BY FaultType, KnownFaults DEF IInv, TypeOK
  <2> QED  BY <1>8, <2>1, <2>2, <2>3, <2>4 DEF PowerCut
<1> QED
  BY <1>3, <1>4, <1>5, <1>6, <1>7, <1>8 DEF Next, Boot

LEMMA InitWhole == Init => Whole
<1> SUFFICES ASSUME Init PROVE Whole
  OBVIOUS
<1>1. PICK v \in Image :
        /\ Size[v] <= Room
        /\ app = [n \in AppPage |-> IF n < Size[v] THEN <<v, n>> ELSE Blank]
  BY DEF Init
<1>2. Size[v] \in Nat /\ Room \in Nat
  BY Constants
<1>3. \A n \in 0..(Size[v] - 1) : n \in AppPage /\ n < Size[v]
  BY <1>1, <1>2 DEF AppPage
<1>4. Holds(v)
  BY <1>1, <1>3 DEF Holds
<1> QED  BY <1>4 DEF Whole

\* Whatever erases, writes and reads fail, and wherever the power is cut, a whole
\* application is installed or there is still one to install, but for the three
\* exceptions that Recoverable names: a verdict upset by a read that failed, an
\* accepted image that does not fit, and a stored image that goes bad.
THEOREM NeverBricked == Spec => []Recoverable
<1>1. Init => Recoverable
  BY InitWhole DEF Recoverable, RetryRemains
<1>2. IInv /\ Recoverable /\ [Next]_vars => Recoverable'
  <2> SUFFICES ASSUME IInv, Recoverable, [Next]_vars,
                      decays' = 0, "verdict" \notin faults', "size" \notin faults'
               PROVE  RetryRemains'
    BY DEF Recoverable
  <2>1. decays \in Nat /\ (decays' = decays \/ decays' = decays + 1)
    BY DEF IInv, TypeOK, vars, Next, Boot, QspiInit, NothingPending, BadSize,
       ReadMetadata, VerifyOk, VerifyFails, EraseSector, EraseDone, CopyPage, CopyDone,
       CheckOk, CheckFails, AppStores, AppDiscards, AppResets, Decay, PowerCut
  <2>2. decays = 0
    BY <2>1
  <2>3. "verdict" \notin faults /\ "size" \notin faults
    BY FaultsGrow DEF IInv
  <2>4. RetryRemains
    BY <2>2, <2>3 DEF Recoverable
  <2>5. CASE Next
    <3>1. ~Decay
      BY <2>1, <2>2 DEF Decay
    <3> QED  BY <2>4, <2>5, <3>1, RetryRemainsStep
  <2>6. CASE UNCHANGED vars
    BY <2>4, <2>6 DEF vars, flash, RetryRemains, Installable, Whole, Holds
  <2> QED  BY <2>5, <2>6
<1> QED  BY <1>1, <1>2, Invariance, PTL DEF Spec

----------------------------------------------------------------------------
(* As long as nothing fails, power cuts do no harm.                        *)

\* The bootloader does not fail to install what it began to install.
Sound ==
  /\ RetryRemains
  /\ pc = "app" => Whole
  /\ pc = "check" => CopyIsGood

LEMMA SoundStep ==
  ASSUME IInv, Sound, Next, faults' = {}
  PROVE  (pc = "app" => Whole)' /\ (pc = "check" => CopyIsGood)'
<1> USE DEF Sound
<1>0. faults = {} /\ \A f : ~Fault(f)
  <2>1. faults = {}
    BY FaultsGrow DEF IInv
  <2> QED  BY <2>1 DEF Fault
<1>1. ASSUME app' = app, NEW v \in Image, Holds(v) PROVE Holds(v)'
  BY <1>1 DEF Holds
<1>2. Whole /\ app' = app => Whole'
  BY <1>1 DEF Whole
<1>3. pc \in {"erase", "copy", "check"} => meta \in Image /\ Size[meta] \in Nat /\ Size[meta] <= Room
  BY <1>0, Constants DEF IInv, TypeOK, Copying
<1>4. CASE EraseSector \/ EraseDone \/ CopyPage \/ ReadMetadata \/ VerifyOk
  <2>1. pc' \in {"verify", "erase", "copy"}
    <3>1. CASE EraseSector
      <4>1. pc = "erase" /\ pos < Size[meta] /\ pos \in Nat /\ Room \in Nat
        BY <3>1, Constants DEF EraseSector, IInv, TypeOK
      <4>2. ~(pos >= Room)
        BY <1>3, <4>1
      <4> QED  BY <1>0, <3>1, <4>1, <4>2 DEF EraseSector
    <3>2. CASE CopyPage
      <4>1. pc = "copy" /\ pos < Size[meta] /\ pos \in Nat /\ Room \in Nat
        BY <3>2, Constants DEF CopyPage, IInv, TypeOK
      <4>2. ~(pos >= Room)
        BY <1>3, <4>1
      <4> QED  BY <1>0, <3>2, <4>1, <4>2 DEF CopyPage
    <3>3. CASE EraseDone \/ ReadMetadata \/ VerifyOk
      BY <3>3 DEF EraseDone, ReadMetadata, VerifyOk
    <3> QED  BY <1>4, <3>1, <3>2, <3>3
  <2> QED  BY <2>1
<1>5. CASE CopyDone
  <2>1. pc = "copy" /\ pc' = "check" /\ UNCHANGED <<pos, app, meta>> /\ pos >= Size[meta]
    BY <1>5 DEF CopyDone, flash
  <2>2. \A n \in 0..(Size[meta] - 1) : n \in AppPage /\ n < pos
    BY <1>3, <2>1, Constants DEF IInv, TypeOK, AppPage
  <2>3. Holds(meta)
    BY <1>3, <2>1, <2>2 DEF Holds, IInv, Copying
  <2>4. CopyIsGood'
    BY <2>1, <2>3 DEF CopyIsGood, Holds
  <2> QED  BY <2>1, <2>4
<1>6. CASE CheckOk \/ CheckFails
  <2>1. pc = "check" /\ app' = app /\ pc' # "check"
    BY <1>6, JumpType DEF CheckOk, CheckFails, Jump, flash
  <2>2. Whole
    BY <1>3, <2>1 DEF CopyIsGood, Whole
  <2> QED  BY <1>2, <2>1, <2>2
<1>7. CASE NothingPending \/ BadSize \/ VerifyFails
  <2>1. app' = app /\ pc' # "check"
    BY <1>7, JumpType DEF NothingPending, BadSize, VerifyFails, Jump, flash
  <2>2. ~Installable
    <3>1. meta # NoMeta => Size[meta] \in Nat
      BY Constants DEF IInv, TypeOK
    <3> QED  BY <1>0, <1>7, <3>1, Constants DEF NothingPending, BadSize, VerifyFails,
                TooLarge, Installable
  <2> QED  BY <1>2, <2>1, <2>2 DEF RetryRemains
<1>8. CASE QspiInit \/ (\E v \in Image : AppStores(v)) \/ AppResets \/ PowerCut
  <2>1. pc' \in {"init", "metadata"}
    BY <1>0, <1>8 DEF QspiInit, AppStores, AppResets, PowerCut
  <2> QED  BY <2>1
<1>9. CASE AppDiscards \/ Decay
  <2>1. pc = "app" /\ pc' = "app" /\ app' = app
    BY <1>9 DEF AppDiscards, Decay
  <2> QED  BY <1>2, <2>1
<1> QED
  BY <1>4, <1>5, <1>6, <1>7, <1>8, <1>9 DEF Next, Boot

\* Wherever the power is cut, and whatever becomes of the stored image later,
\* only a complete application is started, as long as no access to a flash has
\* failed and no image was accepted that does not fit: the accepted size may be
\* larger than the flash, as it is in bootloader.h.
THEOREM WholeImages == Spec => []RunsOnlyWholeImages
<1> DEFINE Kept == faults = {} => Sound
<1>1. Init => Kept
  BY InitWhole DEF RetryRemains, Sound, Init
<1>2. IInv /\ Kept /\ [Next]_vars => Kept'
  <2> SUFFICES ASSUME IInv, Kept, [Next]_vars, faults' = {}
               PROVE  Sound'
    OBVIOUS
  <2>1. faults = {} /\ Sound
    BY FaultsGrow DEF IInv
  <2>2. CASE Next
    <3>1. Decay => Whole
      BY <2>1 DEF Decay, Sound
    <3>2. RetryRemains'
      BY <2>1, <2>2, <3>1, RetryRemainsStep DEF Sound
    <3>3. (pc = "app" => Whole)' /\ (pc = "check" => CopyIsGood)'
      BY <2>1, <2>2, SoundStep
    <3> QED  BY <3>2, <3>3 DEF Sound
  <2>3. CASE UNCHANGED vars
    BY <2>1, <2>3 DEF vars, flash, RetryRemains, Sound, Installable, Whole, Holds, CopyIsGood
  <2> QED  BY <2>2, <2>3
<1>3. Kept => RunsOnlyWholeImages
  BY DEF Sound, RunsOnlyWholeImages
<1> HIDE DEF Kept
<1> QED  BY <1>1, <1>2, <1>3, Invariance, PTL DEF Spec

\* The metadata of a good image are given up only once the image is in place, or
\* when it is too large or was misread, also when the power is cut while they
\* are being erased.
THEOREM MetadataKept == Spec => MetadataUntilDone
<1>1. IInv /\ [Next]_vars =>
        [pc # "app" /\ meta' # meta =>
           Holds(meta) \/ ~intact \/ TooLarge \/ "verdict" \in faults']_vars
  <2> SUFFICES ASSUME IInv, Next, pc # "app", meta' # meta, "verdict" \notin faults'
               PROVE  Holds(meta) \/ ~intact \/ TooLarge
    OBVIOUS
  <2>1. BadSize \/ VerifyFails \/ CheckOk \/ PowerCut
    BY DEF Next, Boot, QspiInit, NothingPending, ReadMetadata, VerifyOk, EraseSector,
       EraseDone, CopyPage, CopyDone, CheckFails, AppStores, AppDiscards, AppResets,
       Decay, flash
  <2>2. ~Fault("verdict")
    BY FaultType, KnownFaults DEF IInv, TypeOK
  <2> QED  BY <2>1, <2>2 DEF BadSize, VerifyFails, CheckOk, PowerCut, Clearing, CopyIsGood
<1> QED  BY <1>1, Invariance, PTL DEF Spec, MetadataUntilDone
=============================================================================
