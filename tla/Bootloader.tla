----------------------------- MODULE Bootloader -----------------------------
(***************************************************************************)
(* The bootloader of ota/bootloader: after each reset it looks for         *)
(* metadata with the PENDING magic on the external flash, checks the CRC   *)
(* of the image there, copies it over the application in the internal      *)
(* flash, checks the copy, erases the metadata and jumps.  The application *)
(* stores images (that is what OtaSession is about) and resets.            *)
(*                                                                         *)
(* Power can be cut between any two steps and in the middle of an erase or *)
(* a write, which leaves Torn pages behind.  Page n of image v is <<v, n>> *)
(* in either flash, so a CRC tells exactly whether an image is whole.      *)
(*                                                                         *)
(* Erases, writes and reads may fail at any time, and an image may be      *)
(* accepted that does not fit: faults notes which of these has happened,   *)
(* so that each property can say which of them it does not survive.        *)
(***************************************************************************)
EXTENDS Naturals

CONSTANTS
  Image,          \* firmware images
  Size,           \* Size[v]: the pages of image v
  Room,           \* pages from APP_START_ADDR to the end of the flash
  APP_MAX_SIZE,   \* the largest image the bootloader accepts, in pages
  PagesPerSector, \* internal pages that one EPA command erases
  MaxCuts,        \* bound: power cuts
  MaxDecays,      \* bound: pages of the external flash that go bad
  Blank, Torn, NoMeta

ASSUME BootAssumption ==
  /\ Image # {}
  /\ Size \in [Image -> Nat \ {0}]
  /\ Room \in Nat \ {0} /\ APP_MAX_SIZE \in Nat
  /\ PagesPerSector \in Nat \ {0}
  /\ MaxCuts \in Nat /\ MaxDecays \in Nat
  /\ NoMeta \notin Image
  /\ Blank # Torn
  /\ Blank \notin Image \X Nat /\ Torn \notin Image \X Nat

VARIABLES
  pc,          \* where bootloader_run stands, or "app", or "hung"
  pos,         \* the page that is erased (the first of a sector) or written
  app,         \* the internal flash, from APP_START_ADDR
  meta,        \* image that PENDING metadata describe, or NoMeta
  intact,      \* the stored image is what the metadata describe
  faults,      \* history: what has failed so far
  cuts, decays

flash == <<app, meta, intact>>
vars  == <<pc, pos, flash, faults, cuts, decays>>

AppPage == 0..(Room - 1)
Content == (Image \X Nat) \cup {Blank, Torn}

Faults ==
  {"efc",      \* an erase or a write of the internal flash
   "read",     \* a read of the external flash that leads to no verdict
   "verdict",  \* a read that makes a good image look bad
   "size"}     \* none: an accepted image does not fit the internal flash

Steps == {"init", "metadata", "verify", "erase", "copy", "check"}

TypeOK ==
  /\ pc \in Steps \cup {"app", "hung"}
  /\ pos \in Nat /\ (pc = "copy" => pos <= Room)
  /\ app \in [AppPage -> Content]
  /\ meta \in Image \cup {NoMeta}
  /\ intact \in BOOLEAN
  /\ faults \subseteq Faults
  /\ cuts \in Nat /\ decays \in Nat

\* An image is in place, whole: boot_compute_internal_crc gives its CRC.
Holds(v) ==
  /\ Size[v] <= Room
  /\ \A n \in 0..(Size[v] - 1) : app[n] = <<v, n>>

Whole == \E v \in Image : Holds(v)

\* An image is stored that the bootloader will accept and that fits.
Installable ==
  meta # NoMeta /\ intact /\ Size[meta] <= APP_MAX_SIZE /\ Size[meta] <= Room

\* Some application is installed, and no update is pending.
Init ==
  /\ pc = "init" /\ pos = 0
  /\ \E v \in Image :
       /\ Size[v] <= Room
       /\ app = [n \in AppPage |-> IF n < Size[v] THEN <<v, n>> ELSE Blank]
  /\ meta = NoMeta /\ intact = FALSE
  /\ faults = {}
  /\ cuts = 0 /\ decays = 0

----------------------------------------------------------------------------
(* bootloader_run, step by step.                                           *)

\* app_is_valid looks at the reset vector only: it is neither 0 nor blank.
AppIsValid ==
  \/ app[0] \notin {Blank, Torn} /\ pc' = "app"
  \/ app[0] = Blank              /\ pc' = "hung"
  \/ app[0] = Torn               /\ pc' \in {"app", "hung"}

\* bootloader_jump_to_app; without a valid application it loops for ever.
Jump == AppIsValid

Fault(f) == faults' = faults \cup {f}

\* clear_ota_metadata: three attempts, and no word of it when all fail.
ClearMetadata == meta' \in {meta, NoMeta}

QspiInit ==
  /\ pc = "init"
  /\ \/ pc' = "metadata" /\ UNCHANGED faults
     \/ Jump /\ Fault("read")
  /\ UNCHANGED <<pos, flash, cuts, decays>>

\* That a read of the metadata fails is not noticed (the result is ignored).
\* It may find no PENDING magic, as here, or a wrong size or CRC with it.
NothingPending ==
  /\ pc = "metadata"
  /\ Jump
  /\ IF meta = NoMeta THEN UNCHANGED faults ELSE Fault("read")
  /\ UNCHANGED <<pos, flash, cuts, decays>>

TooLarge == Size[meta] > APP_MAX_SIZE

\* The size is bad, or was read so.
BadSize ==
  /\ pc = "metadata"
  /\ meta # NoMeta
  /\ \/ TooLarge /\ UNCHANGED faults
     \/ ~TooLarge /\ Fault("verdict")
  /\ ClearMetadata
  /\ Jump
  /\ UNCHANGED <<pos, app, intact, cuts, decays>>

ReadMetadata ==
  /\ pc = "metadata"
  /\ meta # NoMeta
  /\ ~TooLarge
  /\ pc' = "verify"
  /\ IF Size[meta] > Room THEN Fault("size") ELSE UNCHANGED faults
  /\ UNCHANGED <<pos, flash, cuts, decays>>

\* A variant that takes the image on trust.
VerifyNothing ==
  /\ pc = "verify"
  /\ pc' = "erase" /\ pos' = 0
  /\ UNCHANGED <<flash, faults, cuts, decays>>

\* boot_verify_external: the CRC of the stored image is right.
VerifyOk ==
  /\ pc = "verify"
  /\ intact
  /\ pc' = "erase" /\ pos' = 0
  /\ UNCHANGED <<flash, faults, cuts, decays>>

\* The CRC is wrong.  A read that fails counts as that, and so does a size or
\* a CRC that was read wrong from the metadata.
VerifyFails ==
  /\ pc = "verify"
  /\ IF intact THEN Fault("verdict") ELSE UNCHANGED faults
  /\ ClearMetadata
  /\ Jump
  /\ UNCHANGED <<pos, app, intact, cuts, decays>>

\* The sector of the internal flash that begins at page pos.
Sector == {n \in AppPage : pos <= n /\ n < pos + PagesPerSector}

With(pages, c) == [n \in AppPage |-> IF n \in pages THEN c ELSE app[n]]

\* boot_copy_firmware first erases all the sectors the image needs.  Past
\* the end of the flash there is nothing to erase.
EraseSector ==
  /\ pc = "erase"
  /\ pos < Size[meta]
  /\ \/ /\ pos < Room
        /\ app' = With(Sector, Blank)
        /\ pos' = pos + PagesPerSector
        /\ UNCHANGED <<pc, faults>>
     \/ /\ IF pos >= Room THEN UNCHANGED faults ELSE Fault("efc")
        /\ app' \in {app, With(Sector, Torn)}
        /\ pc' = "check"
        /\ UNCHANGED pos
  /\ UNCHANGED <<meta, intact, cuts, decays>>

\* A variant that goes on from where the erase has ended.
EraseDoneKeepingPos ==
  /\ pc = "erase"
  /\ pos >= Size[meta]
  /\ pc' = "copy"
  /\ UNCHANGED <<pos, flash, faults, cuts, decays>>

EraseDone ==
  /\ pc = "erase"
  /\ pos >= Size[meta]
  /\ pc' = "copy" /\ pos' = 0
  /\ UNCHANGED <<flash, faults, cuts, decays>>

\* A variant that copies one page too many.
CopyPageAndOne ==
  /\ pc = "copy"
  /\ pos <= Size[meta]
  /\ app' = With({pos}, <<meta, pos>>)
  /\ pos' = pos + 1
  /\ UNCHANGED <<pc, meta, intact, faults, cuts, decays>>

\* Then it writes page after page, and reads each one back.
CopyPage ==
  /\ pc = "copy"
  /\ pos < Size[meta]
  /\ \/ /\ pos < Room
        /\ app' = With({pos}, <<meta, pos>>)
        /\ pos' = pos + 1
        /\ UNCHANGED <<pc, faults>>
     \/ /\ Fault("efc")
        /\ app' = With({pos}, Torn)
        /\ pc' = "check"
        /\ UNCHANGED pos
     \/ /\ Fault("read")
        /\ pc' = "check"
        /\ UNCHANGED <<pos, app>>
  /\ UNCHANGED <<meta, intact, cuts, decays>>

\* A variant that leaves the last page out.
CopyDoneEarly ==
  /\ pc = "copy"
  /\ pos >= Size[meta] - 1
  /\ pc' = "check"
  /\ UNCHANGED <<pos, flash, faults, cuts, decays>>

CopyDone ==
  /\ pc = "copy"
  /\ pos >= Size[meta]
  /\ pc' = "check"
  /\ UNCHANGED <<pos, flash, faults, cuts, decays>>

\* boot_copy_firmware reached the end, and the CRC of the copy is right.
CopyIsGood == pos >= Size[meta] /\ Holds(meta)

CheckOk ==
  /\ pc = "check"
  /\ CopyIsGood
  /\ ClearMetadata
  /\ Jump
  /\ UNCHANGED <<pos, app, intact, faults, cuts, decays>>

\* A variant that gives the image up.
CheckFailsClearing ==
  /\ pc = "check"
  /\ ~CopyIsGood
  /\ ClearMetadata
  /\ Jump
  /\ UNCHANGED <<pos, app, intact, faults, cuts, decays>>

\* The metadata stay for another try; what is in the flash is started.
CheckFails ==
  /\ pc = "check"
  /\ ~CopyIsGood
  /\ Jump
  /\ UNCHANGED <<pos, flash, faults, cuts, decays>>

Boot == QspiInit \/ NothingPending \/ BadSize \/ ReadMetadata \/ VerifyOk
        \/ VerifyFails \/ EraseSector \/ EraseDone \/ CopyPage \/ CopyDone
        \/ CheckOk \/ CheckFails

----------------------------------------------------------------------------
(* The application, and the power supply.  What half an image does nobody  *)
(* knows: here it can only be reset.                                       *)

\* An OTA session ends: a whole image and its metadata are stored, and the
\* application resets.
AppStores(v) ==
  /\ pc = "app" /\ Whole
  /\ meta' = v /\ intact' = TRUE
  /\ pc' = "init"
  /\ UNCHANGED <<pos, app, faults, cuts, decays>>

\* An OTA session begins: the metadata of the last one are erased.
AppDiscards ==
  /\ pc = "app" /\ Whole
  /\ meta' = NoMeta /\ intact' = FALSE
  /\ UNCHANGED <<pc, pos, app, faults, cuts, decays>>

AppResets ==
  /\ pc = "app"
  /\ pc' = "init"
  /\ UNCHANGED <<pos, flash, faults, cuts, decays>>

\* The stored image goes bad, which takes longer than a start does: it
\* happens while the application runs.
Decay ==
  /\ pc = "app"
  /\ decays < MaxDecays
  /\ decays' = decays + 1
  /\ intact' = FALSE
  /\ UNCHANGED <<pc, pos, app, meta, faults, cuts>>

\* clear_ota_metadata is at work.
Clearing ==
  \/ pc = "metadata" /\ meta # NoMeta /\ TooLarge
  \/ pc = "verify" /\ ~intact
  \/ pc = "check" /\ CopyIsGood

\* ... because of what it has read wrong.
Misjudging == pc \in {"metadata", "verify"} /\ meta # NoMeta

\* A page or a sector that is being erased or written is left torn; metadata
\* that are half erased describe no stored image.
PowerCut ==
  /\ cuts < MaxCuts
  /\ cuts' = cuts + 1
  /\ app' \in {app} \cup (IF pc = "erase" THEN {With(Sector, Torn)}
                          ELSE IF pc = "copy" THEN {With({pos}, Torn)} ELSE {})
  /\ \/ UNCHANGED <<meta, intact, faults>>
     \/ Clearing /\ ClearMetadata /\ intact' = FALSE /\ UNCHANGED faults
     \/ Misjudging /\ ClearMetadata /\ intact' = FALSE /\ Fault("verdict")
  /\ pc' = "init" /\ pos' = 0
  /\ UNCHANGED decays

Next ==
  \/ Boot
  \/ \E v \in Image : AppStores(v)
  \/ AppDiscards \/ AppResets \/ Decay \/ PowerCut

Spec == Init /\ [][Next]_vars

\* The bootloader runs on; nothing else does anything by itself.
FairSpec == Spec /\ WF_vars(Boot)

----------------------------------------------------------------------------
(* Properties.                                                             *)

\* Only a complete application is ever started, wherever the power was cut, as
\* long as no access to a flash has failed and no image was accepted that does
\* not fit (bootloader.c:283 starts "app antiga" also when it is half erased).
RunsOnlyWholeImages == pc = "app" /\ faults = {} => Whole

\* There is something to start from: a whole application in the internal flash,
\* or a stored image, with its metadata, for the next start to install.  So
\* ota_protocol.md:259 has it of a write that fails, and bootloader.c:15 of
\* every error but a CRC error: the metadata stay, for a retry.
RetryRemains == Whole \/ Installable

\* Only three things can leave nothing to start from: a read that fails while
\* the stored image is judged (bootloader.c:229-231, and the unchecked read of
\* bootloader.c:107), an accepted image that does not fit, and a stored image
\* that goes bad.  Other failed reads, erases and writes and cuts of the
\* power, in any number and order, cannot.
Recoverable ==
  decays = 0 /\ faults \cap {"verdict", "size"} = {} => RetryRemains

\* The metadata go only when there is nothing left to do for them: the image
\* has been copied whole, or is no good, or was misread.
MetadataUntilDone ==
  [][pc # "app" /\ meta' # meta =>
       Holds(meta) \/ ~intact \/ TooLarge \/ "verdict" \in faults']_vars

\* The application is overwritten only from a stored image that is whole.
SourceIsWhole ==
  [][app' # app => meta # NoMeta /\ intact]_vars

\* An image that was stored whole, and that the bootloader accepts, ends up
\* running, unless an access fails or the image does not fit.
UpdateIsApplied ==
  \A v \in Image :
    pc = "init" /\ meta = v /\ intact /\ Size[v] <= APP_MAX_SIZE
      ~> (pc = "app" /\ Holds(v)) \/ faults # {}
=============================================================================
