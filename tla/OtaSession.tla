----------------------------- MODULE OtaSession ----------------------------
(***************************************************************************)
(* OTA sessions end to end: OtaWriter on the satellite, and on the ground  *)
(* the stop-and-wait sender that ttc.c is written for (it sends packet n   *)
(* again until the ACK of n, then packet n + 1, then the END packet), with *)
(* a link between them that loses and spoils frames.                       *)
(***************************************************************************)
EXTENDS OtaWriter

CONSTANTS
  MaxCommands,      \* bound: commands the ground sends
  MaxNoise          \* bound: packets spoilt by the link, or taken for commands

ASSUME SessionAssumption ==
  /\ MaxCommands \in Nat
  /\ MaxNoise \in Nat

VARIABLES
  gstate,           \* ground: "off", "starting", "sending" or "ending"
  gseq,             \* next packet to be acknowledged
  gimage,           \* image being sent
  commands, noise   \* counters for the bounds

ground == <<gstate, gseq, gimage>>
bounds == <<commands, noise>>
vars   == <<obcvars, ground, bounds>>

GroundTypeOK ==
  /\ gstate \in {"off", "starting", "sending", "ending"}
  /\ gseq \in 0..ImagePages
  /\ gimage \in Image
  /\ commands \in 0..MaxCommands
  /\ noise \in 0..MaxNoise

TypeOK == ObcTypeOK /\ GroundTypeOK

Init ==
  /\ ObcInit
  /\ gstate = "off" /\ gseq = 0 /\ gimage \in Image
  /\ commands = 0 /\ noise = 0

----------------------------------------------------------------------------
(* The ground.                                                             *)

\* A session begins, whatever became of the one before.
GroundStart(v) ==
  /\ up = None
  /\ commands < MaxCommands
  /\ commands' = commands + 1
  /\ up' = [kind |-> "START"]
  /\ gstate' = "starting" /\ gseq' = 0 /\ gimage' = v
  /\ UNCHANGED <<down, noise>>

GroundEndOta ==
  /\ up = None
  /\ commands < MaxCommands
  /\ commands' = commands + 1
  /\ up' = [kind |-> "END_OTA"]
  /\ gstate' = "off"
  /\ UNCHANGED <<down, gseq, gimage, noise>>

\* The packet that is due is sent, for the first time or again.
GroundSend ==
  /\ up = None
  /\ \/ /\ gstate = "sending"
        /\ up' = [kind |-> "PKT", seq |-> gseq, len |-> 1,
                  data |-> <<gimage, gseq>>]
     \/ /\ gstate = "ending"
        /\ up' = [kind |-> "PKT", seq |-> END, len |-> 1,
                  data |-> <<gimage, END>>]
  /\ UNCHANGED <<down, ground, bounds>>

\* READY starts the transfer; an ACK counts when it is of the packet due.
GroundHear ==
  /\ down # None
  /\ down' = None
  /\ \/ /\ gstate = "starting" /\ down.kind = "READY"
        /\ gstate' = "sending"
        /\ UNCHANGED <<gseq, gimage>>
     \/ /\ gstate = "sending" /\ down.kind = "ACK" /\ down.seq = gseq
        /\ gseq' = gseq + 1
        /\ gstate' = IF gseq' = ImagePages THEN "ending" ELSE "sending"
        /\ UNCHANGED gimage
     \/ /\ gstate = "ending" /\ down.kind = "ACK" /\ down.seq = END
        /\ gstate' = "off"
        /\ UNCHANGED <<gseq, gimage>>
     \/ UNCHANGED ground
  /\ UNCHANGED <<up, bounds>>

GroundGivesUp ==
  /\ gstate # "off"
  /\ gstate' = "off"
  /\ UNCHANGED <<link, gseq, gimage, bounds>>

----------------------------------------------------------------------------
(* The link.                                                               *)

LoseUp   == up # None /\ up' = None /\ UNCHANGED <<down, ground, bounds>>
LoseDown == down # None /\ down' = None /\ UNCHANGED <<up, ground, bounds>>

Noisy == noise < MaxNoise /\ noise' = noise + 1

\* Only the sync word of a packet is checked: the rest arrives as it is.
Spoil ==
  /\ up \in Packet
  /\ Noisy
  /\ \/ \E n \in Seq \cup {END} : up' = [up EXCEPT !.seq = n]
     \/ up' = [up EXCEPT !.len = 0]
     \/ up' = [up EXCEPT !.data = Junk]
  /\ UNCHANGED <<down, ground, commands>>

Onboard == UNCHANGED <<fsm, ttc, memory, control, s_wait_start, restarts, late>>
Quiet   == UNCHANGED <<ground, bounds>>

Next ==
  \/ ReceiveCommand /\ Quiet
  \/ SwallowCommand /\ Quiet
  \/ StrayIgnored /\ Quiet
  \/ StrayObeyed /\ Noisy /\ UNCHANGED <<ground, commands>>
  \/ ReceiveData /\ Quiet
  \/ ReceiveEnd /\ Quiet
  \/ MemTick /\ Quiet
  \/ ChipFinish /\ Quiet
  \/ Crash /\ Quiet
  \/ Bootloader /\ Quiet
  \/ Clock /\ Quiet
  \/ CommunicationMode /\ Quiet
  \/ OtaIdle /\ Quiet
  \/ OtaWaitEraseFirst /\ Quiet
  \/ OtaWaitEraseReady /\ Quiet
  \/ OtaWaitPktNone /\ Quiet
  \/ OtaWaitPktEnd /\ Quiet
  \/ OtaWaitPktEmpty /\ Quiet
  \/ OtaWaitPktErase /\ Quiet
  \/ OtaWaitPktWrite /\ Quiet
  \/ OtaNeedErase /\ Quiet
  \/ OtaWritePkt /\ Quiet
  \/ OtaWaitWrite /\ Quiet
  \/ OtaWaitEraseMeta /\ Quiet
  \/ OtaWriteMeta /\ Quiet
  \/ OtaWaitMeta /\ Quiet
  \/ OtaMemoryError /\ Quiet
  \/ OtaError /\ Quiet
  \/ OtaReset /\ Quiet
  \/ OtaWaits /\ Quiet
  \/ \E v \in Image : GroundStart(v) /\ Onboard
  \/ GroundEndOta /\ Onboard
  \/ GroundSend /\ Onboard
  \/ GroundHear /\ Onboard
  \/ GroundGivesUp /\ Onboard
  \/ LoseUp /\ Onboard
  \/ LoseDown /\ Onboard
  \/ Spoil /\ Onboard

Spec == Init /\ [][Next]_vars

\* The super-loop keeps turning, the memory answers (RequestAnswered of
\* ExtMemory), the chip finishes and time passes.  Nothing is assumed of the
\* ground, nor of the link.
Fairness ==
  /\ WF_vars(Handler /\ Quiet)
  /\ WF_vars(MemTick /\ Quiet)
  /\ WF_vars(ChipFinish /\ Quiet)
  /\ WF_vars(Clock /\ Quiet)
  /\ WF_vars(Bootloader /\ Quiet)

FairSpec == Spec /\ Fairness

----------------------------------------------------------------------------
(* Safety.                                                                 *)

\* Metadata that tell the bootloader to install an image are on the flash
\* only together with all of that image, whatever was lost, spoilt or
\* repeated, whenever the processor restarted, whatever the memory did and
\* even if the chip remained protected.  The exception is a session begun on
\* a chip that was still at work when the wait for it ran out: the erase of
\* the metadata may then be ignored and the image erased under them (the CRC
\* that the bootloader computes is all that stands in the way).
PendingImageIsWhole ==
  \A v \in Image : cells[META] = <<v, END>> =>
    late \/ \A n \in 0..(ImagePages - 1) : cells[Fw(n)] = <<v, n>>

\* The driver holds a pointer to the buffer of a write: until the data have
\* gone to the chip, nothing may touch it, not even a new session.
BufferStable ==
  [][stage = "queued" /\ stage' = "queued" /\ req.op = "write" =>
       Buffer' = Buffer]_vars

\* The states in which a session receives an image and stores it.
Session ==
  {"WAIT_PKT", "NEED_ERASE", "WRITE_PKT", "WAIT_WRITE", "WAIT_ERASE_META",
   "WRITE_META", "WAIT_META", "RESET"}

\* Page n of the image is on the flash, staged or being written.
Kept(n) ==
  \/ cells[Fw(n)] = <<gimage, n>>
  \/ s_ota_pkt_ready /\ s_ota_pkt.seq = n /\ s_ota_pkt.data = <<gimage, n>>
  \/ /\ s_state \in {"WRITE_PKT", "WAIT_WRITE"}
     /\ s_pending_seq = n /\ s_write_buf = <<gimage, n>>

\* The END packet has come.  It is staged over whatever was staged, so that
\* the last page may be lost although it was acknowledged.
Overwritten(n) == ~ota_data_started /\ n = ImagePages - 1

\* An ACK is a promise (ttc.h:55, "only if the packet was indeed copied"):
\* until its session ends or fails, and unless the chip is protected, a page
\* that was acknowledged is kept, but for the one that END overwrites.
AcknowledgedPagesAreKept ==
  s_state \in Session /\ ~wp =>
    \A n \in 0..(gseq - 1) : Kept(n) \/ Overwritten(n)

----------------------------------------------------------------------------
(* Liveness.                                                               *)

\* The chip is still protected: it ignores the erase that the session waits
\* for, reports no error, and the session waits for ever.
EraseHangs == s_state = "WAIT_ERASE" /\ wp

\* A session that hears nothing more of the ground comes to an end, unless it
\* hangs in its erase.
SilenceEndsSession ==
  <>[][~Receive]_vars => (OTA_REQUESTED ~> (~OTA_REQUESTED \/ EraseHangs))

\* A session that was asked for begins, or is called off (ttc.h:74), unless
\* it hangs in its erase.
StartIsServed ==
  (OTA_REQUESTED /\ s_state = "IDLE") ~>
    (~OTA_REQUESTED \/ s_state = "WAIT_PKT" \/ EraseHangs)
=============================================================================
