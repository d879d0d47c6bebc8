------------------------- MODULE OtaSession_proofs --------------------------
(***************************************************************************)
(* Proofs about OTA sessions, for any images, sizes and sectors, any       *)
(* number of commands and restarts, any noise and any memory errors: the   *)
(* types, that an image is pending only when it is whole, and that a       *)
(* buffer stays as it is until its bytes have gone to the chip.  Last, for *)
(* one image and a link that loses frames but spoils none: that a page     *)
(* which was acknowledged is kept.                                         *)
(*                                                                         *)
(* The metadata are erased before the image is touched and written after   *)
(* it has been checked.  What could go wrong lies between: a request that  *)
(* outlives its session, an erase that the chip ignores, an operation that *)
(* goes on in the chip while the processor restarts.                       *)
(***************************************************************************)
EXTENDS OtaSession, TLAPS

\* The image that the contents c name as pending, if any, is whole.
Good(c) ==
  \A v \in Image : c[META] = <<v, END>> =>
    \A n \in 0..(ImagePages - 1) : c[Fw(n)] = <<v, n>>

NotPending(c) == \A v \in Image : c[META] # <<v, END>>

\* The firmware may be overwritten: nothing is pending, or the chip is
\* protected, and then nothing is overwritten either.
Clear ==
  wp \/ (NotPending(cells) /\ (running # NoReq => NotPending(running)))

\* The states in which a session overwrites the firmware.
Overwrites ==
  {"WAIT_ERASE", "WAIT_PKT", "NEED_ERASE", "WRITE_PKT", "WAIT_WRITE"}

MetaErase == [op |-> "erase", at |-> META]

\* Client and driver agree; the chip may be at work when a session begins.
Sync ==
  /\ mode = "boot" => s_state = "IDLE" /\ stage = "none"
  /\ stage # "none" => status = "busy"
  /\ s_state \in {"WAIT_PKT", "WRITE_PKT", "WRITE_META"} => status = "idle"
  /\ s_state \notin {"IDLE", "ERROR"} /\ status = "idle" => running = NoReq

\* Unless a session began on a chip at work, so does the chip.
InStep == Sync /\ (stage = "queued" => running = NoReq /\ (able \/ wp))

\* A request may outlive the session that made it.
Requested ==
  /\ stage = "queued" /\ req.at # META => Clear
  /\ stage = "queued" /\ req.at = META /\ req.op # "erase" =>
       ImageOnFlash(s_meta) /\ s_state \notin Overwrites

Begun ==
  /\ s_state \in Overwrites /\ status # "error" =>
       Clear \/ (stage = "queued" /\ req = MetaErase)
  /\ s_state = "WRITE_META" => ImageOnFlash(s_meta)

Whole == Good(cells) /\ (running # NoReq => Good(running))

IInv == InStep /\ Requested /\ Begun /\ Whole

----------------------------------------------------------------------------
(* Types.                                                                  *)

\* What the types depend on besides themselves.
Numbered == s_state \in {"NEED_ERASE", "WRITE_PKT"} => s_pending_seq \in Seq

Counted ==
  /\ gstate = "starting" => gseq = 0
  /\ gstate = "sending" => gseq < ImagePages
  /\ gstate = "ending" => gseq = ImagePages

Types == TypeOK /\ Numbered /\ Counted

LEMMA Numbers ==
  /\ ImagePages \in Nat /\ ImagePages > 0 /\ MaxSeq \in Nat
  /\ ImagePages - 1 <= MaxSeq
  /\ PagesPerSector \in Nat /\ PagesPerSector > 0
  /\ WAIT_TIMEOUT \in Nat
  /\ MaxCommands \in Nat /\ MaxNoise \in Nat
BY OtaAssumption, SessionAssumption

LEMMA Pages ==
  /\ META \in Page /\ FW \in Page /\ FW > META
  /\ META \in Nat /\ FW \in Nat /\ FW + PagesPerSector \in Nat
  /\ \A n \in Seq : Fw(n) \in Page /\ Fw(n) # META
BY Numbers DEF META, FW, Fw, Page, Seq

LEMMA MemSame ==
  ASSUME MemoryTypeOK, UNCHANGED memory PROVE MemoryTypeOK'
BY DEF MemoryTypeOK, memory

LEMMA FsmSame == ASSUME FsmTypeOK, UNCHANGED fsm PROVE FsmTypeOK'
BY DEF FsmTypeOK, fsm

LEMMA TtcSame == ASSUME TtcTypeOK, UNCHANGED ttc PROVE TtcTypeOK'
BY DEF TtcTypeOK, ttc, staging

LEMMA LinkSame == ASSUME LinkTypeOK, UNCHANGED link PROVE LinkTypeOK'
BY DEF LinkTypeOK, link

LEMMA GroundSame ==
  ASSUME GroundTypeOK, Quiet PROVE GroundTypeOK'
BY DEF GroundTypeOK, Quiet, ground, bounds

LEMMA SubmitTypes ==
  ASSUME MemoryTypeOK, NEW op \in {"erase", "write"}, NEW p \in Page,
         Ask([op |-> op, at |-> p])
  PROVE  MemoryTypeOK'
<1>1. CASE status # "idle"
  BY <1>1, MemSame DEF Ask
<1>2. CASE status = "idle"
  <2>1. Flash!Submit([op |-> op, at |-> p])
    BY <1>2 DEF Ask
  <2>2. /\ status' = "busy" /\ stage' = "queued"
        /\ req' = [op |-> op, at |-> p]
        /\ able' = (running = NoReq /\ ~wp)
        /\ UNCHANGED <<running, cells, wp>>
    BY <2>1 DEF Flash!Submit
  <2>3. able' \in BOOLEAN
    BY <2>2
  <2>4. req' \in Flash!Requests
    BY <2>2 DEF Flash!Requests
  <2> QED
    BY <2>2, <2>3, <2>4 DEF MemoryTypeOK
<1> QED
  BY <1>1, <1>2

LEMMA ClearTypes ==
  ASSUME MemoryTypeOK, Flash!ClearThenSubmit(MetaErase) PROVE MemoryTypeOK'
<1>1. /\ status' = "busy" /\ stage' = "queued" /\ req' = MetaErase
      /\ cells' \in {cells, running} \ {NoReq}
      /\ running' \in {NoReq, running, cells}
  BY NothingAssumption DEF Flash!ClearThenSubmit, Flash!Cleared, MemoryTypeOK
<1>2. wp' \in BOOLEAN /\ able' \in BOOLEAN
  BY DEF Flash!ClearThenSubmit, Flash!Cleared, MemoryTypeOK
<1>3. req' \in Flash!Requests
  BY <1>1, Pages DEF Flash!Requests, MetaErase
<1>4. /\ cells' \in [Page -> Content]
      /\ running' \in [Page -> Content] \cup {NoReq}
  BY <1>1 DEF MemoryTypeOK
<1> QED
  BY <1>1, <1>2, <1>3, <1>4 DEF MemoryTypeOK

\* What the chip is left with by a request.
LEMMA ResultTypes ==
  ASSUME MemoryTypeOK, NEW d \in Data \cup {Blank}
  PROVE  /\ Flash!Result(cells, req, d) \in [Page -> Content]
         /\ Flash!InFlux(cells, req) \in [Page -> Content]
<1>1. \A p \in Page : cells[p] \in Content
  BY DEF MemoryTypeOK
<1>2. Torn \in Content /\ Blank \in Content /\ d \in Content
  BY DEF Content
<1>3. \A p \in Page : Flash!Programmed(cells[p], d) \in Content
  BY <1>2 DEF Flash!Programmed
<1> QED
  BY <1>1, <1>2, <1>3 DEF Flash!Result, Flash!InFlux

LEMMA BufferTypes == ASSUME FsmTypeOK PROVE Buffer \in Data \cup {Blank}
BY DEF FsmTypeOK, Buffer

LEMMA MemTickTypes ==
  ASSUME MemoryTypeOK, FsmTypeOK, MemTick PROVE MemoryTypeOK'
<1>1. CASE stage = "queued" /\ Flash!Issue(Buffer)
  <2>1. running' \in [Page -> Content] /\ cells' \in [Page -> Content]
    BY <1>1, ResultTypes, BufferTypes DEF Flash!Issue
  <2> QED
    BY <1>1, <2>1 DEF Flash!Issue, MemoryTypeOK
<1>2. CASE Flash!Ignored
  BY <1>2 DEF Flash!Ignored, MemoryTypeOK
<1>3. CASE Flash!Report
  BY <1>3 DEF Flash!Report, MemoryTypeOK
<1>4. CASE Flash!Fail
  BY <1>4 DEF Flash!Fail, MemoryTypeOK
<1> QED
  BY <1>1, <1>2, <1>3, <1>4 DEF MemTick

LEMMA RestartTypes ==
  ASSUME ObcTypeOK, RestartProcessor
  PROVE  FsmTypeOK' /\ TtcTypeOK' /\ MemoryTypeOK' /\ LinkTypeOK'
<1> USE DEF ObcTypeOK
<1>0. 0 \in Seq /\ META \in Page /\ META \in Nat
  BY Numbers, Pages DEF Seq, META
<1>1. FsmTypeOK'
  BY <1>0 DEF RestartProcessor, FsmTypeOK, SmStates
<1>2. NoPacket \in [seq : Seq \cup {END}, len : {0, 1}, data : Data \cup {Blank}]
  BY <1>0 DEF NoPacket
<1>3. TtcTypeOK'
  BY <1>2 DEF RestartProcessor, TtcTypeOK
<1>4. MemoryTypeOK'
  BY DEF RestartProcessor, Flash!Restart, MemoryTypeOK
<1>5. LinkTypeOK'
  BY LinkSame DEF RestartProcessor
<1> QED
  BY <1>1, <1>3, <1>4, <1>5

LEMMA WaitStartTypes ==
  ASSUME ControlTypeOK
  PROVE  WaitStart \in 0..WAIT_TIMEOUT
BY Numbers DEF ControlTypeOK, WaitStart

LEMMA NextSector ==
  ASSUME FsmTypeOK, TtcTypeOK, s_ota_pkt.seq # END, NeedsErase
  PROVE  s_next_fw_sector \in Page /\ s_next_fw_sector + PagesPerSector \in Nat
BY Numbers DEF FsmTypeOK, TtcTypeOK, NeedsErase, Page, Fw, FW, Seq

LEMMA HandlerTypes ==
  ASSUME ObcTypeOK, Numbered, Handler PROVE ObcTypeOK' /\ Numbered'
<1> USE MemSame, FsmSame, TtcSame, LinkSame, Numbers
    DEF ObcTypeOK, FsmTypeOK, TtcTypeOK, LinkTypeOK, ControlTypeOK, SmStates,
        Numbered, fsm, staging, link, control
<1>1. CASE OtaIdle
  <2>1. Flash!ClearThenSubmit(MetaErase) /\ BeginSession(META)
    BY <1>1 DEF OtaIdle, MetaErase
  <2>2. MemoryTypeOK'
    BY <2>1, ClearTypes
  <2>3. FsmTypeOK'
    BY <2>1, Pages DEF BeginSession, In, Goto, GetMode
  <2>4. late' = (late \/ running' # NoReq)
    BY <1>1 DEF OtaIdle
  <2>5. late' \in BOOLEAN
    BY <2>4, Zenon
  <2>6. ControlTypeOK'
    BY <2>1, <2>5 DEF BeginSession, In, Goto, GetMode
  <2> QED
    BY <2>1, <2>2, <2>3, <2>6 DEF BeginSession, Goto
<1>2. CASE OtaWaitEraseFirst
  BY <1>2, SubmitTypes, Pages DEF OtaWaitEraseFirst, In, GetMode, Erase
<1>3. CASE OtaWaitEraseReady
  <2>1. [kind |-> "READY"] \in Reply
    BY DEF Reply
  <2>2. LinkTypeOK'
    BY <1>3, <2>1 DEF OtaWaitEraseReady, Send
  <2> QED
    BY <1>3, <2>2 DEF OtaWaitEraseReady, In, Goto, GetMode
<1>4. CASE OtaWaitPktNone
  BY <1>4, WaitStartTypes DEF OtaWaitPktNone, In, Goto, GetMode
<1>5. CASE OtaWaitPktEnd
  BY <1>5, SubmitTypes, Pages DEF OtaWaitPktEnd, TakePacket, In, Goto, GetMode, Erase
<1>6. CASE OtaWaitPktEmpty
  BY <1>6 DEF OtaWaitPktEmpty, TakePacket, In, GetMode
<1>7. CASE OtaWaitPktErase
  BY <1>7, SubmitTypes, NextSector DEF OtaWaitPktErase, TakePacket, In, Goto, GetMode, Erase
<1>8. CASE OtaWaitPktWrite
  BY <1>8 DEF OtaWaitPktWrite, TakePacket, In, Goto, GetMode
<1>9. CASE OtaNeedErase
  BY <1>9 DEF OtaNeedErase, In, Goto, GetMode
<1>10. CASE OtaWritePkt
  BY <1>10, SubmitTypes, Pages DEF OtaWritePkt, In, Goto, GetMode, Write
<1>11. CASE OtaWaitWrite
  BY <1>11 DEF OtaWaitWrite, In, Goto, GetMode
<1>12. CASE OtaWaitEraseMeta
  BY <1>12 DEF OtaWaitEraseMeta, In, Goto, GetMode
<1>13. CASE OtaWriteMeta
  BY <1>13, SubmitTypes, Pages DEF OtaWriteMeta, In, Goto, GetMode, Write
<1>14. CASE OtaWaitMeta
  BY <1>14 DEF OtaWaitMeta, In, Goto, GetMode
<1>15. CASE OtaMemoryError
  BY <1>15 DEF OtaMemoryError, In, Goto, GetMode
<1>16. CASE OtaError
  BY <1>16 DEF OtaError, In, Goto, Abort
<1>17. CASE OtaReset
  <2>1. RestartProcessor /\ UNCHANGED <<restarts, late>>
    BY <1>17 DEF OtaReset
  <2> QED
    BY <2>1, RestartTypes DEF RestartProcessor
<1>18. CASE OtaWaits
  BY <1>18 DEF OtaWaits, GetMode
<1>19. CASE CommunicationMode
  BY <1>19 DEF CommunicationMode, GetMode
<1> QED
  BY <1>1, <1>2, <1>3, <1>4, <1>5, <1>6, <1>7, <1>8, <1>9, <1>10, <1>11, <1>12, <1>13, <1>14, <1>15, <1>16, <1>17, <1>18, <1>19 DEF Handler, OtaMode

LEMMA ReceiveTypes ==
  ASSUME ObcTypeOK, Numbered, Receive PROVE ObcTypeOK' /\ Numbered'
<1> USE MemSame, Numbers
    DEF ObcTypeOK, LinkTypeOK, ControlTypeOK, Numbered, Arrives
<1>1. ASSUME Obey(up.kind) \/ (\E c \in {"START", "END_OTA"} : Obey(c)),
             UNCHANGED down, Arrives
      PROVE  ObcTypeOK' /\ Numbered'
  <2>1. StartOta \/ EndOta
    BY <1>1 DEF Obey
  <2>2. 0 \in Seq
    BY DEF Seq
  <2>3. FsmTypeOK'
    BY <2>1, FsmSame DEF StartOta, EndOta, FsmTypeOK, SmStates, fsm
  <2>4. TtcTypeOK'
    BY <2>1, <2>2 DEF StartOta, EndOta, Abort, TtcTypeOK, staging
  <2>5. OTA_REQUESTED' \in BOOLEAN
    BY <2>1 DEF StartOta, EndOta
  <2>6. Numbered'
    BY <2>1 DEF StartOta, EndOta, fsm
  <2> QED
    BY <1>1, <2>3, <2>4, <2>5, <2>6
<1>2. CASE ReceiveCommand
  BY <1>1, <1>2 DEF ReceiveCommand
<1>3. CASE StrayObeyed
  BY <1>1, <1>3 DEF StrayObeyed
<1>4. CASE SwallowCommand \/ StrayIgnored
  BY <1>4, FsmSame, TtcSame DEF SwallowCommand, StrayIgnored, fsm
<1>5. up \in Packet => Staged(up) \in [seq : Seq \cup {END}, len : {0, 1}, data : Data \cup {Blank}]
  BY DEF Packet, Staged, TtcTypeOK
<1>6. up \in Packet => [kind |-> "ACK", seq |-> up.seq] \in Reply
                       /\ [kind |-> "ACK", seq |-> END] \in Reply
  BY DEF Packet, Reply
<1>7. CASE ReceiveData
  <2>1. TtcTypeOK'
    BY <1>5, <1>7 DEF ReceiveData, TtcTypeOK, staging
  <2>2. LinkTypeOK'
    BY <1>6, <1>7 DEF ReceiveData, Send
  <2> QED
    BY <1>7, <2>1, <2>2, FsmSame DEF ReceiveData, fsm
<1>8. CASE ReceiveEnd
  <2>1. TtcTypeOK'
    BY <1>5, <1>8 DEF ReceiveEnd, TtcTypeOK
  <2>2. LinkTypeOK'
    BY <1>6, <1>8 DEF ReceiveEnd, Send
  <2> QED
    BY <1>8, <2>1, <2>2, FsmSame DEF ReceiveEnd, fsm
<1> QED
  BY <1>2, <1>3, <1>4, <1>7, <1>8 DEF Receive

LEMMA BackgroundTypes ==
  ASSUME ObcTypeOK, Numbered,
         MemTick \/ ChipFinish \/ Crash \/ Bootloader \/ Clock
  PROVE  ObcTypeOK' /\ Numbered'
<1> USE DEF ObcTypeOK, ControlTypeOK, Numbered
<1>1. CASE MemTick
  BY <1>1, MemTickTypes, FsmSame, TtcSame, LinkSame DEF MemTick, fsm, control
<1>2. CASE ChipFinish
  <2>1. MemoryTypeOK'
    BY <1>2 DEF ChipFinish, Flash!Finish, MemoryTypeOK
  <2> QED
    BY <1>2, <2>1, FsmSame, TtcSame, LinkSame DEF ChipFinish, fsm, control
<1>3. CASE Crash
  <2>1. FsmTypeOK' /\ TtcTypeOK' /\ MemoryTypeOK' /\ LinkTypeOK'
    BY <1>3, RestartTypes DEF Crash
  <2>2. restarts' \in Nat
    BY <1>3 DEF Crash
  <2> QED
    BY <1>3, <2>1, <2>2 DEF Crash, RestartProcessor
<1>4. CASE Bootloader
  <2>1. \A p \in Page : cells[p] \in Content
    BY DEF MemoryTypeOK
  <2>2. cells' \in [Page -> Content]
    BY <1>4, <2>1 DEF Bootloader, MemoryTypeOK, Content
  <2>3. MemoryTypeOK'
    BY <1>4, <2>2 DEF Bootloader, MemoryTypeOK
  <2> QED
    BY <1>4, <2>3, FsmSame, TtcSame, LinkSame DEF Bootloader, fsm
<1>5. CASE Clock
  <2>1. s_wait_start' \in (0..WAIT_TIMEOUT) \cup {Unset}
    BY <1>5, Numbers DEF Clock, Later
  <2> QED
    BY <1>5, <2>1, MemSame, FsmSame, TtcSame, LinkSame DEF Clock, fsm, control
<1> QED
  BY <1>1, <1>2, <1>3, <1>4, <1>5

LEMMA OnboardTypes ==
  ASSUME ObcTypeOK, Numbered, Onboard, LinkTypeOK'
  PROVE  ObcTypeOK' /\ Numbered'
BY MemSame, FsmSame, TtcSame
   DEF Onboard, ObcTypeOK, ControlTypeOK, Numbered, fsm, control

\* The ground and the link: what they leave alone, Onboard says.
Outside ==
  \/ \E v \in Image : GroundStart(v)
  \/ GroundEndOta \/ GroundSend \/ GroundHear \/ GroundGivesUp
  \/ LoseUp \/ LoseDown \/ Spoil

LEMMA OutsideTypes ==
  ASSUME TypeOK, Counted, Outside
  PROVE  LinkTypeOK' /\ GroundTypeOK' /\ Counted'
<1> USE Numbers DEF TypeOK, ObcTypeOK, LinkTypeOK, GroundTypeOK, Counted
<1>1. CASE \E v \in Image : GroundStart(v)
  BY <1>1 DEF GroundStart, Command
<1>2. CASE GroundEndOta
  BY <1>2 DEF GroundEndOta, Command
<1>3. CASE GroundSend
  <2>1. up' \in Packet
    <3>1. CASE gstate = "sending"
      <4>1. gseq \in Seq
        BY <3>1 DEF Seq
      <4>2. <<gimage, gseq>> \in Data
        BY <4>1 DEF Data
      <4> QED
        BY <1>3, <3>1, <4>1, <4>2 DEF GroundSend, Packet
    <3>2. CASE gstate = "ending"
      BY <1>3, <3>2 DEF GroundSend, Packet, Data
    <3> QED
      BY <1>3, <3>1, <3>2 DEF GroundSend
  <2> QED
    BY <1>3, <2>1 DEF GroundSend, ground, bounds
<1>4. CASE GroundHear
  <2>1. gseq \in Nat
    OBVIOUS
  <2> QED
    BY <1>4, <2>1 DEF GroundHear, ground, bounds
<1>5. CASE GroundGivesUp
  BY <1>5 DEF GroundGivesUp, link, bounds
<1>6. CASE LoseUp \/ LoseDown
  BY <1>6 DEF LoseUp, LoseDown, ground, bounds
<1>7. CASE Spoil
  <2>1. up' \in Packet
    <3>1. Junk \in Data
      BY DEF Data
    <3>2. CASE \E n \in Seq \cup {END} : up' = [up EXCEPT !.seq = n]
      BY <1>7, <3>2 DEF Spoil, Packet
    <3>3. CASE up' = [up EXCEPT !.len = 0]
      BY <1>7, <3>3 DEF Spoil, Packet
    <3>4. CASE up' = [up EXCEPT !.data = Junk]
      BY <1>7, <3>1, <3>4 DEF Spoil, Packet
    <3> QED
      BY <1>7, <3>2, <3>3, <3>4 DEF Spoil
  <2> QED
    BY <1>7, <2>1 DEF Spoil, Noisy, ground
<1> QED
  BY <1>1, <1>2, <1>3, <1>4, <1>5, <1>6, <1>7 DEF Outside

\* The steps of the system, by who takes them.
LEMMA Steps ==
  ASSUME Next
  PROVE  \/ /\ Receive \/ Handler
               \/ MemTick \/ ChipFinish \/ Crash \/ Bootloader \/ Clock
            /\ Quiet \/ (Noisy /\ UNCHANGED <<ground, commands>>)
         \/ Outside /\ Onboard
BY DEF Next, Receive, Handler, OtaMode, Outside

LEMMA TypesStep ==
  ASSUME Types, [Next]_vars PROVE Types'
<1> USE DEF Types, TypeOK
<1>1. CASE UNCHANGED vars
  <2>1. FsmTypeOK' /\ TtcTypeOK' /\ MemoryTypeOK' /\ LinkTypeOK'
    BY <1>1, FsmSame, TtcSame, MemSame, LinkSame DEF vars, obcvars, ObcTypeOK
  <2>2. ControlTypeOK' /\ GroundTypeOK' /\ Numbered' /\ Counted'
    BY <1>1 DEF vars, obcvars, control, fsm, ground, bounds, ObcTypeOK,
                ControlTypeOK, GroundTypeOK, Numbered, Counted
  <2> QED
    BY <2>1, <2>2 DEF ObcTypeOK
<1>2. CASE Outside /\ Onboard
  BY <1>2, OutsideTypes, OnboardTypes
<1>3. CASE /\ Receive \/ Handler
              \/ MemTick \/ ChipFinish \/ Crash \/ Bootloader \/ Clock
           /\ Quiet \/ (Noisy /\ UNCHANGED <<ground, commands>>)
  <2>1. ObcTypeOK' /\ Numbered'
    BY <1>3, ReceiveTypes, HandlerTypes, BackgroundTypes
  <2>2. GroundTypeOK' /\ Counted'
    BY <1>3, Numbers DEF Quiet, Noisy, ground, bounds, GroundTypeOK, Counted
  <2> QED
    BY <2>1, <2>2
<1> QED
  BY <1>1, <1>2, <1>3, Steps

LEMMA TypesInit == ASSUME Init PROVE Types
<1> USE Numbers DEF Init, ObcInit
<1>1. 0 \in Seq /\ 0 \in Nat /\ 0 < ImagePages
  BY DEF Seq
<1>2. FsmTypeOK
  BY <1>1, Pages DEF FsmTypeOK, SmStates
<1>3. TtcTypeOK
  BY <1>1 DEF TtcTypeOK, NoPacket
<1>4. MemoryTypeOK
  BY DEF MemoryTypeOK, Content, Data
<1>5. LinkTypeOK /\ ControlTypeOK
  BY <1>1 DEF LinkTypeOK, ControlTypeOK
<1>6. GroundTypeOK /\ Numbered /\ Counted
  BY <1>1 DEF GroundTypeOK, Numbered, Counted
<1> QED
  BY <1>2, <1>3, <1>4, <1>5, <1>6 DEF Types, TypeOK, ObcTypeOK

LEMMA SpecTypes == Spec => []Types
<1>1. Init => Types
  BY TypesInit
<1>2. Types /\ [Next]_vars => Types'
  BY TypesStep
<1> QED
  BY <1>1, <1>2, PTL DEF Spec

\* Whatever frames arrive and however the memory behaves, every variable of
\* the OTA firmware and of its ground keeps to its range: the packet numbers
\* written are pages of the flash, the counters stay within their bounds.
THEOREM TypeCorrect == Spec => []TypeOK
<1>1. Types => TypeOK
  BY DEF Types
<1> QED
  BY <1>1, SpecTypes, PTL

----------------------------------------------------------------------------
(* Client and driver agree.                                                *)

LEMMA SyncInit == ASSUME Init PROVE Sync
BY DEF Init, ObcInit, Sync

\* Steps that leave the memory alone: a session stays in its state, is given
\* up, or goes on because the memory is idle.
LEMMA SyncStill ==
  ASSUME Sync, UNCHANGED memory,
         mode' = "boot" => mode = "boot" /\ s_state' = s_state,
         \/ s_state' \in {s_state, "IDLE", "ERROR"}
         \/ status = "idle" /\ s_state \notin {"IDLE", "ERROR"}
  PROVE  Sync'
BY DEF Sync, memory

LEMMA SyncAsk ==
  ASSUME Sync, status = "idle", NEW r, Ask(r), mode' # "boot",
         s_state' \notin {"WAIT_PKT", "WRITE_PKT", "WRITE_META"}
  PROVE  Sync'
BY DEF Sync, Ask, Flash!Submit

LEMMA SyncRestart == ASSUME RestartProcessor PROVE Sync'
BY DEF Sync, RestartProcessor, Flash!Restart

LEMMA SyncMemory ==
  ASSUME Sync, MemTick \/ ChipFinish PROVE Sync'
<1>1. UNCHANGED <<mode, s_state>>
  BY DEF MemTick, ChipFinish, fsm, control
<1>2. CASE stage = "queued" /\ Flash!Issue(Buffer)
  BY <1>1, <1>2 DEF Sync, Flash!Issue
<1>3. CASE Flash!Ignored
  BY <1>1, <1>3 DEF Sync, Flash!Ignored
<1>4. CASE Flash!Report
  BY <1>1, <1>4 DEF Sync, Flash!Report
<1>5. CASE Flash!Fail
  BY <1>1, <1>5 DEF Sync, Flash!Fail
<1>6. CASE ChipFinish
  BY <1>1, <1>6 DEF Sync, ChipFinish, Flash!Finish
<1> QED
  BY <1>2, <1>3, <1>4, <1>5, <1>6 DEF MemTick

LEMMA SyncHandler ==
  ASSUME Sync, Handler PROVE Sync'
<1> USE DEF Goto, GetMode, In, fsm
<1>1. CASE OtaIdle
  BY <1>1 DEF OtaIdle, BeginSession, Flash!ClearThenSubmit, Sync
<1>2. CASE OtaWaitEraseFirst
  BY <1>2, SyncAsk DEF OtaWaitEraseFirst, Erase
<1>3. CASE OtaWaitPktEnd \/ OtaWaitPktErase
  <2>1. s_state = "WAIT_PKT" /\ status = "idle"
    BY <1>3 DEF OtaWaitPktEnd, OtaWaitPktErase, TakePacket, Sync
  <2> QED
    BY <1>3, <2>1, SyncAsk DEF OtaWaitPktEnd, OtaWaitPktErase, TakePacket, Erase
<1>4. CASE OtaWritePkt \/ OtaWriteMeta
  <2>1. s_state \in {"WRITE_PKT", "WRITE_META"} /\ status = "idle"
    BY <1>4 DEF OtaWritePkt, OtaWriteMeta, Sync
  <2> QED
    BY <1>4, <2>1, SyncAsk DEF OtaWritePkt, OtaWriteMeta, Write
<1>5. CASE OtaWaitPktWrite
  <2>1. s_state = "WAIT_PKT" /\ status = "idle"
    BY <1>5 DEF OtaWaitPktWrite, TakePacket, Sync
  <2> QED
    BY <1>5, <2>1, SyncStill DEF OtaWaitPktWrite, TakePacket
<1>6. CASE OtaReset
  BY <1>6, SyncRestart DEF OtaReset
<1>7. CASE OtaWaitPktNone \/ OtaWaitPktEmpty \/ OtaMemoryError \/ OtaError
             \/ OtaWaits \/ CommunicationMode
  BY <1>7, SyncStill
     DEF OtaWaitPktNone, OtaWaitPktEmpty, TakePacket, OtaMemoryError, OtaError,
         OtaWaits, CommunicationMode
<1>8. CASE OtaWaitEraseReady \/ OtaNeedErase \/ OtaWaitWrite
             \/ OtaWaitEraseMeta \/ OtaWaitMeta
  BY <1>8, SyncStill
     DEF OtaWaitEraseReady, OtaNeedErase, OtaWaitWrite, OtaWaitEraseMeta,
         OtaWaitMeta
<1> QED
  BY <1>1, <1>2, <1>3, <1>4, <1>5, <1>6, <1>7, <1>8 DEF Handler, OtaMode

\* A frame leaves the memory alone, and at most gives a session up.
LEMMA ReceiveStays ==
  ASSUME Receive
  PROVE  /\ UNCHANGED <<memory, mode, late, s_meta>> /\ mode # "boot"
         /\ s_state' \in {s_state, "IDLE"}
<1>1. UNCHANGED <<memory, mode, late>> /\ mode # "boot"
  BY DEF Receive, ReceiveCommand, SwallowCommand, StrayIgnored, StrayObeyed,
         ReceiveData, ReceiveEnd, Arrives
<1>2. s_meta' = s_meta /\ s_state' \in {s_state, "IDLE"}
  BY DEF Receive, ReceiveCommand, SwallowCommand, StrayIgnored, StrayObeyed,
         ReceiveData, ReceiveEnd, Obey, StartOta, EndOta, fsm
<1> QED
  BY <1>1, <1>2

LEMMA SyncStep ==
  ASSUME Sync, [Next]_vars PROVE Sync'
<1>1. CASE UNCHANGED vars
  BY <1>1, SyncStill DEF vars, obcvars, fsm, control
<1>2. CASE Outside /\ Onboard
  BY <1>2, SyncStill DEF Onboard, fsm, control
<1>3. CASE Receive
  BY <1>3, ReceiveStays, SyncStill
<1>4. CASE Bootloader
  BY <1>4 DEF Bootloader, Sync, fsm
<1>5. CASE Clock
  BY <1>5, SyncStill DEF Clock, fsm, control
<1>6. CASE Crash
  BY <1>6, SyncRestart DEF Crash
<1> QED
  BY <1>1, <1>2, <1>3, <1>4, <1>5, <1>6, SyncMemory, SyncHandler, Steps

LEMMA SpecSync == Spec => []Sync
<1>1. Init => Sync
  BY SyncInit
<1>2. Sync /\ [Next]_vars => Sync'
  BY SyncStep
<1> QED
  BY <1>1, <1>2, PTL DEF Spec

----------------------------------------------------------------------------
(* An image is pending only when it is whole.                              *)

LEMMA PendingIsData ==
  \A v \in Image : <<v, END>> \in Data /\ <<v, END>> # Blank /\ <<v, END>> # Torn
BY ContentAssumption DEF Data

LEMMA InvInit == ASSUME Init PROVE IInv
<1>1. NotPending(cells)
  BY PendingIsData, Pages DEF Init, ObcInit, NotPending
<1> QED
  BY <1>1 DEF Init, ObcInit, IInv, InStep, Sync, Requested, Begun, Whole, Good,
              NotPending, Overwrites

\* Steps that leave the memory alone, in which a session goes on as it is,
\* is given up, or is waiting for its successor.
LEMMA Still ==
  ASSUME IInv, UNCHANGED memory, s_meta' = s_meta,
         mode' = "boot" => mode = "boot" /\ s_state' = s_state,
         s_state' \in {s_state, "IDLE", "ERROR"}
  PROVE  IInv'
<1> USE DEF IInv, memory
<1>1. InStep'
  BY DEF InStep, Sync
<1>2. Clear' = Clear
  BY DEF Clear, NotPending
<1>3. Requested'
  BY <1>2 DEF Requested, ImageOnFlash, Overwrites
<1>4. Begun'
  BY <1>2 DEF Begun, ImageOnFlash, Overwrites
<1>5. Whole'
  BY DEF Whole, Good
<1> QED
  BY <1>1, <1>3, <1>4, <1>5

\* Steps of the session itself between two requests.
LEMMA Moves ==
  ASSUME IInv, UNCHANGED memory, s_meta' = s_meta,
         mode' # "boot", status = "idle", s_state \notin {"IDLE", "ERROR"},
         s_state' \in Overwrites => s_state \in Overwrites,
         s_state' = "WRITE_META" => ImageOnFlash(s_meta)
  PROVE  IInv'
<1> USE DEF IInv, memory
<1>1. InStep'
  BY DEF InStep, Sync
<1>2. Clear' = Clear
  BY DEF Clear, NotPending
<1>3. Requested'
  BY <1>2 DEF Requested, InStep, Sync
<1>4. Begun'
  BY <1>2 DEF Begun, ImageOnFlash
<1>5. Whole'
  BY DEF Whole, Good
<1> QED
  BY <1>1, <1>3, <1>4, <1>5

\* The session asks for an erase, or for a write of a page of firmware.
LEMMA Asks ==
  ASSUME IInv, status = "idle", NEW op, NEW p, Ask([op |-> op, at |-> p]),
         op = "erase" \/ p # META, mode' # "boot",
         s_state \in Overwrites,
         s_state' \notin {"WAIT_PKT", "WRITE_PKT", "WRITE_META"}
  PROVE  IInv'
<1> USE DEF IInv
<1>1. Flash!Submit([op |-> op, at |-> p])
  BY DEF Ask
<1>2. /\ status' = "busy" /\ stage' = "queued"
      /\ req'.op = op /\ req'.at = p
      /\ able' = (running = NoReq /\ ~wp)
      /\ UNCHANGED <<running, cells, wp>>
  BY <1>1 DEF Flash!Submit
<1>4. running = NoReq
  BY DEF InStep, Sync, Overwrites
<1>5. Clear
  BY DEF InStep, Sync, Begun
<1>6. Clear'
  BY <1>2, <1>5 DEF Clear, NotPending
<1>7. InStep'
  BY <1>2, <1>4 DEF InStep, Sync
<1>8. Requested'
  BY <1>2, <1>6 DEF Requested
<1>9. Begun'
  BY <1>6 DEF Begun
<1>10. Whole'
  BY <1>2 DEF Whole, Good
<1> QED
  BY <1>7, <1>8, <1>9, <1>10

\* What a request that the chip takes does to the metadata page.
LEMMA MetaPage ==
  ASSUME NEW d, req.at # META \/ req.op = "erase"
  PROVE  /\ Flash!InFlux(cells, req)[META] \in {cells[META], Torn}
         /\ Flash!Result(cells, req, d)[META] \in {cells[META], Blank}
         /\ req.at = META => /\ Flash!InFlux(cells, req)[META] = Torn
                             /\ Flash!Result(cells, req, d)[META] = Blank
<1>1. META \in Page
  BY Pages
<1>2. req.op # "erase" => META \notin Flash!Footprint(req)
  BY DEF Flash!Footprint
<1>3. req.op = "erase" /\ req.at = META => META \in Flash!Footprint(req)
  BY <1>1 DEF Flash!Footprint
<1> QED
  BY <1>1, <1>2, <1>3 DEF Flash!InFlux, Flash!Result

LEMMA IssueInv ==
  ASSUME IInv, MemTick, Flash!Issue(Buffer) PROVE IInv'
<1> DEFINE flux == Flash!InFlux(cells, req)
           left == Flash!Result(cells, req, Buffer)
<1>1. /\ stage = "queued" /\ stage' = "issued"
      /\ running = NoReq /\ ~wp /\ wp' = wp
      /\ running' = left /\ cells' = flux
      /\ UNCHANGED <<status, req, able, mode, s_state, s_meta>>
  BY DEF MemTick, Flash!Issue, fsm, control
<1>2. status = "busy"
  BY <1>1 DEF IInv, InStep, Sync
<1> HIDE DEF flux, left
<1>3. CASE req.at = META /\ req.op # "erase"
  <2>1. ImageOnFlash(s_meta) /\ s_state \notin Overwrites
    BY <1>1, <1>3 DEF IInv, Requested
  <2>2. Flash!Footprint(req) = {META}
    BY <1>3, Pages DEF Flash!Footprint
  <2>3. flux[META] = Torn
    BY <2>2, Pages DEF flux, Flash!InFlux
  <2>4. left[META] \in {s_meta, Torn}
    BY <1>3, <2>2, Pages DEF left, Flash!Result, Flash!Programmed, Buffer
  <2>5. \A p \in Page : p # META => left[p] = cells[p]
    BY <2>2 DEF left, Flash!Result
  <2>6. Good(flux)
    BY <2>3, PendingIsData DEF Good
  <2>7. Good(left)
    <3> SUFFICES ASSUME NEW v \in Image, left[META] = <<v, END>>,
                        NEW n \in 0..(ImagePages - 1)
                 PROVE  left[Fw(n)] = <<v, n>>
      BY DEF Good
    <3>1. s_meta = <<v, END>>
      BY <2>4, PendingIsData
    <3>2. cells[Fw(n)] = <<v, n>>
      BY <2>1, <3>1 DEF ImageOnFlash
    <3>3. n \in Seq
      BY Numbers DEF Seq
    <3> QED
      BY <2>5, <3>2, <3>3, Pages
  <2> QED
    BY <1>1, <1>2, <2>1, <2>6, <2>7
       DEF IInv, InStep, Sync, Requested, Begun, Whole
<1>4. CASE req.at # META \/ req.op = "erase"
  <2>1. /\ flux[META] \in {cells[META], Torn}
        /\ left[META] \in {cells[META], Blank}
        /\ req.at = META => flux[META] = Torn /\ left[META] = Blank
    BY <1>1, <1>4, MetaPage DEF flux, left
  <2>2. NotPending(flux) /\ NotPending(left)
    <3>1. CASE req.at = META
      BY <2>1, <3>1, PendingIsData DEF NotPending
    <3>2. CASE req.at # META
      <4>1. NotPending(cells)
        BY <1>1, <3>2 DEF IInv, Requested, Clear
      <4> QED
        BY <2>1, <4>1, PendingIsData DEF NotPending
    <3> QED
      BY <3>1, <3>2
  <2>3. Good(flux) /\ Good(left)
    BY <2>2 DEF NotPending, Good
  <2>4. Clear'
    BY <1>1, <2>2 DEF Clear, NotPending
  <2> QED
    BY <1>1, <1>2, <2>3, <2>4
       DEF IInv, InStep, Sync, Requested, Begun, Whole, ImageOnFlash
<1> QED
  BY <1>3, <1>4

LEMMA MemTickInv ==
  ASSUME IInv, MemTick PROVE IInv'
<1>1. UNCHANGED <<mode, s_state, s_meta>>
  BY DEF MemTick, fsm, control
<1>2. CASE stage = "queued" /\ Flash!Issue(Buffer)
  BY <1>2, IssueInv
<1>3. CASE Flash!Ignored
  <2>1. /\ stage = "queued" /\ stage' = "issued" /\ ~able
        /\ UNCHANGED <<status, req, running, cells, wp, able>>
    BY <1>3 DEF Flash!Ignored
  <2>2. wp'
    BY <2>1 DEF IInv, InStep, Sync
  <2> QED
    BY <1>1, <2>1, <2>2
       DEF IInv, InStep, Sync, Requested, Begun, Clear, Whole, Good, ImageOnFlash
<1>4. CASE Flash!Report
  <2>1. /\ stage = "issued" /\ stage' = "none" /\ running = NoReq
        /\ status' = "idle"
        /\ UNCHANGED <<running, cells, wp, able>>
    BY <1>4 DEF Flash!Report
  <2>2. status = "busy"
    BY <2>1 DEF IInv, InStep, Sync
  <2>3. s_state \in Overwrites => Clear'
    BY <2>1, <2>2 DEF IInv, Begun, Clear, NotPending
  <2>4. s_state # "WRITE_META"
    BY <2>2 DEF IInv, InStep, Sync
  <2> QED
    BY <1>1, <2>1, <2>2, <2>3, <2>4
       DEF IInv, InStep, Sync, Requested, Begun, Whole, Good
<1>5. CASE Flash!Fail
  <2>1. /\ status = "busy" /\ status' = "error" /\ stage' = "none"
        /\ UNCHANGED <<running, cells, wp, able>>
    BY <1>5 DEF Flash!Fail
  <2> QED
    BY <1>1, <2>1
       DEF IInv, InStep, Sync, Requested, Begun, Whole, Good, ImageOnFlash
<1> QED
  BY <1>2, <1>3, <1>4, <1>5 DEF MemTick

LEMMA ChipFinishInv ==
  ASSUME IInv, ChipFinish PROVE IInv'
<1>1. /\ running # NoReq /\ cells' = running /\ running' = NoReq
      /\ UNCHANGED <<status, req, stage, wp, able, mode, s_state, s_meta>>
  BY DEF ChipFinish, Flash!Finish, fsm, control
<1>2. stage # "queued" /\ s_state # "WRITE_META"
  BY <1>1 DEF IInv, InStep, Sync
<1>3. Clear => Clear'
  BY <1>1 DEF Clear, NotPending
<1> QED
  BY <1>1, <1>2, <1>3 DEF IInv, InStep, Sync, Requested, Begun, Whole, Good

LEMMA RestartInv ==
  ASSUME IInv, RestartProcessor PROVE IInv'
<1>1. /\ mode' = "boot" /\ s_state' = "IDLE" /\ stage' = "none"
      /\ status' = "idle" /\ UNCHANGED <<running, cells>>
  BY DEF RestartProcessor, Flash!Restart
<1> QED
  BY <1>1 DEF IInv, InStep, Sync, Requested, Begun, Whole, Good, Overwrites

LEMMA BootloaderInv ==
  ASSUME IInv, Bootloader PROVE IInv'
<1>1. /\ mode = "boot" /\ mode' = "communication"
      /\ UNCHANGED <<status, req, stage, running, wp, able, s_state, s_meta>>
  BY DEF Bootloader, fsm
<1>2. s_state = "IDLE" /\ stage = "none"
  BY <1>1 DEF IInv, InStep, Sync
<1>3. InStep' /\ Requested' /\ Begun'
  BY <1>1, <1>2 DEF IInv, InStep, Sync, Requested, Begun, Overwrites
<1>4. CASE UNCHANGED cells
  BY <1>1, <1>3, <1>4 DEF IInv, Whole, Good
<1>5. CASE running = NoReq /\
           cells' = [p \in Page |-> IF p < FW THEN Blank ELSE cells[p]]
  <2>1. cells'[META] = Blank
    BY <1>5, Pages
  <2> QED
    BY <1>1, <1>3, <1>5, <2>1, PendingIsData DEF IInv, Whole, Good
<1> QED
  BY <1>4, <1>5 DEF Bootloader

\* The chip may have missed the command to clear its protection: it is then
\* protected still.  If it was at work, it is done.
LEMMA OtaIdleInv ==
  ASSUME IInv, OtaIdle, ~late' PROVE IInv'
<1>1. /\ s_state' = "WAIT_ERASE" /\ mode' # "boot"
      /\ Flash!ClearThenSubmit(MetaErase) /\ late' = (late \/ running' # NoReq)
  BY DEF OtaIdle, BeginSession, Goto, GetMode, MetaErase
<1>2. running' = NoReq
  BY <1>1
<1>3. /\ status' = "busy" /\ stage' = "queued" /\ req' = MetaErase
      /\ able' = (running' = NoReq /\ ~wp')
      /\ cells' = IF running = NoReq THEN cells ELSE running
  BY <1>1, <1>2 DEF Flash!ClearThenSubmit, Flash!Cleared
<1>4. able' \/ wp'
  BY <1>2, <1>3
<1>5. InStep' /\ Requested' /\ Begun'
  BY <1>1, <1>2, <1>3, <1>4 DEF InStep, Sync, Requested, Begun, MetaErase
<1>6. Whole'
  BY <1>2, <1>3 DEF IInv, Whole, Good
<1> QED
  BY <1>5, <1>6 DEF IInv

LEMMA HandlerInv ==
  ASSUME IInv, ObcTypeOK, Numbered, Handler, ~late' PROVE IInv'
<1> USE DEF Goto, GetMode, In, fsm
<1>1. CASE OtaIdle
  BY <1>1, OtaIdleInv
<1>2. CASE OtaWaitEraseFirst
  BY <1>2, Asks DEF OtaWaitEraseFirst, Erase, Overwrites
<1>3. CASE OtaWaitEraseReady
  BY <1>3, Moves DEF OtaWaitEraseReady, Overwrites
<1>4. CASE OtaWaitPktNone
  BY <1>4, Still DEF OtaWaitPktNone
<1>5. CASE OtaWaitPktEnd
  <2>1. status = "idle" /\ running = NoReq
    BY <1>5 DEF OtaWaitPktEnd, TakePacket, IInv, InStep, Sync
  <2>2. Flash!Submit(MetaErase)
    BY <1>5, <2>1 DEF OtaWaitPktEnd, Erase, Ask, MetaErase
  <2>3. /\ status' = "busy" /\ stage' = "queued" /\ req' = MetaErase
        /\ able' = (running = NoReq /\ ~wp)
        /\ UNCHANGED <<running, cells, wp>>
    BY <2>2 DEF Flash!Submit
  <2>4. s_state' = "WAIT_ERASE_META" /\ mode' # "boot"
    BY <1>5 DEF OtaWaitPktEnd, TakePacket
  <2>5. able' \/ wp'
    BY <2>1, <2>3
  <2>6. InStep' /\ Requested' /\ Begun'
    BY <2>1, <2>3, <2>4, <2>5
       DEF InStep, Sync, Requested, Begun, MetaErase, Overwrites
  <2> QED
    BY <2>3, <2>6 DEF IInv, Whole, Good
<1>6. CASE OtaWaitPktEmpty
  BY <1>6, Still DEF OtaWaitPktEmpty, TakePacket
<1>7. CASE OtaWaitPktErase
  <2>1. status = "idle"
    BY <1>7 DEF OtaWaitPktErase, TakePacket, IInv, InStep, Sync
  <2> QED
    BY <1>7, <2>1, Asks DEF OtaWaitPktErase, TakePacket, Erase, Overwrites
<1>8. CASE OtaWaitPktWrite
  <2>1. status = "idle"
    BY <1>8 DEF OtaWaitPktWrite, TakePacket, IInv, InStep, Sync
  <2> QED
    BY <1>8, <2>1, Moves DEF OtaWaitPktWrite, TakePacket, Overwrites
<1>9. CASE OtaNeedErase
  BY <1>9, Moves DEF OtaNeedErase, Overwrites
<1>10. CASE OtaWritePkt
  <2>1. status = "idle"
    BY <1>10 DEF OtaWritePkt, IInv, InStep, Sync
  <2>2. Fw(s_pending_seq) # META
    BY <1>10, Pages DEF OtaWritePkt, Numbered
  <2> QED
    BY <1>10, <2>1, <2>2, Asks DEF OtaWritePkt, Write, Overwrites
<1>11. CASE OtaWaitWrite
  BY <1>11, Moves DEF OtaWaitWrite, Overwrites
<1>12. CASE OtaWaitEraseMeta
  BY <1>12, Moves DEF OtaWaitEraseMeta, Overwrites
<1>13. CASE OtaWriteMeta
  <2>1. status = "idle" /\ running = NoReq /\ ImageOnFlash(s_meta)
    BY <1>13 DEF OtaWriteMeta, IInv, InStep, Sync, Begun
  <2>2. Flash!Submit([op |-> "write", at |-> META])
    BY <1>13, <2>1 DEF OtaWriteMeta, Write, Ask
  <2>3. /\ status' = "busy" /\ stage' = "queued"
        /\ req'.op = "write" /\ req'.at = META
        /\ able' = (running = NoReq /\ ~wp)
        /\ UNCHANGED <<running, cells, wp>>
    BY <2>2 DEF Flash!Submit
  <2>4. s_state' = "WAIT_META" /\ mode' # "boot" /\ s_meta' = s_meta
    BY <1>13 DEF OtaWriteMeta
  <2>5. able' \/ wp'
    BY <2>1, <2>3
  <2>6. ImageOnFlash(s_meta)'
    BY <2>1, <2>3, <2>4 DEF ImageOnFlash
  <2>7. InStep' /\ Requested' /\ Begun'
    BY <2>1, <2>3, <2>4, <2>5, <2>6
       DEF InStep, Sync, Requested, Begun, Overwrites
  <2> QED
    BY <2>3, <2>7 DEF IInv, Whole, Good
<1>14. CASE OtaWaitMeta
  BY <1>14, Moves DEF OtaWaitMeta, Overwrites
<1>15. CASE OtaMemoryError
  BY <1>15, Still DEF OtaMemoryError
<1>16. CASE OtaError
  BY <1>16, Still DEF OtaError
<1>17. CASE OtaReset
  BY <1>17, RestartInv DEF OtaReset
<1>18. CASE OtaWaits
  BY <1>18, Still DEF OtaWaits
<1>19. CASE CommunicationMode
  BY <1>19, Still DEF CommunicationMode
<1> QED
  BY <1>1, <1>2, <1>3, <1>4, <1>5, <1>6, <1>7, <1>8, <1>9, <1>10, <1>11,
     <1>12, <1>13, <1>14, <1>15, <1>16, <1>17, <1>18, <1>19
     DEF Handler, OtaMode

LEMMA InvStep ==
  ASSUME Types, IInv, [Next]_vars, ~late' PROVE IInv'
<1>1. CASE UNCHANGED vars
  BY <1>1, Still DEF vars, obcvars, fsm, control
<1>2. CASE Outside /\ Onboard
  BY <1>2, Still DEF Onboard, fsm, control
<1>3. CASE Receive
  BY <1>3, ReceiveStays, Still
<1>4. CASE Handler
  BY <1>4, HandlerInv DEF Types, TypeOK
<1>5. CASE MemTick
  BY <1>5, MemTickInv
<1>6. CASE ChipFinish
  BY <1>6, ChipFinishInv
<1>7. CASE Crash
  BY <1>7, RestartInv DEF Crash
<1>8. CASE Bootloader
  BY <1>8, BootloaderInv
<1>9. CASE Clock
  BY <1>9, Still DEF Clock, fsm, control
<1> QED
  BY <1>1, <1>2, <1>3, <1>4, <1>5, <1>6, <1>7, <1>8, <1>9, Steps

LEMMA StaysLate ==
  ASSUME late, [Next]_vars PROVE late'
<1>1. CASE UNCHANGED vars
  BY <1>1 DEF vars, obcvars
<1>2. CASE Outside /\ Onboard
  BY <1>2 DEF Onboard
<1>3. CASE Receive
  BY <1>3, ReceiveStays
<1>4. CASE OtaIdle
  BY <1>4 DEF OtaIdle
<1>5. CASE Handler /\ ~OtaIdle
  BY <1>5
     DEF Handler, CommunicationMode, OtaMode, OtaWaitEraseFirst,
         OtaWaitEraseReady, OtaWaitPktNone, OtaWaitPktEnd, OtaWaitPktEmpty,
         OtaWaitPktErase, OtaWaitPktWrite, OtaNeedErase, OtaWritePkt,
         OtaWaitWrite, OtaWaitEraseMeta, OtaWriteMeta, OtaWaitMeta,
         OtaMemoryError, OtaError, OtaReset, OtaWaits, TakePacket
<1>6. CASE MemTick \/ ChipFinish \/ Crash \/ Bootloader \/ Clock
  BY <1>6 DEF MemTick, ChipFinish, Crash, Bootloader, Clock
<1> QED
  BY <1>1, <1>2, <1>3, <1>4, <1>5, <1>6, Steps

LEMMA SpecInv == Spec => [](late \/ IInv)
<1> DEFINE Inv == late \/ IInv
<1>1. Init => Inv
  BY InvInit
<1>2. Types /\ Inv /\ [Next]_vars => Inv'
  BY InvStep, StaysLate
<1> HIDE DEF Inv
<1>3. Spec => []Inv
  BY <1>1, <1>2, SpecTypes, PTL DEF Spec
<1> QED
  BY <1>3 DEF Inv

\* Whatever is lost, spoilt, repeated or commanded, however often the
\* processor restarts, whatever the memory answers and even if the chip has
\* remained protected: metadata that make the bootloader install an image
\* (handle_ota_done) are on the flash only with all of that image's pages, as
\* long as no session has begun while the chip was at work, which late tells.
THEOREM PendingIsWhole == Spec => []PendingImageIsWhole
<1>1. late \/ IInv => PendingImageIsWhole
  BY DEF IInv, Whole, Good, PendingImageIsWhole
<1> QED
  BY <1>1, SpecInv, PTL

----------------------------------------------------------------------------
(* Buffers.                                                                *)

\* While a request waits to be sent the memory is busy, and no handler and
\* no frame changes what the request is made from.
LEMMA QueuedStays ==
  ASSUME Sync, [Next]_vars, stage = "queued", stage' = "queued"
  PROVE  UNCHANGED <<req, s_meta, s_write_buf>>
<1>1. status = "busy" /\ s_state \notin {"WAIT_PKT", "WRITE_PKT", "WRITE_META"}
  BY DEF Sync
<1>2. CASE UNCHANGED vars
  BY <1>2 DEF vars, obcvars, fsm, memory
<1>3. CASE Outside /\ Onboard
  BY <1>3 DEF Onboard, fsm, memory
<1>4. CASE Receive
  BY <1>4 DEF Receive, ReceiveCommand, SwallowCommand, StrayIgnored,
         StrayObeyed, ReceiveData, ReceiveEnd, Arrives, Obey, StartOta,
         EndOta, fsm, memory
<1>5. CASE Handler
  BY <1>1, <1>5
     DEF Handler, CommunicationMode, OtaMode, OtaIdle, OtaWaitEraseFirst,
         OtaWaitEraseReady, OtaWaitPktNone, OtaWaitPktEnd, OtaWaitPktEmpty,
         OtaWaitPktErase, OtaWaitPktWrite, OtaNeedErase, OtaWritePkt,
         OtaWaitWrite, OtaWaitEraseMeta, OtaWriteMeta, OtaWaitMeta,
         OtaMemoryError, OtaError, OtaReset, OtaWaits, TakePacket, In,
         RestartProcessor, Flash!Restart, Flash!ClearThenSubmit, fsm, memory
<1>6. CASE MemTick
  BY <1>6 DEF MemTick, Flash!Issue, Flash!Ignored, Flash!Report, Flash!Fail,
              fsm
<1>7. CASE ChipFinish
  BY <1>7 DEF ChipFinish, Flash!Finish, fsm
<1>8. CASE Crash
  BY <1>8 DEF Crash, RestartProcessor, Flash!Restart
<1>9. CASE Bootloader \/ Clock
  BY <1>9 DEF Bootloader, Clock, fsm, memory
<1> QED
  BY <1>2, <1>3, <1>4, <1>5, <1>6, <1>7, <1>8, <1>9, Steps

\* The pointer that qspi_write_async keeps stays good: from the request of a
\* write until its bytes have gone to the chip, no new session, no packet
\* and no command changes the buffer that it points to.
THEOREM BuffersAreStable == Spec => BufferStable
<1>1. Sync /\ [Next]_vars =>
        [stage = "queued" /\ stage' = "queued" /\ req.op = "write" =>
           Buffer' = Buffer]_vars
  <2> SUFFICES ASSUME Sync, [Next]_vars,
                      stage = "queued", stage' = "queued"
               PROVE  Buffer' = Buffer
    OBVIOUS
  <2> QED
    BY QueuedStays DEF Buffer
<1> QED
  BY <1>1, SpecSync, PTL DEF Spec, BufferStable

----------------------------------------------------------------------------
(* Acknowledged pages are kept.                                            *)

\* What the promise takes: the link spoils nothing, and the ground sends one
\* image only.  A START_OTA is not heard while a session receives, so that
\* the pages of two images may come together in one session: the second is
\* then acknowledged page by page and programmed over the first.
Undisturbed ==
  /\ MaxNoise = 0
  /\ \A v, w \in Image : v = w

\* An unprotected chip ignores only what is asked when a session begins.
Able == stage = "queued" /\ ~wp => able \/ req.at = META

\* A session is being prepared, or a START_OTA is on its way.
Beginning ==
  \/ s_state = "WAIT_ERASE" \/ (s_state = "IDLE" /\ OTA_REQUESTED)
  \/ up \in Command /\ up.kind = "START"

\* The ground has heard of no page.
Unheard == gseq = 0 /\ (gstate = "sending" /\ down # None => down.kind # "ACK")

\* Before a session receives anything, nothing of it can be acknowledged.
Waiting ==
  /\ s_state \in {"IDLE", "WAIT_ERASE"} => ~s_ota_pkt_ready /\ ~ota_data_started
  /\ Beginning => Unheard

\* What is on its way up is a packet that the ground has reached, and END is
\* sent when all have been acknowledged.  A READY that is on its way down came
\* before any page.
InOrder ==
  /\ up \in Packet =>
       /\ up.len = 1 /\ up.data = <<gimage, up.seq>>
       /\ IF up.seq = END THEN gseq = ImagePages ELSE up.seq <= gseq
  /\ down # None /\ down.kind = "READY" => gseq = 0

\* Page n of the image as it should be, or still erased.
Right(c, n) == c[Fw(n)] = <<gimage, n>>
Fit(c, n)   == Right(c, n) \/ c[Fw(n)] = Blank

\* All pages below x are ready to be written, or have been.
FitTo(x) == \A n \in Seq : Fw(n) < x => Fit(cells, n)

SectorStart(x) == Flash!SectorOf(x) * PagesPerSector = x

\* The sector at s_erase_addr is being erased, has been, or the erase failed.
EraseUnderWay ==
  /\ SectorStart(s_erase_addr)
  /\ s_next_fw_sector = s_erase_addr + PagesPerSector
  /\ FitTo(s_erase_addr)
  /\ stage = "queued" => req = [op |-> "erase", at |-> s_erase_addr]
  /\ running # NoReq =>
       /\ \A n \in Seq : Fw(n) < s_erase_addr => running[Fw(n)] = cells[Fw(n)]
       /\ \A n \in Seq : s_erase_addr <= Fw(n) /\ Fw(n) < s_next_fw_sector =>
                           running[Fw(n)] = Blank
  /\ status # "error" /\ stage # "queued" /\ running = NoReq =>
       FitTo(s_next_fw_sector)

\* Page n is being written, has been, or the write failed.
PageWritten(n) ==
  /\ stage = "queued" => req = [op |-> "write", at |-> Fw(n)] /\ Fit(cells, n)
  /\ running # NoReq => Right(running, n)
  /\ status # "error" /\ stage # "queued" /\ running = NoReq => Right(cells, n)

\* So is page s_pending_seq, and no other is touched.
WriteUnderWay ==
  /\ PageWritten(s_pending_seq)
  /\ running # NoReq =>
       \A n \in Seq \ {s_pending_seq} : running[Fw(n)] = cells[Fw(n)]
  /\ \A n \in Seq \ {s_pending_seq} : Fw(n) < s_next_fw_sector => Fit(cells, n)

\* Where the pages end that are erased and need not be erased again.
Frontier == IF s_state = "NEED_ERASE" THEN s_erase_addr ELSE s_next_fw_sector

\* What happens to a page that was acknowledged: it is staged, or it is being
\* written or on the flash, where nothing is erased again.
Stored(n) ==
  \/ s_state \in {"WRITE_PKT", "WAIT_WRITE"} /\ s_pending_seq = n
  \/ Fw(n) < Frontier /\ Right(cells, n)

Safe(n) == (s_ota_pkt_ready /\ s_ota_pkt.seq = n) \/ Stored(n)

Prepared ==
  s_state = "WAIT_ERASE" =>
    s_erase_addr = META \/ (s_erase_addr = FW /\ EraseUnderWay)

\* What a session that receives has.
Erasing ==
  s_state = "NEED_ERASE" =>
    /\ s_ota_pkt_ready /\ s_pending_seq = s_ota_pkt.seq
    /\ s_erase_addr <= Fw(s_pending_seq)

StagedPage ==
  s_ota_pkt_ready =>
    /\ s_ota_pkt.seq \in Seq /\ s_ota_pkt.len = 1
    /\ s_ota_pkt.data = <<gimage, s_ota_pkt.seq>>
    /\ Fw(s_ota_pkt.seq) <= Frontier

WrittenPage ==
  s_state \in {"WRITE_PKT", "WAIT_WRITE"} =>
    /\ s_pending_seq \in Seq /\ Fw(s_pending_seq) < s_next_fw_sector
    /\ s_write_buf = <<gimage, s_pending_seq>>

FlashInStep ==
  /\ FW <= Frontier /\ SectorStart(s_next_fw_sector)
  /\ s_state = "NEED_ERASE" => EraseUnderWay
  /\ s_state = "WAIT_WRITE" => WriteUnderWay
  /\ s_state \in {"WAIT_PKT", "WRITE_PKT"} => FitTo(s_next_fw_sector)

Ongoing == Erasing /\ StagedPage /\ WrittenPage /\ FlashInStep

\* All acknowledged pages are safe, and all but the last without the staging
\* buffer: a packet is acknowledged only when the one before has left it.
Acknowledged ==
  /\ \A n \in Seq : n < gseq => Safe(n)
  /\ \A n \in Seq : n + 1 < gseq => Stored(n)
  /\ gstate = "sending" /\ down # None /\ down = [kind |-> "ACK", seq |-> gseq] =>
       Safe(gseq) /\ (\A n \in Seq : n < gseq => Stored(n))

Receives == {"WAIT_PKT", "NEED_ERASE", "WRITE_PKT", "WAIT_WRITE"}

Receiving ==
  ota_data_started =>
    /\ s_state \in Receives \cup {"ERROR"}
    /\ s_state \in Receives => Ongoing /\ Acknowledged

\* When END has come, nothing touches the pages but a write under way.
OnFlash(n) ==
  /\ Right(cells, n)
  /\ running # NoReq => Right(running, n)
  /\ stage = "queued" => Fw(n) \notin Flash!Footprint(req)
  /\ s_state \in {"NEED_ERASE", "WRITE_PKT"} => s_pending_seq # n

Writing(n) ==
  /\ s_state \in {"WRITE_PKT", "WAIT_WRITE"}
  /\ s_pending_seq = n /\ s_write_buf = <<gimage, n>>
  /\ s_state = "WRITE_PKT" => Fit(cells, n)
  /\ s_state = "WAIT_WRITE" => PageWritten(n)

Stays(n) == OnFlash(n) \/ Writing(n)

Closing ==
  s_state \in Session /\ ~ota_data_started =>
    /\ gstate # "sending" /\ gseq \in {0, ImagePages}
    /\ down # None => down.kind # "READY"
    /\ s_ota_pkt_ready => s_ota_pkt.seq = END
    /\ \A n \in Seq : n + 1 < gseq => Stays(n)

Outer == Able /\ Waiting /\ InOrder
Inner == Prepared /\ Receiving /\ Closing

\* A chip that is protected keeps nothing, and remains so until it is told
\* otherwise, at the beginning of a session.
AInv == Outer /\ (~wp => Inner)

LEMMA DivBounds ==
  ASSUME NEW p \in Nat, NEW d \in Nat, d > 0
  PROVE  p \div d \in Nat /\ (p \div d) * d <= p /\ p < (p \div d) * d + d
BY Z3

LEMMA DivUnique ==
  ASSUME NEW p \in Nat, NEW d \in Nat, d > 0, NEW k \in Nat,
         k * d <= p, p < k * d + d
  PROVE  p \div d = k
<1> DEFINE q == p \div d
<1>1. q \in Nat /\ q * d <= p /\ p < q * d + d
  BY DivBounds
<1> HIDE DEF q
<1>2. CASE q < k
  <2>1. (k - q) - 1 \in Nat /\ k - q \in Nat
    BY <1>1, <1>2
  <2>2. k * d = q * d + (k - q) * d
    BY <1>1, <2>1, Z3
  <2>3. (k - q) * d >= d
    BY <2>1, Z3
  <2> QED
    BY <1>1, <2>2, <2>3
<1>3. CASE q > k
  <2>1. (q - k) - 1 \in Nat /\ q - k \in Nat
    BY <1>1, <1>3
  <2>2. q * d = k * d + (q - k) * d
    BY <1>1, <2>1, Z3
  <2>3. (q - k) * d >= d
    BY <2>1, Z3
  <2> QED
    BY <1>1, <2>2, <2>3
<1> QED
  BY <1>1, <1>2, <1>3 DEF q

\* The sector that starts at x: the pages that an erase of x clears.
LEMMA SectorPages ==
  ASSUME NEW x \in Nat, SectorStart(x), NEW p \in Nat
  PROVE  Flash!SectorOf(p) = Flash!SectorOf(x) <=> x <= p /\ p < x + PagesPerSector
<1> DEFINE k == x \div PagesPerSector
<1>1. k \in Nat /\ k * PagesPerSector = x
  BY DivBounds, Numbers DEF SectorStart, Flash!SectorOf
<1>2. Flash!SectorOf(x) = k /\ Flash!SectorOf(p) = p \div PagesPerSector
  BY DEF Flash!SectorOf
<1> HIDE DEF k
<1>3. ASSUME x <= p, p < x + PagesPerSector PROVE p \div PagesPerSector = k
  BY <1>1, <1>3, DivUnique, Numbers
<1>4. ASSUME p \div PagesPerSector = k PROVE x <= p /\ p < x + PagesPerSector
  BY <1>1, <1>4, DivBounds, Numbers
<1> QED
  BY <1>2, <1>3, <1>4

LEMMA NextStart ==
  ASSUME NEW x \in Nat, SectorStart(x)
  PROVE  SectorStart(x + PagesPerSector)
<1> DEFINE k == x \div PagesPerSector
<1>1. k \in Nat /\ k * PagesPerSector = x
  BY DivBounds, Numbers DEF SectorStart, Flash!SectorOf
<1> HIDE DEF k
<1>2. (k + 1) * PagesPerSector = x + PagesPerSector
  BY <1>1, Numbers, Z3
<1>3. (x + PagesPerSector) \div PagesPerSector = k + 1
  BY <1>1, <1>2, DivUnique, Numbers
<1> QED
  BY <1>2, <1>3 DEF SectorStart, Flash!SectorOf

LEMMA FirstStart == SectorStart(FW)
<1>1. 1 * PagesPerSector = PagesPerSector
  BY Numbers, Z3
<1>2. PagesPerSector \div PagesPerSector = 1
  BY <1>1, DivUnique, Numbers
<1> QED
  BY <1>1, <1>2 DEF SectorStart, Flash!SectorOf, FW

\* The pages that an erase of the sector at x clears, and all others.
LEMMA EraseResult ==
  ASSUME req = [op |-> "erase", at |-> s_erase_addr], s_erase_addr \in Nat,
         SectorStart(s_erase_addr), NEW d, NEW n \in Seq
  PROVE  LET a == s_erase_addr  p == Fw(n)  left == Flash!Result(cells, req, d)
         IN  /\ p < a => /\ left[p] = cells[p]
                         /\ Flash!InFlux(cells, req)[p] = cells[p]
             /\ a <= p /\ p < a + PagesPerSector => left[p] = Blank
<1>1. Fw(n) \in Page /\ Fw(n) \in Nat
  BY Pages DEF Page
<1>2. Fw(n) \in Flash!Footprint(req)
        <=> s_erase_addr <= Fw(n) /\ Fw(n) < s_erase_addr + PagesPerSector
  BY <1>1, SectorPages DEF Flash!Footprint
<1>3. /\ Flash!InFlux(cells, req)[Fw(n)] =
           IF Fw(n) \in Flash!Footprint(req) THEN Torn ELSE cells[Fw(n)]
      /\ Fw(n) \in Flash!Footprint(req) => Flash!Result(cells, req, d)[Fw(n)] = Blank
      /\ Fw(n) \notin Flash!Footprint(req) =>
           Flash!Result(cells, req, d)[Fw(n)] = cells[Fw(n)]
  BY <1>1 DEF Flash!InFlux, Flash!Result
<1>4. Fw(n) < s_erase_addr => ~(s_erase_addr <= Fw(n))
  BY <1>1
<1> QED
  BY <1>2, <1>3, <1>4

\* The page that a write goes to, and all others.
LEMMA WriteResult ==
  ASSUME NEW k \in Seq, req = [op |-> "write", at |-> Fw(k)], Fit(cells, k)
  PROVE  LET left == Flash!Result(cells, req, <<gimage, k>>)
         IN  /\ Right(left, k)
             /\ \A n \in Seq \ {k} : /\ left[Fw(n)] = cells[Fw(n)]
                                     /\ Flash!InFlux(cells, req)[Fw(n)] = cells[Fw(n)]
<1>1. /\ \A n \in Seq : Fw(n) \in Page
      /\ \A n \in Seq \ {k} : Fw(n) # Fw(k)
  BY Pages, Numbers DEF Fw, FW, Seq
<1>2. Flash!Footprint(req) = {Fw(k)}
  BY <1>1 DEF Flash!Footprint
<1>3. Flash!Result(cells, req, <<gimage, k>>)[Fw(k)] = <<gimage, k>>
  BY <1>1, <1>2 DEF Flash!Result, Flash!Programmed, Fit, Right
<1>4. ASSUME NEW n \in Seq \ {k}
      PROVE  /\ Flash!Result(cells, req, <<gimage, k>>)[Fw(n)] = cells[Fw(n)]
             /\ Flash!InFlux(cells, req)[Fw(n)] = cells[Fw(n)]
  BY <1>1, <1>2 DEF Flash!Result, Flash!InFlux
<1> QED
  BY <1>3, <1>4 DEF Right

LEMMA DueIsPage ==
  ASSUME TypeOK, Counted, gstate = "sending" PROVE gseq \in Seq
BY Numbers DEF TypeOK, GroundTypeOK, Counted, Seq

\* The metadata lie in a sector of their own, below the firmware.
LEMMA MetaApart ==
  ASSUME NEW op, NEW n \in Seq
  PROVE  Fw(n) \notin Flash!Footprint([op |-> op, at |-> META])
<1>1. Fw(n) \in Nat /\ FW <= Fw(n) /\ Fw(n) # META
  BY Pages, Numbers DEF Fw, Seq
<1>2. 0 * PagesPerSector = 0 /\ 0 \div PagesPerSector = 0
  BY DivUnique, Numbers
<1>3. SectorStart(META)
  BY <1>2 DEF SectorStart, Flash!SectorOf, META
<1>4. Flash!SectorOf(Fw(n)) # Flash!SectorOf(META)
  BY <1>1, <1>3, SectorPages, Numbers DEF META, FW
<1> QED
  BY <1>1, <1>4 DEF Flash!Footprint

LEMMA EndApart == END \notin Seq
BY OtaAssumption DEF Seq, END

LEMMA NoneApart == None \notin Packet /\ None \notin Command
BY NothingAssumption

\* With one image only, a new session of the ground sends that image again.
LEMMA SameImage ==
  ASSUME Undisturbed, TypeOK, Outside
  PROVE  gimage' = gimage
<1>1. \A v \in Image : v = gimage
  BY DEF Undisturbed, TypeOK, GroundTypeOK
<1> QED
  BY <1>1 DEF Outside, GroundStart, GroundEndOta, GroundSend, GroundHear,
              GroundGivesUp, LoseUp, LoseDown, Spoil, ground

----------------------------------------------------------------------------
(* What the ground and the frames do to the order of things.               *)

\* Steps taken on board that send no reply.
LEMMA OuterKeeps ==
  ASSUME Outer, Able', UNCHANGED <<ground, down>>, up' \in {up, None},
         s_state' \in {"IDLE", "WAIT_ERASE"} =>
           ~s_ota_pkt_ready' /\ ~ota_data_started',
         s_state' = "WAIT_ERASE" \/ (s_state' = "IDLE" /\ OTA_REQUESTED') =>
           Beginning
  PROVE  Outer'
<1>1. UNCHANGED <<gimage, gstate, gseq>>
  BY DEF ground
<1>2. Waiting'
  BY <1>1, NoneApart DEF Outer, Waiting, Beginning, Unheard
<1>3. InOrder'
  BY <1>1, NoneApart DEF Outer, InOrder
<1> QED
  BY <1>2, <1>3 DEF Outer

\* Steps of the ground and of the link.
LEMMA OuterOutside ==
  ASSUME Outer, Undisturbed, TypeOK, Counted, Outside, Onboard
  PROVE  Outer'
<1>1. UNCHANGED <<fsm, ttc, memory, gimage, OTA_REQUESTED>>
  BY SameImage DEF Onboard, control
<1>2. UNCHANGED <<s_state, s_ota_pkt_ready, ota_data_started, stage, wp, able, req>>
  BY <1>1 DEF fsm, ttc, staging, memory
<1>3. Able'
  BY <1>2 DEF Outer, Able
<1>4. gseq \in Nat /\ gseq <= ImagePages /\ ImagePages \in Nat
  BY Numbers DEF TypeOK, GroundTypeOK
<1>5. ASSUME (Beginning => Unheard)', InOrder' PROVE Outer'
  BY <1>2, <1>3, <1>5 DEF Outer, Waiting
<1>6. (Beginning => Unheard) /\ InOrder
  BY DEF Outer, Waiting
<1>7. CASE \E v \in Image : GroundStart(v)
  <2>1. PICK v \in Image : GroundStart(v)
    BY <1>7
  <2>2. /\ up' = [kind |-> "START"] /\ gstate' = "starting" /\ gseq' = 0
        /\ down' = down
    BY <2>1 DEF GroundStart
  <2>3. up' \notin Packet
    BY <2>2 DEF Packet
  <2> QED
    BY <1>5, <2>2, <2>3 DEF Beginning, Unheard, InOrder
<1>8. CASE GroundEndOta
  <2>1. /\ up' = [kind |-> "END_OTA"] /\ gstate' = "off" /\ UNCHANGED <<gseq, down>>
    BY <1>8 DEF GroundEndOta
  <2>2. up' \notin Packet
    BY <2>1 DEF Packet
  <2> QED
    BY <1>1, <1>2, <1>5, <1>6, <2>1, <2>2 DEF Beginning, Unheard, InOrder
<1>9. CASE GroundSend
  <2>1. UNCHANGED <<gseq, gstate, down>>
    BY <1>9 DEF GroundSend, ground
  <2>2. \/ /\ gstate = "sending"
           /\ up' = [kind |-> "PKT", seq |-> gseq, len |-> 1, data |-> <<gimage, gseq>>]
        \/ /\ gstate = "ending"
           /\ up' = [kind |-> "PKT", seq |-> END, len |-> 1, data |-> <<gimage, END>>]
    BY <1>9 DEF GroundSend
  <2>3. up'.kind = "PKT"
    BY <2>2
  <2>4. InOrder'
    <3>1. CASE gstate = "sending"
      <4>1. gseq # END
        BY <3>1, DueIsPage, EndApart
      <4> QED
        BY <1>1, <1>4, <1>6, <2>1, <2>2, <3>1, <4>1 DEF InOrder
    <3>2. CASE gstate = "ending"
      <4>1. gseq = ImagePages
        BY <3>2 DEF Counted
      <4> QED
        BY <1>1, <1>6, <2>1, <2>2, <3>2, <4>1 DEF InOrder
    <3> QED
      BY <2>2, <3>1, <3>2
  <2>5. (Beginning => Unheard)'
    BY <1>1, <1>2, <1>6, <2>1, <2>3 DEF Beginning, Unheard, Command
  <2> QED
    BY <1>5, <2>4, <2>5
<1>10. CASE GroundHear
  <2>1. down # None /\ down' = None /\ up' = up
    BY <1>10 DEF GroundHear
  <2>2. CASE /\ gstate = "sending" /\ down.kind = "ACK" /\ down.seq = gseq
             /\ gseq' = gseq + 1
    <3>1. ~Beginning
      BY <1>6, <2>1, <2>2 DEF Unheard
    <3>2. ~Beginning'
      BY <1>1, <1>2, <2>1, <3>1 DEF Beginning
    <3>3. gseq < ImagePages
      BY <2>2 DEF Counted
    <3>4. up \in Packet /\ up.seq # END => up.seq \in Nat
      BY DEF Packet, Seq
    <3>5. InOrder'
      BY <1>1, <1>4, <1>6, <2>1, <2>2, <3>3, <3>4 DEF InOrder
    <3> QED
      BY <1>5, <3>2, <3>5
  <2>3. CASE gseq' = gseq
    <3>1. InOrder'
      BY <1>1, <1>6, <2>1, <2>3 DEF InOrder
    <3>2. (Beginning => Unheard)'
      BY <1>1, <1>2, <1>6, <2>1, <2>3 DEF Beginning, Unheard
    <3> QED
      BY <1>5, <3>1, <3>2
  <2> QED
    BY <1>10, <2>2, <2>3 DEF GroundHear, ground
<1>11. CASE GroundGivesUp
  <2>1. gstate' = "off" /\ UNCHANGED <<gseq, up, down>>
    BY <1>11 DEF GroundGivesUp, link
  <2> QED
    BY <1>1, <1>2, <1>5, <1>6, <2>1 DEF Beginning, Unheard, InOrder
<1>12. CASE LoseUp \/ LoseDown
  <2>1. /\ UNCHANGED <<gseq, gstate>>
        /\ up' \in {up, None} /\ down' \in {down, None}
    BY <1>12 DEF LoseUp, LoseDown, ground
  <2> QED
    BY <1>1, <1>2, <1>5, <1>6, <2>1, NoneApart DEF Beginning, Unheard, InOrder
<1>13. CASE Spoil
  BY <1>13, Numbers DEF Spoil, Noisy, Undisturbed, TypeOK, GroundTypeOK
<1> QED
  BY <1>7, <1>8, <1>9, <1>10, <1>11, <1>12, <1>13 DEF Outside

\* The frames that are heard if the link spoils none.
Heard == ReceiveCommand \/ SwallowCommand \/ StrayIgnored \/ ReceiveData \/ ReceiveEnd

LEMMA OuterHeard ==
  ASSUME Outer, Types, Heard, Quiet PROVE Outer'
<1>1. UNCHANGED <<ground, memory>> /\ up' = None
  BY DEF Quiet, Heard, ReceiveCommand, SwallowCommand, StrayIgnored,
         ReceiveData, ReceiveEnd, Arrives
<1>2. Able'
  BY <1>1 DEF Outer, Able, memory
<1>3. CASE ReceiveCommand
  <2>1. ~ota_data_started /\ up \in Command /\ down' = down
    BY <1>3 DEF ReceiveCommand
  <2>2. CASE up.kind = "START" /\ StartOta
    <3>1. ~ota_data_started' /\ ~s_ota_pkt_ready' /\ s_state' = "IDLE"
      BY <2>2 DEF StartOta, Abort
    <3>2. Beginning
      BY <2>1, <2>2 DEF Beginning
    <3> QED
      BY <1>1, <1>2, <2>1, <3>1, <3>2, OuterKeeps
  <2>3. CASE EndOta
    <3>1. /\ UNCHANGED <<s_state, s_ota_pkt_ready>> /\ ~OTA_REQUESTED'
          /\ ~ota_data_started'
      BY <2>3 DEF EndOta, fsm, staging
    <3>2. s_state' = "WAIT_ERASE" => Beginning
      BY <3>1 DEF Beginning
    <3>3. s_state' \in {"IDLE", "WAIT_ERASE"} => ~s_ota_pkt_ready'
      BY <3>1 DEF Outer, Waiting
    <3> QED
      BY <1>1, <1>2, <2>1, <3>1, <3>2, <3>3, OuterKeeps
  <2> QED
    BY <1>3, <2>2, <2>3 DEF ReceiveCommand, Obey
<1>4. CASE SwallowCommand \/ StrayIgnored
  <2>1. UNCHANGED <<down, fsm, ttc, OTA_REQUESTED>>
    BY <1>4 DEF SwallowCommand, StrayIgnored
  <2>2. UNCHANGED <<s_state, s_ota_pkt_ready, ota_data_started>>
    BY <2>1 DEF fsm, ttc, staging
  <2>3. s_state' = "WAIT_ERASE" \/ (s_state' = "IDLE" /\ OTA_REQUESTED') => Beginning
    BY <2>1, <2>2 DEF Beginning
  <2>4. s_state' \in {"IDLE", "WAIT_ERASE"} => ~s_ota_pkt_ready' /\ ~ota_data_started'
    BY <2>2 DEF Outer, Waiting
  <2> QED
    BY <1>1, <1>2, <2>1, <2>3, <2>4, OuterKeeps
<1>5. CASE ReceiveData \/ ReceiveEnd
  <2>1. /\ ota_data_started /\ s_state' = s_state
        /\ down' = down \/ (\E q : down' = [kind |-> "ACK", seq |-> q])
    BY <1>5 DEF ReceiveData, ReceiveEnd, Send, fsm
  <2>2. s_state' \notin {"IDLE", "WAIT_ERASE"}
    BY <2>1 DEF Outer, Waiting
  <2>3. Waiting'
    BY <1>1, <2>2, NoneApart DEF Waiting, Beginning
  <2>4. down' # None /\ down'.kind = "READY" => down' = down
    BY <2>1
  <2>5. InOrder'
    BY <1>1, <2>4, NoneApart DEF Outer, InOrder, ground
  <2> QED
    BY <1>2, <2>3, <2>5 DEF Outer
<1> QED
  BY <1>3, <1>4, <1>5 DEF Heard

\* What a session asks of an idle memory.
LEMMA AskResult ==
  ASSUME Sync, status = "idle", s_state \notin {"IDLE", "ERROR"},
         NEW op, NEW p, Ask([op |-> op, at |-> p])
  PROVE  /\ Able'
         /\ status' = "busy" /\ stage' = "queued" /\ req' = [op |-> op, at |-> p]
         /\ running' = NoReq /\ UNCHANGED <<cells, wp>>
<1>1. Flash!Submit([op |-> op, at |-> p])
  BY DEF Ask
<1>2. /\ status' = "busy" /\ stage' = "queued"
      /\ req' = [op |-> op, at |-> p]
      /\ able' = (running = NoReq /\ ~wp)
      /\ UNCHANGED <<running, cells, wp>>
  BY <1>1 DEF Flash!Submit
<1>3. running = NoReq
  BY DEF Sync
<1>4. ~wp' => able'
  BY <1>2, <1>3, Zenon
<1>5. Able'
  BY <1>4 DEF Able
<1> QED
  BY <1>2, <1>3, <1>5

LEMMA AbleSame == ASSUME Able, UNCHANGED memory PROVE Able'
BY DEF Able, memory

LEMMA AbleHandler ==
  ASSUME Sync, Able, Handler PROVE Able'
<1>1. CASE OtaIdle
  BY <1>1 DEF OtaIdle, Flash!ClearThenSubmit, Able
<1>2. CASE OtaWaitEraseFirst
  BY <1>2, AskResult DEF OtaWaitEraseFirst, In, Erase
<1>3. CASE OtaWaitPktEnd \/ OtaWaitPktErase
  <2>1. s_state = "WAIT_PKT" /\ status = "idle"
    BY <1>3 DEF OtaWaitPktEnd, OtaWaitPktErase, TakePacket, In, Sync
  <2> QED
    BY <1>3, <2>1, AskResult DEF OtaWaitPktEnd, OtaWaitPktErase, Erase
<1>4. CASE OtaWritePkt \/ OtaWriteMeta
  <2>1. s_state \in {"WRITE_PKT", "WRITE_META"} /\ status = "idle"
    BY <1>4 DEF OtaWritePkt, OtaWriteMeta, In, Sync
  <2> QED
    BY <1>4, <2>1, AskResult DEF OtaWritePkt, OtaWriteMeta, Write
<1>5. CASE OtaReset
  BY <1>5 DEF OtaReset, RestartProcessor, Flash!Restart, Able
<1>6. CASE \/ OtaWaitEraseReady \/ OtaWaitPktNone \/ OtaWaitPktEmpty
           \/ OtaWaitPktWrite \/ OtaNeedErase \/ OtaWaitWrite
           \/ OtaWaitEraseMeta \/ OtaWaitMeta \/ OtaMemoryError \/ OtaError
           \/ OtaWaits \/ CommunicationMode
  <2>1. UNCHANGED memory
    BY <1>6 DEF OtaWaitEraseReady, OtaWaitPktNone, OtaWaitPktEmpty,
         OtaWaitPktWrite, OtaNeedErase, OtaWaitWrite, OtaWaitEraseMeta,
         OtaWaitMeta, OtaMemoryError, OtaError, OtaWaits, CommunicationMode
  <2> QED
    BY <2>1, AbleSame
<1> QED
  BY <1>1, <1>2, <1>3, <1>4, <1>5, <1>6 DEF Handler, OtaMode

LEMMA OuterHandler ==
  ASSUME Sync, Outer, Handler, Quiet PROVE Outer'
<1>1. Able' /\ UNCHANGED ground
  BY AbleHandler DEF Outer, Quiet
<1> USE DEF In, Goto, GetMode, link
<1>2. CASE OtaWaitEraseReady
  <2>1. /\ s_state = "WAIT_ERASE" /\ s_state' = "WAIT_PKT" /\ up' = up
        /\ Send([kind |-> "READY"])
    BY <1>2 DEF OtaWaitEraseReady
  <2>2. Unheard
    BY <2>1 DEF Outer, Waiting, Beginning
  <2>3. down' = down \/ down' = [kind |-> "READY"]
    BY <2>1 DEF Send
  <2>4. Unheard' /\ gseq' = 0
    BY <1>1, <2>2, <2>3 DEF Unheard, ground
  <2>5. Waiting' /\ InOrder'
    BY <1>1, <2>1, <2>4 DEF Outer, Waiting, InOrder, ground
  <2> QED
    BY <1>1, <2>5 DEF Outer
<1>3. CASE OtaIdle
  <2>1. /\ s_state = "IDLE" /\ OTA_REQUESTED
        /\ UNCHANGED <<up, down, ota_data_started, s_ota_pkt_ready>>
    BY <1>3 DEF OtaIdle, BeginSession, ttc, staging
  <2>2. Beginning /\ ~s_ota_pkt_ready /\ ~ota_data_started
    BY <2>1 DEF Beginning, Outer, Waiting
  <2> QED
    BY <1>1, <2>1, <2>2, OuterKeeps
<1>4. CASE OtaWaitEraseFirst
  <2>1. /\ s_state = "WAIT_ERASE"
        /\ UNCHANGED <<up, down, ota_data_started, s_ota_pkt_ready>>
    BY <1>4 DEF OtaWaitEraseFirst, ttc, staging
  <2>2. Beginning /\ ~s_ota_pkt_ready /\ ~ota_data_started
    BY <2>1 DEF Beginning, Outer, Waiting
  <2> QED
    BY <1>1, <2>1, <2>2, OuterKeeps
<1>5. CASE OtaError \/ OtaReset
  <2>1. /\ s_state' = "IDLE" /\ ~OTA_REQUESTED' /\ ~ota_data_started'
        /\ ~s_ota_pkt_ready' /\ UNCHANGED <<up, down>>
    BY <1>5 DEF OtaError, OtaReset, RestartProcessor, Abort
  <2> QED
    BY <1>1, <2>1, OuterKeeps
<1>6. CASE OtaWaits \/ CommunicationMode
  <2>1. UNCHANGED <<s_state, OTA_REQUESTED, ota_data_started, s_ota_pkt_ready, up, down>>
    BY <1>6 DEF OtaWaits, CommunicationMode, fsm, ttc, staging
  <2>2. s_state' = "WAIT_ERASE" \/ (s_state' = "IDLE" /\ OTA_REQUESTED') => Beginning
    BY <2>1 DEF Beginning
  <2>3. s_state' \in {"IDLE", "WAIT_ERASE"} => ~s_ota_pkt_ready' /\ ~ota_data_started'
    BY <2>1 DEF Outer, Waiting
  <2> QED
    BY <1>1, <2>1, <2>2, <2>3, OuterKeeps
<1>7. CASE \/ OtaWaitPktNone \/ OtaWaitPktEnd \/ OtaWaitPktEmpty \/ OtaWaitPktErase
           \/ OtaWaitPktWrite \/ OtaNeedErase \/ OtaWritePkt \/ OtaWaitWrite
           \/ OtaWaitEraseMeta \/ OtaWriteMeta \/ OtaWaitMeta \/ OtaMemoryError
  <2>1. s_state' \notin {"IDLE", "WAIT_ERASE"} /\ UNCHANGED <<up, down>>
    BY <1>7 DEF OtaWaitPktNone, OtaWaitPktEnd, OtaWaitPktEmpty, OtaWaitPktErase,
         OtaWaitPktWrite, OtaNeedErase, OtaWritePkt, OtaWaitWrite,
         OtaWaitEraseMeta, OtaWriteMeta, OtaWaitMeta, OtaMemoryError, TakePacket
  <2> QED
    BY <1>1, <2>1, OuterKeeps
<1> QED
  BY <1>2, <1>3, <1>4, <1>5, <1>6, <1>7 DEF Handler, OtaMode

LEMMA AbleMemory ==
  ASSUME Able, MemTick \/ ChipFinish PROVE Able'
<1>1. CASE stage = "queued" /\ Flash!Issue(Buffer)
  BY <1>1 DEF Able, Flash!Issue
<1>2. CASE Flash!Ignored
  BY <1>2 DEF Able, Flash!Ignored
<1>3. CASE Flash!Report
  BY <1>3 DEF Able, Flash!Report
<1>4. CASE Flash!Fail
  BY <1>4 DEF Able, Flash!Fail
<1>5. CASE ChipFinish
  BY <1>5 DEF Able, ChipFinish, Flash!Finish
<1> QED
  BY <1>1, <1>2, <1>3, <1>4, <1>5 DEF MemTick

LEMMA OuterBackground ==
  ASSUME Outer, MemTick \/ ChipFinish \/ Crash \/ Bootloader \/ Clock, Quiet
  PROVE  Outer'
<1>1. CASE MemTick \/ ChipFinish \/ Bootloader \/ Clock
  <2>1. Able'
    BY <1>1, AbleMemory, AbleSame DEF Outer, Bootloader, Clock, Able
  <2>2. UNCHANGED <<ground, s_state, OTA_REQUESTED, ota_data_started, s_ota_pkt_ready, up, down>>
    BY <1>1 DEF MemTick, ChipFinish, Bootloader, Clock, Quiet, control, fsm, ttc, staging, link
  <2>3. s_state' = "WAIT_ERASE" \/ (s_state' = "IDLE" /\ OTA_REQUESTED') => Beginning
    BY <2>2 DEF Beginning
  <2>4. s_state' \in {"IDLE", "WAIT_ERASE"} => ~s_ota_pkt_ready' /\ ~ota_data_started'
    BY <2>2 DEF Outer, Waiting
  <2> QED
    BY <2>1, <2>2, <2>3, <2>4, OuterKeeps
<1>2. CASE Crash
  <2>1. /\ s_state' = "IDLE" /\ ~OTA_REQUESTED' /\ ~ota_data_started'
        /\ ~s_ota_pkt_ready' /\ stage' = "none" /\ UNCHANGED <<up, down>>
    BY <1>2 DEF Crash, RestartProcessor, Flash!Restart, link
  <2>2. Able'
    BY <2>1 DEF Able
  <2> QED
    BY <2>1, <2>2, OuterKeeps DEF Quiet
<1> QED
  BY <1>1, <1>2

----------------------------------------------------------------------------
(* Steps that leave the session alone, or end it.                          *)

LEMMA AtRest ==
  ASSUME s_state' \notin Session \cup {"WAIT_ERASE"},
         ota_data_started' => s_state' = "ERROR"
  PROVE  Inner'
BY DEF Inner, Prepared, Receiving, Receives, Closing

LEMMA OnboardKeeps ==
  ASSUME UNCHANGED <<fsm, ttc, memory, gimage>>
  PROVE  /\ EraseUnderWay => EraseUnderWay'
         /\ Ongoing => Ongoing'
         /\ \A n : (Safe(n) => Safe(n)') /\ (Stored(n) => Stored(n)')
         /\ \A n : Stays(n) => Stays(n)'
<1> USE DEF fsm, ttc, staging, memory
<1>1. EraseUnderWay => EraseUnderWay'
  BY DEF EraseUnderWay, FitTo, Fit, Right, SectorStart
<1>2. \A n : PageWritten(n) => PageWritten(n)'
  BY DEF PageWritten, Fit, Right
<1>3. WriteUnderWay => WriteUnderWay'
  BY <1>2 DEF WriteUnderWay, Fit, Right
<1>4. Frontier' = Frontier
  BY DEF Frontier
<1>5. FlashInStep => FlashInStep'
  BY <1>1, <1>3, <1>4 DEF FlashInStep, FitTo, Fit, Right, SectorStart
<1>6. Ongoing => Ongoing'
  BY <1>4, <1>5 DEF Ongoing, Erasing, StagedPage, WrittenPage
<1>7. \A n : (Safe(n) => Safe(n)') /\ (Stored(n) => Stored(n)')
  BY <1>4 DEF Safe, Stored, Right
<1>8. \A n : OnFlash(n) => OnFlash(n)'
  BY DEF OnFlash, Right
<1>9. \A n : Writing(n) => Writing(n)'
  BY <1>2 DEF Writing, Fit, Right
<1> QED
  BY <1>1, <1>6, <1>7, <1>8, <1>9 DEF Stays

\* Steps of the ground and of the link.
LEMMA FromGround ==
  ASSUME Inner, UNCHANGED <<fsm, ttc, memory, gimage>>,
         Acknowledged => Acknowledged',
         gstate # "sending" /\ (down # None => down.kind # "READY") =>
           /\ gstate' # "sending" /\ gseq' \in {0, gseq}
           /\ down' # None => down'.kind # "READY"
  PROVE  Inner'
<1>1. UNCHANGED <<s_state, s_erase_addr, ota_data_started, s_ota_pkt_ready, s_ota_pkt>>
  BY DEF fsm, ttc, staging
<1>2. Prepared'
  BY <1>1, OnboardKeeps DEF Inner, Prepared
<1>3. Receiving'
  BY <1>1, OnboardKeeps DEF Inner, Receiving
<1>4. Closing'
  <2> SUFFICES ASSUME s_state \in Session, ~ota_data_started
               PROVE  /\ gstate' # "sending" /\ gseq' \in {0, ImagePages}
                      /\ down' # None => down'.kind # "READY"
                      /\ s_ota_pkt_ready' => s_ota_pkt'.seq = END
                      /\ \A n \in Seq : n + 1 < gseq' => Stays(n)'
    BY <1>1 DEF Closing
  <2>1. /\ gstate # "sending" /\ gseq \in {0, ImagePages}
        /\ down # None => down.kind # "READY"
        /\ s_ota_pkt_ready => s_ota_pkt.seq = END
        /\ \A n \in Seq : n + 1 < gseq => Stays(n)
    BY DEF Inner, Closing
  <2>2. gseq' \in {0, gseq}
    BY <2>1
  <2>3. ASSUME NEW n \in Seq, n + 1 < gseq' PROVE Stays(n)'
    <3>1. gseq' # 0
      BY <2>3, Numbers DEF Seq
    <3> QED
      BY <2>1, <2>2, <2>3, <3>1, OnboardKeeps
  <2> QED
    BY <1>1, <2>1, <2>2, <2>3
<1> QED
  BY <1>2, <1>3, <1>4 DEF Inner

\* Steps that only take a frame, or time.
LEMMA NothingDone ==
  ASSUME Inner, UNCHANGED <<fsm, ttc, memory, ground, down>>
  PROVE  Inner'
<1>1. UNCHANGED <<gimage, gstate, gseq>>
  BY DEF ground
<1>2. Acknowledged => Acknowledged'
  BY <1>1, OnboardKeeps DEF Acknowledged
<1> QED
  BY <1>1, <1>2, FromGround

\* No page is acknowledged of which the ground does not hear in this step.
LEMMA InnerOutside ==
  ASSUME Inner, Outer, Undisturbed, TypeOK, Counted, Outside, Onboard
  PROVE  Inner'
<1>1. UNCHANGED <<fsm, ttc, memory, gimage>>
  BY SameImage DEF Onboard
<1>2. gseq \in Nat
  BY DEF TypeOK, GroundTypeOK
<1>3. \A n : (Safe(n) => Safe(n)') /\ (Stored(n) => Stored(n)')
  BY <1>1, OnboardKeeps
<1>4. CASE \E v \in Image : GroundStart(v)
  <2>1. /\ gstate' = "starting" /\ gseq' = 0 /\ down' = down
    BY <1>4 DEF GroundStart
  <2>2. Acknowledged'
    BY <2>1, Numbers DEF Acknowledged, Seq
  <2> QED
    BY <1>1, <2>1, <2>2, FromGround
<1>5. CASE GroundEndOta \/ GroundSend \/ GroundGivesUp \/ LoseUp \/ LoseDown
  <2>1. /\ gstate' \in {gstate, "off"} /\ gseq' = gseq /\ down' \in {down, None}
    BY <1>5 DEF GroundEndOta, GroundSend, GroundGivesUp, LoseUp, LoseDown, ground, link
  <2>2. Acknowledged => Acknowledged'
    BY <1>3, <2>1 DEF Acknowledged
  <2> QED
    BY <1>1, <2>1, <2>2, FromGround
<1>6. CASE GroundHear
  <2>1. down # None /\ down' = None
    BY <1>6 DEF GroundHear
  <2>2. CASE gstate = "starting" /\ down.kind = "READY" /\ gseq' = gseq
    <3>1. gseq' = 0
      BY <2>2 DEF Counted
    <3>2. Acknowledged'
      BY <2>1, <3>1, Numbers DEF Acknowledged, Seq
    <3> QED
      BY <1>1, <2>1, <2>2, <3>2, FromGround
  <2>3. CASE /\ gstate = "sending" /\ down.kind = "ACK" /\ down.seq = gseq
             /\ gseq' = gseq + 1
    <3>1. down = [kind |-> "ACK", seq |-> gseq]
      BY <2>1, <2>3 DEF TypeOK, ObcTypeOK, LinkTypeOK, Reply
    <3>2. \A n \in Seq : n \in Nat
      BY DEF Seq
    <3>3. ASSUME Acknowledged PROVE Acknowledged'
      <4>1. Safe(gseq) /\ \A n \in Seq : n < gseq => Stored(n)
        BY <2>1, <2>3, <3>1, <3>3 DEF Acknowledged
      <4>2. \A n \in Seq : n < gseq => Safe(n)
        BY <3>3 DEF Acknowledged
      <4>3. \A n \in Seq : n < gseq' => n < gseq \/ n = gseq
        BY <1>2, <2>3, <3>2
      <4>4. \A n \in Seq : n + 1 < gseq' => n < gseq
        BY <1>2, <2>3, <3>2
      <4> QED
        BY <1>3, <2>1, <4>1, <4>2, <4>3, <4>4 DEF Acknowledged
    <3> QED
      BY <1>1, <2>3, <3>3, FromGround
  <2>4. CASE gseq' = gseq /\ (gstate' = "off" \/ gstate' = gstate)
    <3>1. Acknowledged => Acknowledged'
      BY <1>3, <2>1, <2>4 DEF Acknowledged
    <3> QED
      BY <1>1, <2>1, <2>4, <3>1, FromGround
  <2> QED
    BY <1>6, <2>2, <2>3, <2>4 DEF GroundHear, ground
<1>7. CASE Spoil
  BY <1>7, Numbers DEF Spoil, Noisy, Undisturbed, TypeOK, GroundTypeOK
<1> QED
  BY <1>4, <1>5, <1>6, <1>7 DEF Outside

----------------------------------------------------------------------------
(* Frames.                                                                 *)

\* The page that is due follows those that were acknowledged: either it lies
\* in a sector that is erased, or it begins the next one.
LEMMA DueIsNext ==
  ASSUME Ongoing, Acknowledged, TypeOK, ~s_ota_pkt_ready,
         NEW n \in Seq, n <= gseq
  PROVE  Fw(n) <= s_next_fw_sector
<1>1. /\ s_state # "NEED_ERASE" /\ WrittenPage /\ FlashInStep
      /\ \A m \in Seq : m < gseq => Stored(m)
  BY DEF Ongoing, Erasing, Acknowledged, Safe
<1>2. Frontier = s_next_fw_sector /\ FW <= s_next_fw_sector
  BY <1>1 DEF Frontier, FlashInStep
<1>3. s_next_fw_sector \in Nat /\ gseq \in Nat /\ n \in Nat /\ FW \in Nat
  BY Pages, Numbers DEF TypeOK, ObcTypeOK, FsmTypeOK, GroundTypeOK, Seq
<1>4. CASE n = 0
  BY <1>2, <1>3, <1>4 DEF Fw
<1>5. CASE n # 0
  <2>1. n - 1 \in Seq /\ n - 1 < gseq
    BY <1>3, <1>5, Numbers DEF Seq
  <2>2. Stored(n - 1)
    BY <1>1, <2>1
  <2>3. Fw(n - 1) < s_next_fw_sector
    BY <1>1, <1>2, <2>2 DEF Stored, WrittenPage
  <2> QED
    BY <1>3, <2>3 DEF Fw
<1> QED
  BY <1>4, <1>5

\* A packet is staged, and acknowledged unless the transmitter is busy.
LEMMA DataHeard ==
  ASSUME Inner, Outer, TypeOK, ReceiveData, Quiet PROVE Inner'
<1>1. /\ up \in Packet /\ ota_data_started /\ up.seq # END
      /\ UNCHANGED <<fsm, memory, ota_data_started>>
  BY DEF ReceiveData, Arrives
<1>2. UNCHANGED <<gimage, gstate, gseq, ground>>
  BY DEF Quiet, ground
<1>3. UNCHANGED <<s_state, s_erase_addr, s_next_fw_sector, s_pending_seq,
                  s_write_buf, status, stage, running, cells, req, wp, able>>
  BY <1>1 DEF fsm, memory
<1>4. CASE UNCHANGED <<staging, down>>
  BY <1>1, <1>2, <1>4, NothingDone DEF ttc
<1>5. CASE s_state = "ERROR"
  BY <1>3, <1>5, AtRest DEF Session
<1>6. CASE /\ ~s_ota_pkt_ready /\ s_ota_pkt' = Staged(up) /\ s_ota_pkt_ready' = TRUE
           /\ Send([kind |-> "ACK", seq |-> up.seq]) /\ s_state # "ERROR"
  <2>1. /\ up.len = 1 /\ up.data = <<gimage, up.seq>> /\ up.seq <= gseq
        /\ up.seq \in Seq
    BY <1>1 DEF Outer, InOrder, Packet
  <2>2. s_ota_pkt'.seq = up.seq /\ s_ota_pkt'.len = 1 /\ s_ota_pkt'.data = up.data
    BY <1>6, <2>1 DEF Staged
  <2>3. s_state \in Receives /\ Ongoing /\ Acknowledged
    BY <1>1, <1>6 DEF Inner, Receiving
  <2>4. s_state # "NEED_ERASE" /\ WrittenPage /\ FlashInStep
    BY <1>6, <2>3 DEF Ongoing, Erasing
  <2>5. Frontier' = s_next_fw_sector /\ Frontier = s_next_fw_sector
    BY <1>3, <2>4 DEF Frontier
  <2>6. Fw(up.seq) <= s_next_fw_sector
    BY <1>6, <2>1, <2>3, DueIsNext
  <2>7. StagedPage'
    BY <1>2, <1>3, <2>1, <2>2, <2>5, <2>6 DEF StagedPage
  <2>8. WrittenPage' /\ Erasing'
    BY <1>2, <1>3, <2>4 DEF WrittenPage, Erasing
  <2>9. FlashInStep'
    <3>1. WriteUnderWay => WriteUnderWay'
      BY <1>2, <1>3 DEF WriteUnderWay, PageWritten, Fit, Right
    <3>2. FitTo(s_next_fw_sector) => FitTo(s_next_fw_sector)'
      BY <1>2, <1>3 DEF FitTo, Fit, Right
    <3> QED
      BY <1>3, <2>4, <2>5, <3>1, <3>2 DEF FlashInStep, SectorStart
  <2>10. \A n : Stored(n) => Stored(n)'
    BY <1>2, <1>3, <2>5 DEF Stored, Right
  <2>11. \A n \in Seq : n < gseq => Stored(n)
    BY <1>6, <2>3 DEF Acknowledged, Safe
  <2>12. \A n : n = up.seq \/ Stored(n) => Safe(n)'
    BY <1>6, <2>2, <2>10 DEF Safe
  <2>13. \A n : Safe(n) => Safe(n)'
    BY <1>6, <2>12 DEF Safe
  <2>14. down' = down \/ down' = [kind |-> "ACK", seq |-> up.seq]
    BY <1>6 DEF Send
  <2>15. Acknowledged'
    <3>1. \A n \in Seq : n < gseq' => Safe(n)'
      BY <1>2, <2>11, <2>12
    <3>2. \A n \in Seq : n + 1 < gseq' => Stored(n)'
      BY <1>2, <2>3, <2>10 DEF Acknowledged
    <3>3. ASSUME gstate' = "sending", down' # None,
                 down' = [kind |-> "ACK", seq |-> gseq']
          PROVE  Safe(gseq)'
      <4>1. CASE down' = down
        BY <1>2, <2>3, <2>13, <3>3, <4>1 DEF Acknowledged
      <4>2. CASE down' = [kind |-> "ACK", seq |-> up.seq]
        BY <1>2, <2>12, <3>3, <4>2
      <4> QED
        BY <2>14, <4>1, <4>2
    <3>4. \A n \in Seq : n < gseq' => Stored(n)'
      BY <1>2, <2>10, <2>11
    <3> QED
      BY <3>1, <3>2, <3>3, <3>4 DEF Acknowledged
  <2>16. Ongoing' /\ s_state' \in Receives /\ ota_data_started'
    BY <1>1, <1>3, <2>3, <2>7, <2>8, <2>9 DEF Ongoing
  <2> QED
    BY <2>15, <2>16 DEF Inner, Prepared, Receiving, Closing, Receives
<1> QED
  BY <1>4, <1>5, <1>6 DEF ReceiveData

\* The END packet is staged over what was staged, be that a page which was
\* acknowledged: it is the last page, for the ground has sent END after it.
LEMMA EndHeard ==
  ASSUME Inner, Outer, Sync, Types, ReceiveEnd, Quiet PROVE Inner'
<1>1. /\ up \in Packet /\ ota_data_started /\ ~ota_data_started' /\ up.seq = END
      /\ UNCHANGED <<fsm, memory>> /\ s_ota_pkt' = Staged(up)
      /\ Send([kind |-> "ACK", seq |-> END])
  BY DEF ReceiveEnd, Arrives
<1>2. UNCHANGED <<gimage, gstate, gseq>>
  BY DEF Quiet, ground
<1>3. UNCHANGED <<s_state, s_erase_addr, s_next_fw_sector, s_pending_seq,
                  s_write_buf, status, stage, running, cells, req, wp, able>>
  BY <1>1 DEF fsm, memory
<1>4. s_ota_pkt'.seq = END
  BY <1>1 DEF Staged
<1>5. gseq = ImagePages /\ gstate # "sending" /\ gseq > 0
  BY <1>1, Numbers DEF Outer, InOrder, Types, Counted
<1>6. down' # None => down'.kind # "READY"
  BY <1>1, <1>5 DEF Send, Outer, InOrder
<1>7. CASE s_state = "ERROR"
  BY <1>1, <1>3, <1>7, AtRest DEF Session
<1>8. CASE s_state # "ERROR"
  <2>1. s_state \in Receives /\ Ongoing /\ Acknowledged
    BY <1>1, <1>8 DEF Inner, Receiving
  <2>2. Erasing /\ WrittenPage /\ FlashInStep
    BY <2>1 DEF Ongoing
  <2>3. \A n \in Seq : Fw(n) \in Page /\ Fw(n) \in Nat
    BY Pages DEF Page
  <2>4. s_erase_addr \in Nat /\ s_next_fw_sector \in Nat
    BY DEF Types, TypeOK, ObcTypeOK, FsmTypeOK, Page
  <2>5. ASSUME NEW n \in Seq, n + 1 < gseq PROVE Stays(n)
    <3>1. Stored(n)
      BY <2>1, <2>5 DEF Acknowledged
    <3>2. CASE s_state = "NEED_ERASE"
      <4>1. /\ Fw(n) < s_erase_addr /\ Right(cells, n) /\ EraseUnderWay
            /\ s_erase_addr <= Fw(s_pending_seq)
        BY <2>2, <3>1, <3>2 DEF Stored, Frontier, Erasing, FlashInStep
      <4>2. running # NoReq => Right(running, n)
        BY <4>1 DEF EraseUnderWay, Right
      <4>3. ASSUME stage = "queued" PROVE Fw(n) \notin Flash!Footprint(req)
        <5>1. /\ req = [op |-> "erase", at |-> s_erase_addr]
              /\ SectorStart(s_erase_addr)
          BY <4>1, <4>3 DEF EraseUnderWay
        <5>2. ~(s_erase_addr <= Fw(n))
          BY <2>3, <2>4, <4>1
        <5>3. Flash!SectorOf(Fw(n)) # Flash!SectorOf(s_erase_addr)
          BY <2>3, <2>4, <5>1, <5>2, SectorPages
        <5> QED
          BY <5>1, <5>3 DEF Flash!Footprint
      <4>4. s_pending_seq # n
        BY <2>3, <2>4, <4>1
      <4> QED
        BY <4>1, <4>2, <4>3, <4>4 DEF Stays, OnFlash
    <3>3. CASE s_state = "WAIT_PKT"
      <4>1. stage = "none" /\ running = NoReq
        BY <3>3 DEF Sync, Types, TypeOK, ObcTypeOK, MemoryTypeOK
      <4> QED
        BY <3>1, <3>3, <4>1 DEF Stored, Stays, OnFlash
    <3>4. CASE s_state = "WRITE_PKT"
      <4>1. stage = "none" /\ running = NoReq
        BY <3>4 DEF Sync, Types, TypeOK, ObcTypeOK, MemoryTypeOK
      <4>2. CASE s_pending_seq = n
        <5>1. Fit(cells, n) /\ s_write_buf = <<gimage, n>>
          BY <2>2, <3>4, <4>2 DEF WrittenPage, FlashInStep, FitTo
        <5> QED
          BY <3>4, <4>2, <5>1 DEF Stays, Writing
      <4>3. CASE s_pending_seq # n
        BY <3>1, <4>1, <4>3 DEF Stored, Stays, OnFlash
      <4> QED
        BY <4>2, <4>3
    <3>5. CASE s_state = "WAIT_WRITE"
      <4>1. WriteUnderWay /\ WrittenPage
        BY <2>2, <3>5 DEF FlashInStep
      <4>2. CASE s_pending_seq = n
        <5>1. PageWritten(n) /\ s_write_buf = <<gimage, n>>
          BY <3>5, <4>1, <4>2 DEF WriteUnderWay, WrittenPage
        <5> QED
          BY <3>5, <4>2, <5>1 DEF Stays, Writing
      <4>3. CASE s_pending_seq # n
        <5>1. Right(cells, n)
          BY <3>1, <4>3 DEF Stored
        <5>2. running # NoReq => Right(running, n)
          BY <4>1, <4>3, <5>1 DEF WriteUnderWay, Right
        <5>3. Fw(n) # Fw(s_pending_seq)
          BY <3>5, <4>1, <4>3, Numbers DEF WrittenPage, Fw, FW, Seq
        <5>4. stage = "queued" => Fw(n) \notin Flash!Footprint(req)
          BY <4>1, <5>3 DEF WriteUnderWay, PageWritten, Flash!Footprint
        <5> QED
          BY <3>5, <5>1, <5>2, <5>4 DEF Stays, OnFlash
      <4> QED
        BY <4>2, <4>3
    <3> QED
      BY <2>1, <3>2, <3>3, <3>4, <3>5 DEF Receives
  <2>6. \A n \in Seq : n + 1 < gseq' => Stays(n)'
    <3>1. \A n : Stays(n) => Stays(n)'
      BY <1>2, <1>3 DEF Stays, OnFlash, Writing, PageWritten, Fit, Right
    <3> QED
      BY <1>2, <2>5, <3>1
  <2>7. Closing'
    BY <1>2, <1>4, <1>5, <1>6, <2>6 DEF Closing
  <2>8. s_state' # "WAIT_ERASE"
    BY <1>3, <2>1 DEF Receives
  <2> QED
    BY <1>1, <2>7, <2>8 DEF Inner, Prepared, Receiving
<1> QED
  BY <1>7, <1>8

LEMMA InnerHeard ==
  ASSUME Inner, Outer, Sync, Types, Heard, Quiet PROVE Inner'
<1>1. UNCHANGED <<ground, memory>>
  BY DEF Quiet, Heard, ReceiveCommand, SwallowCommand, StrayIgnored,
         ReceiveData, ReceiveEnd, Arrives
<1>2. CASE ReceiveCommand
  <2>1. ~ota_data_started /\ UNCHANGED down
    BY <1>2 DEF ReceiveCommand
  <2>2. CASE StartOta
    <3>1. ~ota_data_started' /\ s_state' = "IDLE"
      BY <2>2 DEF StartOta, Abort
    <3> QED
      BY <3>1, AtRest DEF Session
  <2>3. CASE EndOta
    <3>1. UNCHANGED <<fsm, ttc>>
      BY <2>1, <2>3 DEF EndOta, ttc, Types, TypeOK, ObcTypeOK, TtcTypeOK
    <3> QED
      BY <1>1, <2>1, <3>1, NothingDone
  <2> QED
    BY <1>2, <2>2, <2>3 DEF ReceiveCommand, Obey
<1>3. CASE SwallowCommand \/ StrayIgnored
  BY <1>1, <1>3, NothingDone DEF SwallowCommand, StrayIgnored
<1>4. CASE ReceiveData
  BY <1>4, DataHeard DEF Types
<1>5. CASE ReceiveEnd
  BY <1>5, EndHeard
<1> QED
  BY <1>2, <1>3, <1>4, <1>5 DEF Heard

----------------------------------------------------------------------------
(* The memory.                                                             *)

\* What the memory does to a session, from what it does to an erase, to a
\* write, and to the pages that are safe from both.
LEMMA MemoryKeeps ==
  ASSUME Inner, Types, UNCHANGED <<fsm, ttc, link, ground>>,
         EraseUnderWay /\ s_erase_addr >= FW => EraseUnderWay',
         WriteUnderWay /\ WrittenPage /\ s_state = "WAIT_WRITE" => WriteUnderWay',
         ota_data_started /\ s_state \in Receives =>
           /\ s_state \in {"NEED_ERASE", "WAIT_WRITE"} \/ UNCHANGED cells
           /\ \A n \in Seq : Stored(n) => Stored(n)',
         \A n \in Seq : s_state \in Session /\ Stays(n) => Stays(n)'
  PROVE  Inner'
<1>1. UNCHANGED <<gimage, gstate, gseq, up, down, s_state, s_erase_addr,
                  s_next_fw_sector, s_pending_seq, s_write_buf,
                  ota_data_started, s_ota_pkt_ready, s_ota_pkt>>
  BY DEF ground, link, fsm, ttc, staging
<1>2. Frontier' = Frontier
  BY <1>1 DEF Frontier
<1>3. Prepared'
  BY <1>1, Pages DEF Inner, Prepared
<1>4. ASSUME ota_data_started, s_state \in Receives
      PROVE  Ongoing' /\ Acknowledged'
  <2>1. Erasing /\ StagedPage /\ WrittenPage /\ FlashInStep /\ Acknowledged
    BY <1>4 DEF Inner, Receiving, Ongoing
  <2>2. Erasing' /\ StagedPage' /\ WrittenPage'
    BY <1>1, <1>2, <2>1 DEF Erasing, StagedPage, WrittenPage
  <2>3. s_state \notin {"NEED_ERASE", "WAIT_WRITE"} =>
          (FitTo(s_next_fw_sector) => FitTo(s_next_fw_sector)')
    BY <1>1, <1>4 DEF FitTo, Fit, Right
  <2>4. s_state = "NEED_ERASE" => s_erase_addr >= FW
    BY <2>1 DEF FlashInStep, Frontier
  <2>5. FlashInStep'
    BY <1>1, <1>2, <1>4, <2>1, <2>3, <2>4 DEF FlashInStep, SectorStart
  <2>6. \A n \in Seq : (Stored(n) => Stored(n)') /\ (Safe(n) => Safe(n)')
    BY <1>1, <1>4 DEF Safe
  <2>7. Acknowledged'
    <3>1. \A n \in Seq : n < gseq' => Safe(n)'
      BY <1>1, <2>1, <2>6 DEF Acknowledged
    <3>2. \A n \in Seq : n + 1 < gseq' => Stored(n)'
      BY <1>1, <2>1, <2>6 DEF Acknowledged
    <3>3. ASSUME gstate' = "sending", down' # None,
                 down' = [kind |-> "ACK", seq |-> gseq']
          PROVE  Safe(gseq)' /\ (\A n \in Seq : n < gseq' => Stored(n)')
      <4>1. Safe(gseq) /\ (\A n \in Seq : n < gseq => Stored(n))
        BY <1>1, <2>1, <3>3 DEF Acknowledged
      <4>2. gseq \in Seq
        BY <1>1, <3>3, DueIsPage DEF Types
      <4> QED
        BY <1>1, <2>6, <4>1, <4>2
    <3> QED
      BY <3>1, <3>2, <3>3 DEF Acknowledged
  <2> QED
    BY <2>2, <2>5, <2>7 DEF Ongoing
<1>5. Receiving'
  BY <1>1, <1>4 DEF Inner, Receiving
<1>6. Closing'
  BY <1>1 DEF Inner, Closing
<1> QED
  BY <1>3, <1>5, <1>6 DEF Inner

\* The chip begins what it was asked.
LEMMA InnerIssue ==
  ASSUME Inner, Types, Sync, stage = "queued", Flash!Issue(Buffer),
         UNCHANGED <<fsm, ttc, link, ground>>
  PROVE  Inner'
<1> DEFINE flux == Flash!InFlux(cells, req)
           left == Flash!Result(cells, req, Buffer)
<1>1. /\ stage' = "issued" /\ running = NoReq
      /\ running' = left /\ cells' = flux
      /\ UNCHANGED <<status, req, wp, able>>
  BY DEF Flash!Issue
<1>2. UNCHANGED <<gimage, s_state, s_erase_addr, s_next_fw_sector, s_pending_seq,
                  s_write_buf, ota_data_started, s_ota_pkt_ready, s_ota_pkt>>
  BY DEF ground, fsm, ttc, staging
<1>3. s_state \notin {"WAIT_PKT", "WRITE_PKT"}
  BY <1>1 DEF Sync
<1>4. running' # NoReq
  <2>1. running' \in [Page -> Content]
    BY <1>1, ResultTypes, BufferTypes DEF Types, TypeOK, ObcTypeOK
  <2> QED
    BY <2>1, NothingAssumption
<1>5. s_erase_addr \in Nat /\ s_next_fw_sector \in Nat /\ FW > META
  BY Pages DEF Types, TypeOK, ObcTypeOK, FsmTypeOK, Page
<1>6. ASSUME EraseUnderWay
      PROVE  /\ EraseUnderWay'
             /\ \A n \in Seq : Fw(n) < s_erase_addr => flux[Fw(n)] = cells[Fw(n)]
  <2>1. /\ req = [op |-> "erase", at |-> s_erase_addr] /\ SectorStart(s_erase_addr)
        /\ s_next_fw_sector = s_erase_addr + PagesPerSector /\ FitTo(s_erase_addr)
    BY <1>6 DEF EraseUnderWay
  <2>2. \A n \in Seq : Fw(n) < s_erase_addr =>
          left[Fw(n)] = cells[Fw(n)] /\ flux[Fw(n)] = cells[Fw(n)]
    BY <1>5, <2>1, EraseResult
  <2>3. \A n \in Seq : s_erase_addr <= Fw(n) /\ Fw(n) < s_next_fw_sector =>
          left[Fw(n)] = Blank
    BY <1>5, <2>1, EraseResult
  <2> HIDE DEF flux, left
  <2>4. FitTo(s_erase_addr)'
    BY <1>1, <1>2, <2>1, <2>2 DEF FitTo, Fit, Right
  <2>5. EraseUnderWay'
    BY <1>1, <1>2, <1>4, <2>1, <2>2, <2>3, <2>4 DEF EraseUnderWay, SectorStart
  <2> QED
    BY <2>2, <2>5
\* The page of the write, and any other.
<1>7. ASSUME NEW k \in Seq, PageWritten(k), s_write_buf = <<gimage, k>>
      PROVE  /\ PageWritten(k)'
             /\ \A n \in Seq \ {k} : left[Fw(n)] = cells[Fw(n)]
                                     /\ flux[Fw(n)] = cells[Fw(n)]
  <2>1. req = [op |-> "write", at |-> Fw(k)] /\ Fit(cells, k)
    BY <1>7 DEF PageWritten
  <2>2. Buffer = <<gimage, k>>
    BY <1>7, <2>1, Pages DEF Buffer
  <2>3. /\ Right(left, k)
        /\ \A n \in Seq \ {k} : left[Fw(n)] = cells[Fw(n)] /\ flux[Fw(n)] = cells[Fw(n)]
    BY <1>7, <2>1, <2>2, WriteResult
  <2> HIDE DEF flux, left
  <2>4. PageWritten(k)'
    BY <1>1, <1>2, <1>4, <2>3 DEF PageWritten, Right
  <2> QED
    BY <2>3, <2>4
<1>8. ASSUME WriteUnderWay, WrittenPage, s_state = "WAIT_WRITE"
      PROVE  /\ WriteUnderWay'
             /\ \A n \in Seq \ {s_pending_seq} : flux[Fw(n)] = cells[Fw(n)]
  <2>1. /\ PageWritten(s_pending_seq) /\ s_pending_seq \in Seq
        /\ s_write_buf = <<gimage, s_pending_seq>>
        /\ \A n \in Seq \ {s_pending_seq} : Fw(n) < s_next_fw_sector => Fit(cells, n)
    BY <1>8 DEF WriteUnderWay, WrittenPage
  <2>2. /\ PageWritten(s_pending_seq)'
        /\ \A n \in Seq \ {s_pending_seq} : left[Fw(n)] = cells[Fw(n)]
                                             /\ flux[Fw(n)] = cells[Fw(n)]
    BY <1>2, <1>7, <2>1
  <2> HIDE DEF flux, left
  <2>3. WriteUnderWay'
    BY <1>1, <1>2, <2>1, <2>2 DEF WriteUnderWay, Fit, Right
  <2> QED
    BY <2>2, <2>3
<1>9. ASSUME ota_data_started, s_state \in Receives
      PROVE  /\ s_state \in {"NEED_ERASE", "WAIT_WRITE"}
             /\ \A n \in Seq : Stored(n) => Stored(n)'
  <2>1. Ongoing /\ s_state \in {"NEED_ERASE", "WAIT_WRITE"}
    BY <1>3, <1>9 DEF Inner, Receiving, Receives
  <2>2. CASE s_state = "NEED_ERASE"
    <3>1. EraseUnderWay
      BY <2>1, <2>2 DEF Ongoing, FlashInStep
    <3>2. \A n \in Seq : Fw(n) < s_erase_addr => flux[Fw(n)] = cells[Fw(n)]
      BY <1>6, <3>1
    <3> HIDE DEF flux
    <3>3. \A n \in Seq : Stored(n) => Stored(n)'
      BY <1>1, <1>2, <2>2, <3>2 DEF Stored, Frontier, Right
    <3> QED
      BY <2>1, <3>3
  <2>3. CASE s_state = "WAIT_WRITE"
    <3>1. \A n \in Seq \ {s_pending_seq} : flux[Fw(n)] = cells[Fw(n)]
      BY <1>8, <2>1, <2>3 DEF Ongoing, FlashInStep
    <3> HIDE DEF flux
    <3>2. \A n \in Seq : Stored(n) => Stored(n)'
      BY <1>1, <1>2, <2>3, <3>1 DEF Stored, Frontier, Right
    <3> QED
      BY <2>1, <3>2
  <2> QED
    BY <2>1, <2>2, <2>3
<1>10. ASSUME NEW n \in Seq, Stays(n) PROVE Stays(n)'
  <2>1. CASE OnFlash(n)
    <3>1. Right(cells, n) /\ Fw(n) \notin Flash!Footprint(req) /\ Fw(n) \in Page
      BY <2>1, Pages DEF OnFlash
    <3>2. left[Fw(n)] = cells[Fw(n)] /\ flux[Fw(n)] = cells[Fw(n)]
      BY <3>1 DEF Flash!Result, Flash!InFlux
    <3> HIDE DEF flux, left
    <3> QED
      BY <1>1, <1>2, <1>3, <2>1, <3>1, <3>2 DEF Stays, OnFlash, Right
  <2>2. CASE Writing(n)
    <3>1. PageWritten(n) /\ s_write_buf = <<gimage, n>> /\ s_pending_seq = n
      BY <1>3, <2>2 DEF Writing
    <3>2. PageWritten(n)'
      BY <1>7, <3>1
    <3> QED
      BY <1>2, <1>3, <2>2, <3>1, <3>2 DEF Stays, Writing
  <2> QED
    BY <1>10, <2>1, <2>2 DEF Stays
<1> HIDE DEF flux, left
<1> QED
  BY <1>6, <1>8, <1>9, <1>10, MemoryKeeps

\* The chip is done: what was running is on the flash.
LEMMA InnerFinish ==
  ASSUME Inner, Types, Sync, ChipFinish, Quiet
  PROVE  Inner'
<1>1. /\ running # NoReq /\ cells' = running /\ running' = NoReq
      /\ UNCHANGED <<status, req, stage, wp, able>>
  BY DEF ChipFinish, Flash!Finish
<1>2. UNCHANGED <<fsm, ttc, link, ground>>
  BY DEF ChipFinish, Quiet
<1>3. UNCHANGED <<gimage, s_state, s_erase_addr, s_next_fw_sector, s_pending_seq,
                  s_write_buf, ota_data_started, s_ota_pkt_ready, s_ota_pkt>>
  BY <1>2 DEF ground, fsm, ttc, staging
<1>4. s_state \notin {"WAIT_PKT", "WRITE_PKT"}
  BY <1>1 DEF Sync
<1>5. /\ s_erase_addr \in Nat /\ s_next_fw_sector \in Nat
      /\ \A n \in Seq : Fw(n) \in Nat
  BY Pages DEF Types, TypeOK, ObcTypeOK, FsmTypeOK, Page
<1>6. ASSUME EraseUnderWay PROVE EraseUnderWay'
  <2>1. /\ \A n \in Seq : Fw(n) < s_erase_addr => running[Fw(n)] = cells[Fw(n)]
        /\ \A n \in Seq : s_erase_addr <= Fw(n) /\ Fw(n) < s_next_fw_sector =>
                            running[Fw(n)] = Blank
        /\ FitTo(s_erase_addr)
    BY <1>1, <1>6 DEF EraseUnderWay
  <2>2. \A n \in Seq : Fw(n) < s_next_fw_sector =>
          Fw(n) < s_erase_addr \/ s_erase_addr <= Fw(n)
    BY <1>5
  <2>3. FitTo(s_next_fw_sector)' /\ FitTo(s_erase_addr)'
    BY <1>1, <1>3, <1>6, <2>1, <2>2 DEF FitTo, Fit, Right
  <2> QED
    BY <1>1, <1>3, <1>6, <2>3 DEF EraseUnderWay, SectorStart
<1>7. \A n : PageWritten(n) => PageWritten(n)'
  BY <1>1, <1>3 DEF PageWritten, Fit, Right
<1>8. WriteUnderWay => WriteUnderWay'
  BY <1>1, <1>3, <1>7 DEF WriteUnderWay, Fit, Right
<1>9. ASSUME ota_data_started, s_state \in Receives
      PROVE  /\ s_state \in {"NEED_ERASE", "WAIT_WRITE"}
             /\ \A n \in Seq : Stored(n) => Stored(n)'
  <2>1. Ongoing /\ s_state \in {"NEED_ERASE", "WAIT_WRITE"}
    BY <1>4, <1>9 DEF Inner, Receiving, Receives
  <2>2. CASE s_state = "NEED_ERASE"
    <3>1. \A n \in Seq : Fw(n) < s_erase_addr => running[Fw(n)] = cells[Fw(n)]
      BY <1>1, <2>1, <2>2 DEF Ongoing, FlashInStep, EraseUnderWay
    <3>2. \A n \in Seq : Stored(n) => Stored(n)'
      BY <1>1, <1>3, <2>2, <3>1 DEF Stored, Frontier, Right
    <3> QED
      BY <2>1, <3>2
  <2>3. CASE s_state = "WAIT_WRITE"
    <3>1. \A n \in Seq \ {s_pending_seq} : running[Fw(n)] = cells[Fw(n)]
      BY <1>1, <2>1, <2>3 DEF Ongoing, FlashInStep, WriteUnderWay
    <3>2. \A n \in Seq : Stored(n) => Stored(n)'
      BY <1>1, <1>3, <2>3, <3>1 DEF Stored, Frontier, Right
    <3> QED
      BY <2>1, <3>2
  <2> QED
    BY <2>1, <2>2, <2>3
<1>10. ASSUME NEW n \in Seq, Stays(n) PROVE Stays(n)'
  <2>1. CASE OnFlash(n)
    BY <1>1, <1>3, <2>1 DEF Stays, OnFlash, Right
  <2>2. CASE Writing(n)
    BY <1>3, <1>4, <1>7, <2>2 DEF Stays, Writing
  <2> QED
    BY <1>10, <2>1, <2>2 DEF Stays
<1> QED
  BY <1>2, <1>6, <1>8, <1>9, <1>10, MemoryKeeps

\* The driver: an unprotected chip ignores nothing that a session asks for
\* once it has begun, and a failure is reported.
LEMMA InnerMemTick ==
  ASSUME Inner, Able, Types, Sync, ~wp, MemTick, Quiet
  PROVE  Inner'
<1>1. UNCHANGED <<fsm, ttc, link, ground>>
  BY DEF MemTick, Quiet
<1>2. UNCHANGED <<gimage, s_state, s_erase_addr, s_next_fw_sector, s_pending_seq,
                  s_write_buf, ota_data_started, s_ota_pkt_ready, s_ota_pkt>>
  BY <1>1 DEF ground, fsm, ttc, staging
<1>3. CASE stage = "queued" /\ Flash!Issue(Buffer)
  BY <1>1, <1>3, InnerIssue
<1>4. CASE Flash!Ignored \/ Flash!Report \/ Flash!Fail
  <2>1. UNCHANGED <<running, cells>> /\ stage' # "queued"
    BY <1>4 DEF Flash!Ignored, Flash!Report, Flash!Fail
  <2>2. \A n : Stored(n) => Stored(n)'
    BY <1>2, <2>1 DEF Stored, Frontier, Right
  <2>3. \/ stage = "queued" /\ req.at = META
        \/ stage # "queued" /\ status # "error"
        \/ status' = "error"
    <3>1. CASE Flash!Ignored
      BY <3>1 DEF Flash!Ignored, Able
    <3>2. CASE Flash!Report
      BY <3>2 DEF Flash!Report, Sync
    <3>3. CASE Flash!Fail
      BY <3>3 DEF Flash!Fail
    <3> QED
      BY <1>4, <3>1, <3>2, <3>3
  <2>4. ASSUME EraseUnderWay, s_erase_addr >= FW PROVE EraseUnderWay'
    <3>1. s_erase_addr # META
      BY <2>4, Pages DEF META
    <3>2. stage = "queued" => req.at # META
      BY <2>4, <3>1 DEF EraseUnderWay
    <3> QED
      BY <1>2, <2>1, <2>3, <2>4, <3>2 DEF EraseUnderWay, FitTo, Fit, Right, SectorStart
  <2>5. ASSUME NEW n \in Seq, PageWritten(n) PROVE PageWritten(n)'
    <3>1. stage = "queued" => req.at # META
      BY <2>5, Pages DEF PageWritten
    <3> QED
      BY <1>2, <2>1, <2>3, <2>5, <3>1 DEF PageWritten, Right
  <2>6. WriteUnderWay /\ WrittenPage /\ s_state = "WAIT_WRITE" => WriteUnderWay'
    BY <1>2, <2>1, <2>5 DEF WriteUnderWay, WrittenPage, Fit, Right
  <2>7. ASSUME NEW n \in Seq, Stays(n) PROVE Stays(n)'
    <3>1. OnFlash(n) => OnFlash(n)'
      BY <1>2, <2>1 DEF OnFlash, Right
    <3>2. Writing(n) => Writing(n)'
      BY <1>2, <2>1, <2>5 DEF Writing, Fit, Right
    <3> QED
      BY <2>7, <3>1, <3>2 DEF Stays
  <2> QED
    BY <1>1, <2>1, <2>2, <2>4, <2>6, <2>7, MemoryKeeps
<1> QED
  BY <1>3, <1>4 DEF MemTick

----------------------------------------------------------------------------
(* The handlers.                                                           *)

\* A session that receives goes on receiving.
LEMMA SessionKeeps ==
  ASSUME Inner, Types, ota_data_started, s_state \in Receives,
         UNCHANGED <<ground, link, ota_data_started>>,
         s_state' \in Receives, Ongoing',
         \A n \in Seq : (Safe(n) => Safe(n)') /\ (Stored(n) => Stored(n)')
  PROVE  Inner'
<1>1. UNCHANGED <<gstate, gseq, down>>
  BY DEF ground, link
<1>2. Acknowledged
  BY DEF Inner, Receiving
<1>3. Acknowledged'
  <2>1. \A n \in Seq : n < gseq' => Safe(n)'
    BY <1>1, <1>2 DEF Acknowledged
  <2>2. \A n \in Seq : n + 1 < gseq' => Stored(n)'
    BY <1>1, <1>2 DEF Acknowledged
  <2>3. ASSUME gstate' = "sending", down' # None,
               down' = [kind |-> "ACK", seq |-> gseq']
        PROVE  Safe(gseq)' /\ (\A n \in Seq : n < gseq' => Stored(n)')
    <3>1. Safe(gseq) /\ (\A n \in Seq : n < gseq => Stored(n))
      BY <1>1, <1>2, <2>3 DEF Acknowledged
    <3>2. gseq \in Seq
      BY <1>1, <2>3, DueIsPage DEF Types
    <3> QED
      BY <1>1, <3>1, <3>2
  <2> QED
    BY <2>1, <2>2, <2>3 DEF Acknowledged
<1>4. s_state' # "WAIT_ERASE"
  BY DEF Receives
<1> QED
  BY <1>3, <1>4 DEF Inner, Prepared, Receiving, Closing

\* A session that has heard END goes on closing.
LEMMA ClosingStep ==
  ASSUME Inner, ~ota_data_started, s_state \in Session,
         UNCHANGED <<ground, link, ota_data_started>>,
         s_state' # "WAIT_ERASE",
         s_ota_pkt_ready' => s_ota_pkt_ready /\ s_ota_pkt' = s_ota_pkt,
         \A n \in Seq : Stays(n) => Stays(n)'
  PROVE  Inner'
<1>1. UNCHANGED <<gstate, gseq, down>>
  BY DEF ground, link
<1>2. Closing'
  BY <1>1 DEF Inner, Closing
<1> QED
  BY <1>2 DEF Inner, Prepared, Receiving

LEMMA InnerIdle ==
  ASSUME Outer, OtaIdle PROVE Inner'
<1>1. /\ s_state = "IDLE" /\ s_state' = "WAIT_ERASE" /\ s_erase_addr' = META
      /\ UNCHANGED ota_data_started
  BY DEF OtaIdle, BeginSession, In, Goto, ttc
<1>2. ~ota_data_started'
  BY <1>1 DEF Outer, Waiting
<1> QED
  BY <1>1, <1>2 DEF Inner, Prepared, Receiving, Closing, Session

LEMMA InnerFirst ==
  ASSUME Outer, Sync, OtaWaitEraseFirst PROVE Inner'
<1>1. /\ s_state = "WAIT_ERASE" /\ status = "idle" /\ s_state' = s_state
      /\ s_erase_addr' = FW /\ s_next_fw_sector' = FW + PagesPerSector
      /\ Ask([op |-> "erase", at |-> FW]) /\ UNCHANGED ota_data_started
  BY DEF OtaWaitEraseFirst, In, Erase, ttc
<1>2. ~ota_data_started'
  BY <1>1 DEF Outer, Waiting
<1>3. stage' = "queued" /\ req' = [op |-> "erase", at |-> FW] /\ running' = NoReq
  BY <1>1, AskResult
<1>4. EraseUnderWay'
  <2>1. \A n \in Seq : ~(Fw(n) < FW)
    BY Pages, Numbers DEF Fw, Seq
  <2>2. FitTo(s_erase_addr)'
    BY <1>1, <2>1 DEF FitTo
  <2>3. SectorStart(s_erase_addr)'
    BY <1>1, FirstStart DEF SectorStart
  <2> QED
    BY <1>1, <1>3, <2>2, <2>3 DEF EraseUnderWay
<1> QED
  BY <1>1, <1>2, <1>4 DEF Inner, Prepared, Receiving, Closing, Session

LEMMA InnerReady ==
  ASSUME Inner, Outer, Sync, Types, OtaWaitEraseReady, Quiet PROVE Inner'
<1>1. /\ s_state = "WAIT_ERASE" /\ status = "idle" /\ s_state' = "WAIT_PKT"
      /\ s_erase_addr >= FW /\ ota_data_started' = TRUE
      /\ UNCHANGED <<memory, staging, s_erase_addr, s_next_fw_sector>>
      /\ Send([kind |-> "READY"])
  BY DEF OtaWaitEraseReady, In, Goto
<1>2. UNCHANGED <<gimage, gstate, gseq, s_ota_pkt_ready, cells>>
  BY <1>1 DEF Quiet, ground, staging, memory
<1>3. Unheard /\ ~s_ota_pkt_ready
  BY <1>1 DEF Outer, Waiting, Beginning
<1>4. s_erase_addr = FW /\ EraseUnderWay
  <2>1. s_erase_addr # META
    BY <1>1, Pages DEF META
  <2> QED
    BY <1>1, <2>1 DEF Inner, Prepared
<1>5. stage = "none" /\ running = NoReq
  BY <1>1 DEF Sync, Types, TypeOK, ObcTypeOK, MemoryTypeOK
<1>6. /\ FitTo(s_next_fw_sector) /\ SectorStart(FW)
      /\ s_next_fw_sector = FW + PagesPerSector
  BY <1>1, <1>4, <1>5 DEF EraseUnderWay
<1>7. down' = down \/ down' = [kind |-> "READY"]
  BY <1>1 DEF Send
<1>8. Erasing' /\ StagedPage' /\ WrittenPage'
  BY <1>1, <1>2, <1>3 DEF Erasing, StagedPage, WrittenPage
<1>9. FlashInStep'
  <2>1. SectorStart(s_next_fw_sector)'
    BY <1>1, <1>6, NextStart, Pages DEF SectorStart
  <2>2. FitTo(s_next_fw_sector)'
    BY <1>1, <1>2, <1>6 DEF FitTo, Fit, Right
  <2>3. FW <= Frontier'
    BY <1>1, <1>6, Pages, Numbers DEF Frontier
  <2> QED
    BY <1>1, <2>1, <2>2, <2>3 DEF FlashInStep
<1>10. Acknowledged'
  <2>1. gseq' = 0 /\ (gstate' = "sending" /\ down' # None => down'.kind # "ACK")
    BY <1>2, <1>3, <1>7 DEF Unheard
  <2>2. \A n \in Seq : ~(n < 0) /\ ~(n + 1 < 0)
    BY Numbers DEF Seq
  <2> QED
    BY <2>1, <2>2 DEF Acknowledged
<1>11. s_state' \in Receives /\ s_state' # "WAIT_ERASE"
  BY <1>1 DEF Receives
<1> QED
  BY <1>1, <1>8, <1>9, <1>10, <1>11 DEF Inner, Prepared, Receiving, Closing, Ongoing

\* The session waits for a packet, or gives it up.
LEMMA InnerWaitPkt ==
  ASSUME Inner, Types, OtaWaitPktNone, Quiet PROVE Inner'
<1>1. /\ s_state = "WAIT_PKT" /\ s_state' \in {"WAIT_PKT", "ERROR"}
      /\ UNCHANGED <<ttc, memory, link, s_erase_addr, s_next_fw_sector, s_bytes_written,
                     s_meta, s_write_buf, s_pending_seq>>
  BY DEF OtaWaitPktNone, In, Goto
<1>2. CASE s_state' = "WAIT_PKT"
  BY <1>1, <1>2, NothingDone DEF fsm, Quiet, link
<1>3. CASE s_state' = "ERROR"
  BY <1>3, AtRest DEF Session
<1> QED
  BY <1>1, <1>2, <1>3

LEMMA InnerPktErase ==
  ASSUME Inner, Sync, Types, OtaWaitPktErase, Quiet PROVE Inner'
<1>1. /\ s_state = "WAIT_PKT" /\ s_state' = "NEED_ERASE"
      /\ s_ota_pkt_ready /\ s_pending_seq' = s_ota_pkt.seq /\ NeedsErase
      /\ s_ota_pkt.seq # END
      /\ s_erase_addr' = s_next_fw_sector
      /\ s_next_fw_sector' = s_next_fw_sector + PagesPerSector
      /\ Ask([op |-> "erase", at |-> s_next_fw_sector])
      /\ UNCHANGED <<s_ota_pkt_ready, s_ota_pkt, ota_data_started, link>>
  BY DEF OtaWaitPktErase, TakePacket, In, Goto, Erase
<1>2. UNCHANGED <<ground, gimage, link>>
  BY <1>1 DEF Quiet, ground
<1>3. status = "idle"
  BY <1>1 DEF Sync
<1>4. /\ stage' = "queued" /\ running' = NoReq /\ cells' = cells
      /\ req' = [op |-> "erase", at |-> s_next_fw_sector]
  BY <1>1, <1>3, AskResult
<1>5. ota_data_started
  BY <1>1 DEF Inner, Closing, Session
<1>6. Ongoing /\ s_state \in Receives /\ s_state' \in Receives
  BY <1>1, <1>5 DEF Inner, Receiving, Receives
<1>7. StagedPage /\ FlashInStep
  BY <1>6 DEF Ongoing
<1>8. Frontier = s_next_fw_sector /\ Frontier' = s_next_fw_sector
  BY <1>1 DEF Frontier
<1>9. /\ SectorStart(s_next_fw_sector) /\ FitTo(s_next_fw_sector)
      /\ FW <= s_next_fw_sector
  BY <1>1, <1>7, <1>8 DEF FlashInStep
<1>10. Erasing' /\ StagedPage' /\ WrittenPage'
  BY <1>1, <1>2, <1>7, <1>8 DEF Erasing, StagedPage, WrittenPage, NeedsErase
<1>11. EraseUnderWay'
  <2>1. FitTo(s_erase_addr)' /\ SectorStart(s_erase_addr)'
    BY <1>1, <1>2, <1>4, <1>9 DEF FitTo, Fit, Right, SectorStart
  <2> QED
    BY <1>1, <1>4, <2>1 DEF EraseUnderWay
<1>12. SectorStart(s_next_fw_sector)'
  BY <1>1, <1>9, NextStart DEF SectorStart, Types, TypeOK, ObcTypeOK, FsmTypeOK
<1>13. FlashInStep'
  BY <1>1, <1>8, <1>9, <1>11, <1>12 DEF FlashInStep
<1>14. \A n \in Seq : Stored(n) => Stored(n)'
  BY <1>1, <1>2, <1>4, <1>8 DEF Stored, Right
<1>15. \A n \in Seq : Safe(n) => Safe(n)'
  BY <1>1, <1>14 DEF Safe
<1> QED
  BY <1>1, <1>2, <1>5, <1>6, <1>10, <1>13, <1>14, <1>15, SessionKeeps DEF Ongoing

\* A page goes from the staging buffer to the write buffer: the same whether
\* its sector has just been erased or was erased before.
LEMMA PageTaken ==
  ASSUME Inner, Types, ota_data_started, Quiet,
         s_ota_pkt_ready, s_pending_seq' = s_ota_pkt.seq,
         s_write_buf' = s_ota_pkt.data, ~s_ota_pkt_ready', s_state' = "WRITE_PKT",
         s_state \in {"WAIT_PKT", "NEED_ERASE"},
         UNCHANGED <<memory, link, ota_data_started, s_next_fw_sector>>,
         Fw(s_ota_pkt.seq) < s_next_fw_sector, FW <= s_next_fw_sector,
         SectorStart(s_next_fw_sector), FitTo(s_next_fw_sector),
         s_state = "NEED_ERASE" => s_erase_addr < s_next_fw_sector
  PROVE  Inner'
<1>1. UNCHANGED <<gimage, cells>>
  BY DEF Quiet, ground, memory
<1>2. StagedPage /\ s_state \in Receives /\ s_state' \in Receives
  BY DEF Inner, Receiving, Receives, Ongoing
<1>3. Frontier' = s_next_fw_sector
  BY DEF Frontier
<1>4. Erasing' /\ StagedPage' /\ WrittenPage'
  BY <1>1, <1>2 DEF Erasing, StagedPage, WrittenPage
<1>5. FlashInStep'
  BY <1>1, <1>3 DEF FlashInStep, SectorStart, FitTo, Fit, Right
<1>6. s_next_fw_sector \in Nat /\ s_erase_addr \in Nat /\ (\A n \in Seq : Fw(n) \in Nat)
  BY Pages DEF Types, TypeOK, ObcTypeOK, FsmTypeOK, Page
<1>7. \A n \in Seq : Fw(n) < Frontier => Fw(n) < s_next_fw_sector
  BY <1>6 DEF Frontier
<1>8. \A n \in Seq : Stored(n) => Stored(n)'
  BY <1>1, <1>3, <1>7 DEF Stored, Right
<1>9. \A n \in Seq : Safe(n) => Safe(n)'
  BY <1>8 DEF Safe, Stored
<1> QED
  BY <1>2, <1>4, <1>5, <1>8, <1>9, SessionKeeps DEF Quiet, Ongoing

LEMMA InnerPktWrite ==
  ASSUME Inner, Types, OtaWaitPktWrite, Quiet PROVE Inner'
<1>1. /\ s_state = "WAIT_PKT" /\ s_state' = "WRITE_PKT"
      /\ s_ota_pkt_ready /\ s_pending_seq' = s_ota_pkt.seq /\ ~NeedsErase
      /\ s_ota_pkt.seq # END
      /\ s_write_buf' = s_ota_pkt.data /\ ~s_ota_pkt_ready'
      /\ UNCHANGED <<memory, link, ota_data_started, s_next_fw_sector>>
  BY DEF OtaWaitPktWrite, TakePacket, In, Goto
<1>2. ota_data_started
  BY <1>1 DEF Inner, Closing, Session
<1>3. StagedPage /\ FlashInStep
  BY <1>1, <1>2 DEF Inner, Receiving, Receives, Ongoing
<1>4. /\ FW <= s_next_fw_sector /\ SectorStart(s_next_fw_sector)
      /\ FitTo(s_next_fw_sector)
  BY <1>1, <1>3 DEF FlashInStep, Frontier
<1>5. Fw(s_ota_pkt.seq) \in Nat /\ s_next_fw_sector \in Nat
  BY <1>1, <1>3, Pages
     DEF StagedPage, Types, TypeOK, ObcTypeOK, FsmTypeOK, Page
<1>6. Fw(s_ota_pkt.seq) < s_next_fw_sector
  BY <1>1, <1>5 DEF NeedsErase
<1> QED
  BY <1>1, <1>2, <1>4, <1>6, PageTaken

\* Once END has come it is what is staged, and is taken for the page whose
\* sector has been erased: that page is lost, and only that one.
LEMMA InnerNeedErase ==
  ASSUME Inner, Sync, Types, OtaNeedErase, Quiet PROVE Inner'
<1>1. /\ s_state = "NEED_ERASE" /\ s_state' = "WRITE_PKT" /\ status = "idle"
      /\ s_pending_seq' = s_pending_seq
      /\ s_write_buf' = s_ota_pkt.data /\ ~s_ota_pkt_ready'
      /\ UNCHANGED <<memory, link, ota_data_started, s_next_fw_sector>>
  BY DEF OtaNeedErase, In, Goto
<1>2. stage = "none" /\ running = NoReq
  BY <1>1 DEF Sync, Types, TypeOK, ObcTypeOK, MemoryTypeOK
<1>3. CASE ~ota_data_started
  <2>1. \A n \in Seq : Stays(n) => Stays(n)'
    BY <1>1 DEF Stays, OnFlash, Writing, Right, memory, Quiet, ground
  <2> QED
    BY <1>1, <1>3, <2>1, ClosingStep DEF Session, Quiet
<1>4. CASE ota_data_started
  <2>1. Erasing /\ StagedPage /\ FlashInStep
    BY <1>1, <1>4 DEF Inner, Receiving, Receives, Ongoing
  <2>2. /\ FW <= s_erase_addr /\ SectorStart(s_next_fw_sector) /\ EraseUnderWay
        /\ s_ota_pkt_ready /\ s_pending_seq = s_ota_pkt.seq
        /\ Fw(s_ota_pkt.seq) <= s_erase_addr /\ s_ota_pkt.seq \in Seq
    BY <1>1, <2>1 DEF FlashInStep, StagedPage, Frontier, Erasing
  <2>3. FitTo(s_next_fw_sector) /\ s_next_fw_sector = s_erase_addr + PagesPerSector
    BY <1>1, <1>2, <2>2 DEF EraseUnderWay
  <2>4. s_erase_addr \in Nat /\ Fw(s_ota_pkt.seq) \in Nat
    BY <2>2, Pages DEF Types, TypeOK, ObcTypeOK, FsmTypeOK, Page
  <2>5. /\ s_erase_addr < s_next_fw_sector /\ FW <= s_next_fw_sector
        /\ Fw(s_ota_pkt.seq) < s_next_fw_sector
    BY <2>2, <2>3, <2>4, Pages, Numbers
  <2> QED
    BY <1>1, <1>4, <2>2, <2>3, <2>5, PageTaken
<1> QED
  BY <1>3, <1>4

LEMMA InnerWritePkt ==
  ASSUME Inner, Sync, Types, OtaWritePkt, Quiet PROVE Inner'
<1>1. /\ s_state = "WRITE_PKT" /\ s_state' = "WAIT_WRITE"
      /\ Ask([op |-> "write", at |-> Fw(s_pending_seq)])
      /\ UNCHANGED <<ttc, link, s_next_fw_sector, s_pending_seq, s_write_buf>>
  BY DEF OtaWritePkt, In, Goto, Write
<1>2. UNCHANGED <<ground, link, gimage, s_ota_pkt_ready, s_ota_pkt, ota_data_started>>
  BY <1>1 DEF Quiet, ground, ttc, staging
<1>3. status = "idle" /\ s_pending_seq \in Seq
  BY <1>1 DEF Sync, Types, Numbered
<1>4. /\ stage' = "queued" /\ running' = NoReq /\ cells' = cells
      /\ req' = [op |-> "write", at |-> Fw(s_pending_seq)]
  BY <1>1, <1>3, AskResult
<1>5. CASE ~ota_data_started
  <2>1. ASSUME NEW n \in Seq, OnFlash(n) PROVE OnFlash(n)'
    <3>1. s_pending_seq # n /\ Right(cells, n)
      BY <1>1, <2>1 DEF OnFlash
    <3>2. Fw(n) # Fw(s_pending_seq)
      BY <1>3, <3>1, Numbers DEF Fw, FW, Seq
    <3>3. Fw(n) \notin Flash!Footprint(req')
      BY <1>4, <3>2 DEF Flash!Footprint
    <3> QED
      BY <1>1, <1>2, <1>4, <3>1, <3>3 DEF OnFlash, Right
  <2>2. ASSUME NEW n \in Seq, Writing(n) PROVE Writing(n)'
    <3>1. s_pending_seq = n /\ s_write_buf = <<gimage, n>> /\ Fit(cells, n)
      BY <1>1, <2>2 DEF Writing
    <3>2. PageWritten(n)'
      BY <1>2, <1>4, <3>1 DEF PageWritten, Fit, Right
    <3> QED
      BY <1>1, <1>2, <3>1, <3>2 DEF Writing
  <2>3. \A n \in Seq : Stays(n) => Stays(n)'
    BY <2>1, <2>2 DEF Stays
  <2> QED
    BY <1>1, <1>2, <1>5, <2>3, ClosingStep DEF Session
<1>6. CASE ota_data_started
  <2>1. /\ StagedPage /\ FlashInStep /\ WrittenPage
        /\ s_state \in Receives /\ s_state' \in Receives
    BY <1>1, <1>6 DEF Inner, Receiving, Receives, Ongoing
  <2>2. Frontier = s_next_fw_sector /\ Frontier' = s_next_fw_sector
    BY <1>1 DEF Frontier
  <2>3. Erasing' /\ StagedPage' /\ WrittenPage'
    BY <1>1, <1>2, <2>1, <2>2 DEF Erasing, StagedPage, WrittenPage
  <2>4. WriteUnderWay'
    <3>1. \A n \in Seq : Fw(n) < s_next_fw_sector => Fit(cells, n)
      BY <1>1, <2>1 DEF FlashInStep, FitTo
    <3>2. Fit(cells, s_pending_seq)
      BY <1>1, <1>3, <2>1, <3>1 DEF WrittenPage
    <3>3. PageWritten(s_pending_seq)'
      BY <1>1, <1>2, <1>4, <3>2 DEF PageWritten, Fit, Right
    <3> QED
      BY <1>1, <1>2, <1>4, <3>1, <3>3 DEF WriteUnderWay, Fit, Right
  <2>5. FlashInStep'
    BY <1>1, <2>1, <2>2, <2>4 DEF FlashInStep, SectorStart
  <2>6. \A n \in Seq : Stored(n) => Stored(n)'
    BY <1>1, <1>2, <1>4, <2>2 DEF Stored, Right
  <2>7. \A n \in Seq : Safe(n) => Safe(n)'
    BY <1>2, <2>6 DEF Safe
  <2> QED
    BY <1>2, <1>6, <2>1, <2>3, <2>5, <2>6, <2>7, SessionKeeps DEF Ongoing
<1> QED
  BY <1>5, <1>6

LEMMA InnerWaitWrite ==
  ASSUME Inner, Sync, Types, OtaWaitWrite, Quiet PROVE Inner'
<1>1. /\ s_state = "WAIT_WRITE" /\ s_state' = "WAIT_PKT" /\ status = "idle"
      /\ UNCHANGED <<ttc, link, memory, s_next_fw_sector>>
  BY DEF OtaWaitWrite, In, Goto
<1>2. UNCHANGED <<ground, link, gimage, s_ota_pkt_ready, s_ota_pkt,
                  ota_data_started, cells, running, stage, req>>
  BY <1>1 DEF Quiet, ground, ttc, staging, memory
<1>3. stage = "none" /\ running = NoReq
  BY <1>1 DEF Sync, Types, TypeOK, ObcTypeOK, MemoryTypeOK
<1>4. CASE ~ota_data_started
  <2>1. ASSUME NEW n \in Seq, Stays(n) PROVE OnFlash(n)'
    <3>1. Right(cells, n)
      BY <1>1, <1>3, <2>1 DEF Stays, OnFlash, Writing, PageWritten
    <3> QED
      BY <1>1, <1>2, <1>3, <3>1 DEF OnFlash, Right
  <2> QED
    BY <1>1, <1>2, <1>4, <2>1, ClosingStep DEF Session, Stays
<1>5. CASE ota_data_started
  <2>1. /\ StagedPage /\ FlashInStep /\ WrittenPage
        /\ s_state \in Receives /\ s_state' \in Receives
    BY <1>1, <1>5 DEF Inner, Receiving, Receives, Ongoing
  <2>2. Frontier = s_next_fw_sector /\ Frontier' = s_next_fw_sector
    BY <1>1 DEF Frontier
  <2>3. Erasing' /\ StagedPage' /\ WrittenPage'
    BY <1>1, <1>2, <2>1, <2>2 DEF Erasing, StagedPage, WrittenPage
  <2>4. /\ Right(cells, s_pending_seq)
        /\ \A n \in Seq \ {s_pending_seq} : Fw(n) < s_next_fw_sector => Fit(cells, n)
    BY <1>1, <1>3, <2>1 DEF FlashInStep, WriteUnderWay, PageWritten
  <2>5. FitTo(s_next_fw_sector)'
    BY <1>1, <1>2, <2>4 DEF FitTo, Fit, Right
  <2>6. FlashInStep'
    BY <1>1, <2>1, <2>2, <2>5 DEF FlashInStep, SectorStart
  <2>7. \A n \in Seq : Stored(n) => Stored(n)'
    BY <1>1, <1>2, <2>1, <2>2, <2>4 DEF Stored, Right, WrittenPage
  <2>8. \A n \in Seq : Safe(n) => Safe(n)'
    BY <1>2, <2>7 DEF Safe
  <2> QED
    BY <1>2, <1>5, <2>1, <2>3, <2>6, <2>7, <2>8, SessionKeeps DEF Ongoing
<1> QED
  BY <1>4, <1>5

\* The end of a session: only the metadata are still erased and written.
LEMMA InnerEnd ==
  ASSUME Inner, Sync, Types, Quiet,
         OtaWaitPktEnd \/ OtaWaitEraseMeta \/ OtaWriteMeta \/ OtaWaitMeta
  PROVE  Inner'
<1>1. /\ s_state \in {"WAIT_PKT", "WAIT_ERASE_META", "WRITE_META", "WAIT_META"}
      /\ s_state' \in {"WAIT_ERASE_META", "WRITE_META", "ERROR", "WAIT_META", "RESET"}
      /\ UNCHANGED <<ground, gimage, link, ota_data_started, s_ota_pkt>>
      /\ s_ota_pkt_ready' => s_ota_pkt_ready
      /\ s_state = "WAIT_PKT" => s_ota_pkt_ready /\ s_ota_pkt.seq = END
      /\ s_state = "WAIT_PKT" \/ UNCHANGED s_pending_seq
  BY DEF OtaWaitPktEnd, TakePacket, OtaWaitEraseMeta, OtaWriteMeta, OtaWaitMeta,
         In, Goto, Quiet, ground, ttc, staging, Types, TypeOK, ObcTypeOK, TtcTypeOK
<1>2. ~ota_data_started
  BY <1>1, EndApart DEF Inner, Receiving, Receives, Ongoing, StagedPage
<1>3. /\ UNCHANGED cells /\ running' \in {running, NoReq}
      /\ \/ UNCHANGED <<stage, req>>
         \/ \E op : req' = [op |-> op, at |-> META]
  <2>1. CASE OtaWaitPktEnd
    BY <2>1, AskResult DEF OtaWaitPktEnd, TakePacket, In, Erase, Sync
  <2>2. CASE OtaWriteMeta
    BY <2>2, AskResult DEF OtaWriteMeta, In, Write, Sync
  <2>3. CASE OtaWaitEraseMeta \/ OtaWaitMeta
    BY <2>3 DEF OtaWaitEraseMeta, OtaWaitMeta, memory
  <2> QED
    BY <2>1, <2>2, <2>3
<1>4. ASSUME NEW n \in Seq, Stays(n) PROVE Stays(n)'
  <2>1. OnFlash(n)
    BY <1>1, <1>4 DEF Stays, Writing
  <2>2. stage' = "queued" => Fw(n) \notin Flash!Footprint(req')
    BY <1>3, <2>1, MetaApart DEF OnFlash
  <2> QED
    BY <1>1, <1>3, <2>1, <2>2 DEF Stays, OnFlash, Right
<1> QED
  BY <1>1, <1>2, <1>4, ClosingStep DEF Session

\* No packet of the ground is empty.
LEMMA InnerEmpty ==
  ASSUME Inner, OtaWaitPktEmpty PROVE FALSE
<1>1. /\ s_state = "WAIT_PKT" /\ s_ota_pkt_ready /\ s_ota_pkt.len = 0
      /\ s_ota_pkt.seq # END
  BY DEF OtaWaitPktEmpty, TakePacket, In
<1>2. ota_data_started
  BY <1>1 DEF Inner, Closing, Session
<1> QED
  BY <1>1, <1>2 DEF Inner, Receiving, Receives, Ongoing, StagedPage

LEMMA InnerHandler ==
  ASSUME Inner, Outer, Sync, Types, Handler, Quiet PROVE Inner'
<1>1. CASE OtaMemoryError
  BY <1>1, AtRest DEF OtaMemoryError, Goto, Session
<1>2. CASE OtaError \/ OtaReset
  BY <1>2, AtRest DEF OtaError, OtaReset, RestartProcessor, Abort, Goto, Session
<1>3. CASE OtaWaits \/ CommunicationMode
  BY <1>3, NothingDone DEF OtaWaits, CommunicationMode, Quiet, link
<1> QED
  BY <1>1, <1>2, <1>3, InnerIdle, InnerFirst, InnerReady, InnerWaitPkt,
     InnerPktErase, InnerPktWrite, InnerNeedErase, InnerWritePkt,
     InnerWaitWrite, InnerEnd, InnerEmpty DEF Handler, OtaMode

----------------------------------------------------------------------------
(* The promise.                                                            *)

LEMMA AckInit == ASSUME Init PROVE AInv
<1>1. Able /\ Waiting
  BY DEF Init, ObcInit, Able, Waiting, Unheard
<1>2. InOrder
  BY NoneApart DEF Init, ObcInit, InOrder
<1>3. Inner
  BY DEF Init, ObcInit, Inner, Prepared, Receiving, Closing, Session
<1> QED
  BY <1>1, <1>2, <1>3 DEF AInv, Outer

\* The protection of the chip changes when a session begins and at a restart.
LEMMA ProtectionStays ==
  ASSUME \/ Heard \/ MemTick \/ ChipFinish \/ Bootloader \/ Clock
         \/ Handler /\ ~OtaIdle /\ ~OtaReset
  PROVE  wp' = wp
<1>1. \A r : Ask(r) => wp' = wp
  BY DEF Ask, Flash!Submit, memory
<1>2. CASE Heard \/ Clock
  BY <1>2 DEF Heard, ReceiveCommand, SwallowCommand, StrayIgnored,
         ReceiveData, ReceiveEnd, Arrives, Clock, memory
<1>3. CASE MemTick \/ ChipFinish \/ Bootloader
  BY <1>3 DEF MemTick, ChipFinish, Bootloader, Flash!Issue, Flash!Ignored,
         Flash!Report, Flash!Fail, Flash!Finish
<1>4. CASE Handler /\ ~OtaIdle /\ ~OtaReset
  <2>1. CASE \/ OtaWaitEraseFirst \/ OtaWaitPktEnd \/ OtaWaitPktErase
             \/ OtaWritePkt \/ OtaWriteMeta
    BY <1>1, <2>1 DEF OtaWaitEraseFirst, OtaWaitPktEnd, OtaWaitPktErase,
           OtaWritePkt, OtaWriteMeta, Erase, Write
  <2>2. CASE ~(\/ OtaWaitEraseFirst \/ OtaWaitPktEnd \/ OtaWaitPktErase
               \/ OtaWritePkt \/ OtaWriteMeta)
    BY <1>4, <2>2 DEF Handler, OtaMode, CommunicationMode, OtaWaitEraseReady,
         OtaWaitPktNone, OtaWaitPktEmpty, OtaWaitPktWrite, OtaNeedErase,
         OtaWaitWrite, OtaWaitEraseMeta, OtaWaitMeta, OtaMemoryError, OtaError,
         OtaWaits, memory
  <2> QED
    BY <2>1, <2>2
<1> QED
  BY <1>2, <1>3, <1>4

\* The steps of the system when the link spoils nothing.
LEMMA ClearSteps ==
  ASSUME Undisturbed, Types, Next
  PROVE  \/ /\ \/ Heard \/ Handler \/ MemTick \/ ChipFinish \/ Crash
               \/ Bootloader \/ Clock
            /\ Quiet
         \/ Outside /\ Onboard
<1>1. ~Noisy
  BY Numbers DEF Noisy, Undisturbed, Types, TypeOK, GroundTypeOK
<1> QED
  BY <1>1 DEF Next, Heard, Handler, OtaMode, Outside

LEMMA OuterStep ==
  ASSUME Undisturbed, Types, Sync, Outer, [Next]_vars PROVE Outer'
<1>1. CASE UNCHANGED vars
  BY <1>1 DEF vars, obcvars, fsm, ttc, staging, memory, link, control, ground,
         Outer, Able, Waiting, Beginning, Unheard, InOrder
<1>2. CASE Next
  BY <1>2, ClearSteps, OuterOutside, OuterHeard, OuterHandler, OuterBackground
     DEF Types
<1> QED
  BY <1>1, <1>2

LEMMA InnerStep ==
  ASSUME Undisturbed, Types, Sync, Outer, ~wp => Inner, [Next]_vars, ~wp'
  PROVE  Inner'
<1>1. CASE OtaIdle
  BY <1>1, InnerIdle
<1>2. CASE Crash \/ OtaReset
  BY <1>2, AtRest DEF Crash, OtaReset, RestartProcessor, Session
<1>3. CASE UNCHANGED vars \/ (Clock /\ Quiet)
  <2>1. UNCHANGED <<fsm, ttc, memory, ground, down>>
    BY <1>3 DEF vars, obcvars, link, Clock, Quiet
  <2>2. wp' = wp
    BY <2>1 DEF memory
  <2> QED
    BY <2>1, <2>2, NothingDone
<1>4. CASE Outside /\ Onboard
  BY <1>4, InnerOutside DEF Types, Onboard, memory
<1>5. CASE Bootloader /\ Quiet
  <2>1. s_state = "IDLE" /\ UNCHANGED <<s_state, ota_data_started>>
    BY <1>5 DEF Bootloader, Sync, fsm, ttc
  <2>2. ~ota_data_started
    BY <2>1 DEF Outer, Waiting
  <2> QED
    BY <2>1, <2>2, AtRest DEF Session
<1>6. CASE /\ Quiet
           /\ Heard \/ MemTick \/ ChipFinish \/ (Handler /\ ~OtaIdle /\ ~OtaReset)
  <2>1. ~wp
    BY <1>6, ProtectionStays
  <2> QED
    BY <1>6, <2>1, InnerHeard, InnerMemTick, InnerFinish, InnerHandler DEF Outer
<1> QED
  BY <1>1, <1>2, <1>3, <1>4, <1>5, <1>6, ClearSteps

LEMMA AckKept ==
  ASSUME Types, AInv PROVE AcknowledgedPagesAreKept
<1> SUFFICES ASSUME s_state \in Session, ~wp, NEW n \in 0..(gseq - 1)
             PROVE  Kept(n) \/ Overwritten(n)
  BY DEF AcknowledgedPagesAreKept
<1>1. n \in Seq /\ n < gseq /\ n \in Nat
  BY Numbers DEF Types, TypeOK, GroundTypeOK, Seq
<1>2. CASE ota_data_started
  <2>1. Safe(n) /\ StagedPage /\ WrittenPage
    BY <1>1, <1>2 DEF AInv, Inner, Receiving, Session, Ongoing, Acknowledged
  <2> QED
    BY <2>1 DEF Safe, Stored, StagedPage, WrittenPage, Kept, Right
<1>3. CASE ~ota_data_started
  <2>1. gseq = ImagePages /\ (\A m \in Seq : m + 1 < gseq => Stays(m))
    BY <1>1, <1>3 DEF AInv, Inner, Closing
  <2>2. CASE n + 1 < gseq
    <3>1. Stays(n)
      BY <1>1, <2>1, <2>2
    <3> QED
      BY <3>1 DEF Stays, OnFlash, Writing, Kept, Right
  <2>3. CASE ~(n + 1 < gseq)
    BY <1>1, <1>3, <2>1, <2>3, Numbers DEF Overwritten
  <2> QED
    BY <2>2, <2>3
<1> QED
  BY <1>2, <1>3

\* The ACK of a page is a promise (ttc.c sends it when the page is staged):
\* for as long as its session lasts, and unless the chip is protected, the
\* page is staged, is being written or is on the flash, and no later erase
\* clears it.  So it is whatever frames are lost, repeated or late, however
\* often the ground starts again, whatever the memory fails at and however
\* often the processor restarts, also when the chip is still at work as the
\* session begins.  The exception is the last page, over which END may be
\* staged (ttc.c:302).  It takes a link that spoils no frame and a ground that
\* has one image: Undisturbed.
THEOREM AcknowledgedKept == Spec => [](Undisturbed => AcknowledgedPagesAreKept)
<1> DEFINE Promise == Undisturbed => AInv
           Outcome == Undisturbed => AcknowledgedPagesAreKept
<1>1. Init => Promise
  BY AckInit
<1>2. Types /\ Sync /\ Promise /\ [Next]_vars => Promise'
  BY OuterStep, InnerStep DEF AInv, Undisturbed
<1>3. Types /\ Promise => Outcome
  BY AckKept
<1> HIDE DEF Promise, Outcome
<1>4. Spec => []Outcome
  BY <1>1, <1>2, <1>3, SpecSync, SpecTypes, PTL DEF Spec
<1> QED
  BY <1>4 DEF Outcome
=============================================================================
