----------------------------- MODULE OtaWriter -----------------------------
(***************************************************************************)
(* The part of the firmware that receives a new image over the radio and   *)
(* stores it in the external flash: the sub-FSM of otaMode (modes.c), the  *)
(* packet staging and command handling of the TT&C (ttc.c), the two modes  *)
(* between which getMode moves it (modeSelecter.c), and the external       *)
(* memory, for which the actions of FlashService stand.                    *)
(*                                                                         *)
(* One turn of the super-loop runs ttc_tick, which takes at most one frame *)
(* from the radio, then ExtMem_Tick, then the handler of the mode, then    *)
(* getMode.  The variable heard keeps the frame and the handler in turns;  *)
(* the memory, which is the slower by far, advances between any two steps. *)
(*                                                                         *)
(* A page of firmware is one packet.  The content <<v, n>> is page n of    *)
(* image v; <<v, END>> is the size, CRC and version of image v, both in    *)
(* the END packet and, with the PENDING magic, in the metadata page.       *)
(***************************************************************************)
EXTENDS Naturals

CONSTANTS
  Image,            \* firmware images
  ImagePages,       \* pages (packets) of an image
  MaxSeq,           \* highest number of a data packet that can reach the OBC
  PagesPerSector,   \* pages that an erase clears
  WAIT_TIMEOUT,     \* OTA_PKT_WAIT_TIMEOUT_MS, in ticks of Clock
  FlashMayFail,     \* the memory may report errors
  MaxRestarts,      \* bound: unplanned restarts of the processor
  LooksBlank,       \* contents of a page whose first byte is 0xFF
  Blank, Torn, Junk, NoReq, None, Unset

END     == 65535                 \* sequence number of the END packet

ASSUME OtaAssumption ==
  /\ ImagePages \in Nat \ {0}
  /\ MaxSeq \in Nat /\ ImagePages - 1 <= MaxSeq /\ MaxSeq < END
  /\ PagesPerSector \in Nat \ {0}
  /\ WAIT_TIMEOUT \in Nat \ {0}
  /\ FlashMayFail \in BOOLEAN
  /\ Blank \in LooksBlank
  /\ MaxRestarts \in Nat

META    == 0                     \* page of OTA_EXT_META_ADDR
FW      == PagesPerSector        \* page of OTA_EXT_FW_ADDR, one sector on

\* A variant: the packet's number counts sectors.
FwBySector(seq) == FW + seq * PagesPerSector

Fw(seq) == FW + seq              \* page of a data packet

Page    == 0..(FW + MaxSeq)
Seq     == 0..MaxSeq
Data    == (Image \X (Seq \cup {END})) \cup {Junk}
Content == Data \cup {Blank, Torn}

ASSUME ContentAssumption ==
  Blank \notin Data /\ Torn \notin Data /\ Blank # Torn

Packet  == [kind : {"PKT"}, seq : Seq \cup {END}, len : {0, 1}, data : Data]
Command == [kind : {"START", "END_OTA"}]
Reply   == [kind : {"READY"}] \cup [kind : {"ACK"}, seq : Seq \cup {END}]

ASSUME NothingAssumption ==
  /\ None \notin Packet \cup Command \cup Reply
  /\ NoReq \notin [Page -> Content]

VARIABLES
  mode,                       \* "ota", "communication" or "boot"
  s_state,                    \* state of the OTA sub-FSM
  s_erase_addr, s_next_fw_sector,
  s_bytes_written,            \* only whether it is not zero
  s_meta, s_write_buf,        \* the two buffers that writes are made from
  s_pending_seq,
  s_wait_start,               \* Unset, or the time since s_wait_start_ms
  OTA_REQUESTED, ota_data_started,
  s_ota_pkt_ready, s_ota_pkt, \* the staging buffer of the TT&C
  status, req, stage, running, cells, wp, able,  \* of FlashService
  up, down,                   \* the radio link, a frame each way, or None
  heard,                      \* this turn has had its frame from the radio
  restarts,
  late                        \* history: a session began on a chip at work

fsm     == <<s_state, s_erase_addr, s_next_fw_sector, s_bytes_written, s_meta,
             s_write_buf, s_pending_seq>>
staging == <<s_ota_pkt_ready, s_ota_pkt>>
ttc     == <<ota_data_started, staging>>
memory  == <<status, req, stage, running, cells, wp, able>>
link    == <<up, down>>
control == <<mode, OTA_REQUESTED, heard>>
obcvars == <<fsm, ttc, memory, link, control, s_wait_start, restarts, late>>

Flash == INSTANCE FlashService

SmStates == {"IDLE", "WAIT_ERASE", "WAIT_PKT", "NEED_ERASE", "WRITE_PKT",
             "WAIT_WRITE", "WAIT_ERASE_META", "WRITE_META", "WAIT_META",
             "RESET", "ERROR"}

FsmTypeOK ==
  /\ s_state \in SmStates
  /\ s_erase_addr \in Page
  /\ s_next_fw_sector \in Nat
  /\ s_bytes_written \in BOOLEAN
  /\ s_meta \in Data \cup {Blank} /\ s_write_buf \in Data \cup {Blank}
  /\ s_pending_seq \in Seq \cup {END}

TtcTypeOK ==
  /\ ota_data_started \in BOOLEAN
  /\ s_ota_pkt_ready \in BOOLEAN
  /\ s_ota_pkt \in [seq : Seq \cup {END}, len : {0, 1}, data : Data \cup {Blank}]

MemoryTypeOK ==
  /\ status \in {"idle", "busy", "error"}
  /\ req \in Flash!Requests \cup {NoReq}
  /\ stage \in {"none", "queued", "issued"}
  /\ running \in [Page -> Content] \cup {NoReq}
  /\ cells \in [Page -> Content]
  /\ wp \in BOOLEAN /\ able \in BOOLEAN

LinkTypeOK ==
  /\ up \in Packet \cup Command \cup {None}
  /\ down \in Reply \cup {None}

ControlTypeOK ==
  /\ mode \in {"ota", "communication", "boot"}
  /\ OTA_REQUESTED \in BOOLEAN
  /\ heard \in BOOLEAN /\ late \in BOOLEAN
  /\ s_wait_start \in (0..WAIT_TIMEOUT) \cup {Unset}
  /\ restarts \in Nat

ObcTypeOK ==
  FsmTypeOK /\ TtcTypeOK /\ MemoryTypeOK /\ LinkTypeOK /\ ControlTypeOK

NoPacket == [seq |-> 0, len |-> 0, data |-> Blank]

\* An arbitrary firmware is on the flash, and no update is pending.
ObcInit ==
  /\ s_state = "IDLE"
  /\ s_erase_addr = META /\ s_next_fw_sector = META
  /\ s_bytes_written = FALSE
  /\ s_meta = Blank /\ s_write_buf = Blank
  /\ s_pending_seq = 0
  /\ s_wait_start = Unset
  /\ OTA_REQUESTED = FALSE /\ ota_data_started = FALSE
  /\ s_ota_pkt_ready = FALSE /\ s_ota_pkt = NoPacket
  /\ mode = "communication" /\ heard = FALSE
  /\ status = "idle" /\ req = NoReq /\ stage = "none" /\ able = FALSE
  /\ running = NoReq
  /\ cells = [p \in Page |-> IF p = META THEN Blank ELSE Junk]
  /\ wp \in BOOLEAN
  /\ up = None /\ down = None
  /\ restarts = 0 /\ late = FALSE

----------------------------------------------------------------------------
(* ttc.c: what is done with a frame from the ground.                       *)

\* A reply is dropped when the transmitter is busy.
Send(m) == down' = IF down = None THEN m ELSE down

\* ttc_ota_abort.
Abort == ota_data_started' = FALSE /\ s_ota_pkt_ready' = FALSE

\* A variant: the new session clears the write buffer too.
StartOtaClearing ==
  /\ Abort
  /\ s_state' = "IDLE"
  /\ s_write_buf' = Blank
  /\ s_ota_pkt' = [s_ota_pkt EXCEPT !.seq = 0]
  /\ OTA_REQUESTED' = TRUE
  /\ UNCHANGED <<s_erase_addr, s_next_fw_sector, s_bytes_written, s_meta,
                 s_pending_seq>>

\* CMD_START_OTA discards the session that may be under way.
StartOta ==
  /\ Abort
  /\ s_state' = "IDLE"                          \* ota_fsm_reset
  /\ s_ota_pkt' = [s_ota_pkt EXCEPT !.seq = 0]
  /\ OTA_REQUESTED' = TRUE
  /\ UNCHANGED <<s_erase_addr, s_next_fw_sector, s_bytes_written, s_meta,
                 s_write_buf, s_pending_seq>>

EndOta ==
  /\ OTA_REQUESTED' = FALSE
  /\ ota_data_started' = FALSE
  /\ UNCHANGED <<fsm, staging>>

Obey(command) ==
  \/ command = "START" /\ StartOta
  \/ command = "END_OTA" /\ EndOta

\* A frame reaches the TT&C, which listens except in the bootloader.
Arrives ==
  /\ mode # "boot"
  /\ ~heard
  /\ heard' = TRUE
  /\ up' = None
  /\ UNCHANGED <<mode, memory, s_wait_start, restarts, late>>

ReceiveCommand ==
  /\ up \in Command
  /\ Arrives
  /\ ~ota_data_started
  /\ Obey(up.kind)
  /\ UNCHANGED down

\* While data is expected, the frame scanner swallows commands.
SwallowCommand ==
  /\ up \in Command
  /\ Arrives
  /\ ota_data_started
  /\ UNCHANGED <<down, fsm, ttc, OTA_REQUESTED>>

\* A frame that comes when none is expected is read as commands, four bytes
\* at a time; what they spell depends on the firmware it carries.
StrayIgnored ==
  /\ up \in Packet
  /\ Arrives
  /\ ~ota_data_started
  /\ UNCHANGED <<down, fsm, ttc, OTA_REQUESTED>>

StrayObeyed ==
  /\ up \in Packet
  /\ Arrives
  /\ ~ota_data_started
  /\ \E command \in {"START", "END_OTA"} : Obey(command)
  /\ UNCHANGED down

\* The payload is copied over what the buffer held, for as long as it is.
Staged(m) ==
  [seq |-> m.seq, len |-> m.len,
   data |-> IF m.len = 0 THEN s_ota_pkt.data ELSE m.data]

\* A variant: a packet is taken whether or not the last one has been used.
ReceiveDataAlways ==
  /\ up \in Packet
  /\ Arrives
  /\ ota_data_started
  /\ up.seq # END
  /\ s_ota_pkt' = Staged(up)
  /\ s_ota_pkt_ready' = TRUE
  /\ Send([kind |-> "ACK", seq |-> up.seq])
  /\ UNCHANGED <<fsm, ota_data_started, OTA_REQUESTED>>

ReceiveData ==
  /\ up \in Packet
  /\ Arrives
  /\ ota_data_started
  /\ up.seq # END
  /\ \/ /\ ~s_ota_pkt_ready
        /\ s_ota_pkt' = Staged(up)
        /\ s_ota_pkt_ready' = TRUE
        /\ Send([kind |-> "ACK", seq |-> up.seq])
     \/ s_ota_pkt_ready /\ UNCHANGED <<staging, down>>
  /\ UNCHANGED <<fsm, ota_data_started, OTA_REQUESTED>>

ReceiveEnd ==
  /\ up \in Packet
  /\ Arrives
  /\ ota_data_started
  /\ up.seq = END
  /\ ota_data_started' = FALSE
  /\ s_ota_pkt' = Staged(up)
  /\ s_ota_pkt_ready' = TRUE
  /\ Send([kind |-> "ACK", seq |-> END])
  /\ UNCHANGED <<fsm, OTA_REQUESTED>>

Receive ==
  \/ ReceiveCommand \/ SwallowCommand \/ StrayIgnored \/ StrayObeyed
  \/ ReceiveData \/ ReceiveEnd

----------------------------------------------------------------------------
(* ExtMem_Tick, and the chip.                                              *)

\* The buffer that the driver was given a pointer to.
Buffer == IF req.at = META THEN s_meta ELSE s_write_buf

MemTick ==
  /\ mode # "boot"
  /\ \/ stage = "queued" /\ Flash!Issue(Buffer)
     \/ Flash!Ignored
     \/ Flash!Report
     \/ FlashMayFail /\ Flash!Fail
  /\ UNCHANGED <<fsm, ttc, link, control, s_wait_start, restarts, late>>

ChipFinish ==
  /\ Flash!Finish
  /\ UNCHANGED <<fsm, ttc, link, control, s_wait_start, restarts, late>>

----------------------------------------------------------------------------
(* otaMode: one action per state of the sub-FSM, then getMode.             *)

\* The end of a turn.  Only the handler of ERROR changes the request.
GetMode ==
  /\ heard' = FALSE
  /\ mode' = IF OTA_REQUESTED THEN "ota" ELSE "communication"
  /\ UNCHANGED OTA_REQUESTED

In(s) == mode = "ota" /\ s_state = s

Goto(s) == s_state' = s

\* A request the memory is not ready for is silently dropped.
Ask(r) == IF status = "idle" THEN Flash!Submit(r) ELSE UNCHANGED memory
Erase(p) == Ask([op |-> "erase", at |-> p])
Write(p) == Ask([op |-> "write", at |-> p])

\* The system is safe and charged here, so a request always leads to ota.
CommunicationMode ==
  /\ mode = "communication"
  /\ GetMode
  /\ UNCHANGED <<fsm, ttc, memory, link, s_wait_start, restarts, late>>

\* What OtaIdle does apart from the memory.  It looks at neither of the two
\* status registers that it prints.
BeginSession(p) ==
  /\ In("IDLE")
  /\ OTA_REQUESTED
  /\ s_bytes_written' = FALSE
  /\ s_next_fw_sector' = FW
  /\ s_meta' = Blank
  /\ s_erase_addr' = p
  /\ Goto("WAIT_ERASE")
  /\ GetMode
  /\ UNCHANGED <<s_write_buf, s_pending_seq, ttc, link, s_wait_start, restarts>>

\* A variant: the old metadata are left for the end of the session.
OtaIdleNoErase ==
  /\ BeginSession(FW)
  /\ Flash!ClearThenSubmit([op |-> "erase", at |-> FW])
  /\ late' = (late \/ running' # NoReq)

\* The memory is idle: the chip is told to clear its write protection and to
\* erase the metadata of an earlier session.
OtaIdle ==
  /\ BeginSession(META)
  /\ Flash!ClearThenSubmit([op |-> "erase", at |-> META])
  /\ late' = (late \/ running' # NoReq)

\* A variant: the erase of the firmware's first sector is forgotten.
OtaWaitEraseFirstUnasked ==
  /\ In("WAIT_ERASE")
  /\ status = "idle"
  /\ s_erase_addr = META /\ ~s_bytes_written
  /\ s_erase_addr' = FW
  /\ s_next_fw_sector' = FW + PagesPerSector
  /\ GetMode
  /\ UNCHANGED <<s_state, s_bytes_written, s_meta, s_write_buf, s_pending_seq,
                 ttc, memory, link, s_wait_start, restarts, late>>

\* The metadata should be erased: on to the first sector of the firmware.
OtaWaitEraseFirst ==
  /\ In("WAIT_ERASE")
  /\ status = "idle"
  /\ s_erase_addr = META /\ ~s_bytes_written
  /\ s_erase_addr' = FW
  /\ s_next_fw_sector' = FW + PagesPerSector
  /\ Erase(FW)
  /\ GetMode
  /\ UNCHANGED <<s_state, s_bytes_written, s_meta, s_write_buf, s_pending_seq,
                 ttc, link, s_wait_start, restarts, late>>

\* The first byte reads 0xFF: ttc_send_ota_ready.  Until it does, the
\* handler looks again each turn, without an end: a chip that has remained
\* protected ignores the erase and reports no error.
OtaWaitEraseReady ==
  /\ In("WAIT_ERASE")
  /\ status = "idle"
  /\ s_erase_addr >= FW
  /\ cells[s_erase_addr] \in LooksBlank
  /\ ota_data_started' = TRUE
  /\ Send([kind |-> "READY"])
  /\ Goto("WAIT_PKT")
  /\ GetMode
  /\ UNCHANGED <<s_erase_addr, s_next_fw_sector, s_bytes_written, s_meta,
                 s_write_buf, s_pending_seq, staging, memory, up,
                 s_wait_start, restarts, late>>

WaitStart == IF s_wait_start = Unset THEN 0 ELSE s_wait_start

\* A variant: silence is not timed.
OtaWaitPktForever ==
  /\ In("WAIT_PKT")
  /\ ~s_ota_pkt_ready
  /\ s_wait_start' = WaitStart
  /\ GetMode
  /\ UNCHANGED <<fsm, ttc, memory, link, restarts, late>>

\* No packet: the session is given up once the wait has been long enough.
OtaWaitPktNone ==
  /\ In("WAIT_PKT")
  /\ ~s_ota_pkt_ready
  /\ IF WaitStart >= WAIT_TIMEOUT
     THEN s_wait_start' = Unset /\ Goto("ERROR")
     ELSE s_wait_start' = WaitStart /\ UNCHANGED s_state
  /\ GetMode
  /\ UNCHANGED <<s_erase_addr, s_next_fw_sector, s_bytes_written, s_meta,
                 s_write_buf, s_pending_seq, ttc, memory, link, restarts, late>>

\* What every packet does to the state, before its kind is looked at.
TakePacket ==
  /\ In("WAIT_PKT")
  /\ s_ota_pkt_ready
  /\ s_wait_start' = Unset
  /\ s_pending_seq' = s_ota_pkt.seq
  /\ GetMode
  /\ UNCHANGED <<s_bytes_written, ota_data_started, s_ota_pkt, link,
                 restarts, late>>

OtaWaitPktEnd ==
  /\ TakePacket
  /\ s_ota_pkt.seq = END
  /\ s_meta' = s_ota_pkt.data
  /\ s_ota_pkt_ready' = FALSE
  /\ s_erase_addr' = META
  /\ Erase(META)
  /\ Goto("WAIT_ERASE_META")
  /\ UNCHANGED <<s_next_fw_sector, s_write_buf>>

OtaWaitPktEmpty ==
  /\ TakePacket
  /\ s_ota_pkt.seq # END
  /\ s_ota_pkt.len = 0
  /\ s_ota_pkt_ready' = FALSE
  /\ UNCHANGED <<s_state, s_erase_addr, s_next_fw_sector, s_meta, s_write_buf,
                 memory>>

NeedsErase == Fw(s_ota_pkt.seq) >= s_next_fw_sector

\* The packet opens a sector that has not been erased: it stays staged.
OtaWaitPktErase ==
  /\ TakePacket
  /\ s_ota_pkt.seq # END
  /\ s_ota_pkt.len # 0
  /\ NeedsErase
  /\ s_erase_addr' = s_next_fw_sector
  /\ s_next_fw_sector' = s_next_fw_sector + PagesPerSector
  /\ Erase(s_next_fw_sector)
  /\ Goto("NEED_ERASE")
  /\ UNCHANGED <<s_meta, s_write_buf, s_ota_pkt_ready>>

OtaWaitPktWrite ==
  /\ TakePacket
  /\ s_ota_pkt.seq # END
  /\ s_ota_pkt.len # 0
  /\ ~NeedsErase
  /\ s_write_buf' = s_ota_pkt.data
  /\ s_ota_pkt_ready' = FALSE
  /\ Goto("WRITE_PKT")
  /\ UNCHANGED <<s_erase_addr, s_next_fw_sector, s_meta, memory>>

\* The payload is copied only now, from what the staging buffer holds now.
OtaNeedErase ==
  /\ In("NEED_ERASE")
  /\ status = "idle"
  /\ s_write_buf' = s_ota_pkt.data
  /\ s_ota_pkt_ready' = FALSE
  /\ Goto("WRITE_PKT")
  /\ GetMode
  /\ UNCHANGED <<s_erase_addr, s_next_fw_sector, s_bytes_written, s_meta,
                 s_pending_seq, ota_data_started, s_ota_pkt, memory, link,
                 s_wait_start, restarts, late>>

OtaWritePkt ==
  /\ In("WRITE_PKT")
  /\ Write(Fw(s_pending_seq))
  /\ Goto("WAIT_WRITE")
  /\ GetMode
  /\ UNCHANGED <<s_erase_addr, s_next_fw_sector, s_bytes_written, s_meta,
                 s_write_buf, s_pending_seq, ttc, link,
                 s_wait_start, restarts, late>>

OtaWaitWrite ==
  /\ In("WAIT_WRITE")
  /\ status = "idle"
  /\ s_bytes_written' = TRUE
  /\ Goto("WAIT_PKT")
  /\ GetMode
  /\ UNCHANGED <<s_erase_addr, s_next_fw_sector, s_meta, s_write_buf,
                 s_pending_seq, ttc, memory, link,
                 s_wait_start, restarts, late>>

\* A variant: only the first page is looked at.
FirstPageOnFlash(meta) ==
  \E v \in Image : meta = <<v, END>> /\ cells[Fw(0)] = <<v, 0>>

\* The pages on the flash are those that the metadata describe, as far as
\* size and CRC tell.  Metadata that are junk have a bad size or CRC.
ImageOnFlash(meta) ==
  \E v \in Image : /\ meta = <<v, END>>
                   /\ \A n \in 0..(ImagePages - 1) : cells[Fw(n)] = <<v, n>>

OtaWaitEraseMeta ==
  /\ In("WAIT_ERASE_META")
  /\ status = "idle"
  /\ Goto(IF ImageOnFlash(s_meta) THEN "WRITE_META" ELSE "ERROR")
  /\ GetMode
  /\ UNCHANGED <<s_erase_addr, s_next_fw_sector, s_bytes_written, s_meta,
                 s_write_buf, s_pending_seq, ttc, memory, link, s_wait_start, restarts, late>>

OtaWriteMeta ==
  /\ In("WRITE_META")
  /\ Write(META)
  /\ Goto("WAIT_META")
  /\ GetMode
  /\ UNCHANGED <<s_erase_addr, s_next_fw_sector, s_bytes_written, s_meta,
                 s_write_buf, s_pending_seq, ttc, link,
                 s_wait_start, restarts, late>>

OtaWaitMeta ==
  /\ In("WAIT_META")
  /\ status = "idle"
  /\ Goto("RESET")
  /\ GetMode
  /\ UNCHANGED <<s_erase_addr, s_next_fw_sector, s_bytes_written, s_meta,
                 s_write_buf, s_pending_seq, ttc, memory, link, s_wait_start, restarts, late>>

\* The memory has failed, whatever the session was waiting for.
OtaMemoryError ==
  /\ mode = "ota"
  /\ s_state \in {"WAIT_ERASE", "NEED_ERASE", "WAIT_WRITE", "WAIT_ERASE_META",
                  "WAIT_META"}
  /\ status = "error"
  /\ Goto("ERROR")
  /\ GetMode
  /\ UNCHANGED <<s_erase_addr, s_next_fw_sector, s_bytes_written, s_meta,
                 s_write_buf, s_pending_seq, ttc, memory, link, s_wait_start, restarts, late>>

OtaError ==
  /\ In("ERROR")
  /\ OTA_REQUESTED' = FALSE
  /\ Goto("IDLE")
  /\ Abort
  /\ mode' = "communication"      \* getMode
  /\ heard' = FALSE
  /\ UNCHANGED <<s_erase_addr, s_next_fw_sector, s_bytes_written, s_meta,
                 s_write_buf, s_pending_seq, s_ota_pkt, memory, link,
                 s_wait_start, restarts, late>>

\* The handler finds nothing to do yet.
OtaWaits ==
  /\ mode = "ota"
  /\ \/ s_state = "IDLE" /\ ~(OTA_REQUESTED /\ status = "idle")
     \/ status = "busy" /\ s_state \in {"WAIT_ERASE", "NEED_ERASE",
                             "WAIT_WRITE", "WAIT_ERASE_META", "WAIT_META"}
     \/ /\ status = "idle" /\ s_state = "WAIT_ERASE" /\ s_erase_addr >= FW
        /\ cells[s_erase_addr] \notin LooksBlank
  /\ GetMode
  /\ UNCHANGED <<fsm, ttc, memory, link, s_wait_start, restarts, late>>

----------------------------------------------------------------------------
(* Restarts and time.                                                      *)

\* The processor restarts; the chip and the radio link do not.
RestartProcessor ==
  /\ mode' = "boot" /\ heard' = FALSE
  /\ s_state' = "IDLE"
  /\ s_erase_addr' = META /\ s_next_fw_sector' = META
  /\ s_bytes_written' = FALSE
  /\ s_meta' = Blank /\ s_write_buf' = Blank
  /\ s_pending_seq' = 0
  /\ s_wait_start' = Unset
  /\ OTA_REQUESTED' = FALSE /\ ota_data_started' = FALSE
  /\ s_ota_pkt_ready' = FALSE /\ s_ota_pkt' = NoPacket
  /\ Flash!Restart
  /\ UNCHANGED link

\* hal_system_reset, after an image has been stored.
OtaReset ==
  /\ In("RESET")
  /\ RestartProcessor
  /\ UNCHANGED <<restarts, late>>

Crash ==
  /\ restarts < MaxRestarts
  /\ restarts' = restarts + 1
  /\ RestartProcessor
  /\ UNCHANGED late

\* The bootloader starts the application.  It erases metadata it has acted
\* upon or found invalid, and otherwise leaves the external flash alone.
Bootloader ==
  /\ mode = "boot"
  /\ mode' = "communication"
  /\ \/ UNCHANGED cells
     \/ /\ cells[META] # Blank /\ running = NoReq
        /\ cells' = [p \in Page |-> IF p < FW THEN Blank ELSE cells[p]]
  /\ UNCHANGED <<fsm, ttc, status, req, stage, running, wp, able, link,
                 OTA_REQUESTED, heard, s_wait_start, restarts, late>>

Later(t) == IF t < WAIT_TIMEOUT THEN t + 1 ELSE t

\* Times are told apart up to WAIT_TIMEOUT.
Clock ==
  /\ s_wait_start' = IF s_wait_start = Unset THEN Unset ELSE Later(s_wait_start)
  /\ s_wait_start' # s_wait_start
  /\ UNCHANGED <<fsm, ttc, memory, link, control, restarts, late>>

OtaMode ==
  \/ OtaIdle \/ OtaWaitEraseFirst \/ OtaWaitEraseReady
  \/ OtaWaitPktNone \/ OtaWaitPktEnd \/ OtaWaitPktEmpty \/ OtaWaitPktErase
  \/ OtaWaitPktWrite \/ OtaNeedErase \/ OtaWritePkt \/ OtaWaitWrite
  \/ OtaWaitEraseMeta \/ OtaWriteMeta \/ OtaWaitMeta \/ OtaMemoryError
  \/ OtaError \/ OtaReset \/ OtaWaits

Handler == CommunicationMode \/ OtaMode
=============================================================================
