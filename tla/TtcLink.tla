------------------------------ MODULE TtcLink ------------------------------
(***************************************************************************)
(* The radio link byte by byte: the interrupt handler and its ring buffer  *)
(* (hal_usart.c), the transmit and receive FSMs (usart_driver.c), the      *)
(* commands, the frame scanner and the replies of the TT&C (ttc.c), and a  *)
(* stop-and-wait ground station.                                           *)
(*                                                                         *)
(* A turn of the super-loop runs the handler of the mode and then          *)
(* ttc_tick, which ticks the transmitter, then the receiver, and then      *)
(* listens again if a reply has just gone out.  Between any two of these   *)
(* bytes arrive, and the interrupt handler stores them.                    *)
(*                                                                         *)
(* A byte is <<kind, n, i>>: the i-th byte of frame n of its kind.  What   *)
(* the program sees of it is Code(byte).  A command is a code and zeros; a *)
(* packet is the sync word AA 55, a header and its data.                   *)
(***************************************************************************)
EXTENDS Naturals, Sequences, FiniteSets

CONSTANTS
  Pages,              \* data packets of a transfer
  TTC_CMD_LEN,        \* bytes of a command, and of a reply
  OTA_FULL_PACKET,    \* bytes of a packet
  RX_CIRC_BUF_SIZE,   \* of the ring buffer, one byte of which stays free
  USART_TIMEOUT_MAX,
  MaxCommands,        \* bound: commands of the ground and unasked telemetry
  MaxFaults           \* bound: bytes or replies lost, transmissions stalled

ASSUME LinkAssumption ==
  /\ Pages \in Nat \ {0} /\ Pages < 65535     \* which is the END packet
  /\ TTC_CMD_LEN \in Nat \ {0}
  /\ OTA_FULL_PACKET \in Nat /\ OTA_FULL_PACKET > 2
  /\ TTC_CMD_LEN <= OTA_FULL_PACKET
  /\ RX_CIRC_BUF_SIZE \in Nat /\ OTA_FULL_PACKET < RX_CIRC_BUF_SIZE
  /\ USART_TIMEOUT_MAX \in Nat \ {0}
  /\ MaxCommands \in Nat
  /\ MaxFaults \in Nat

Kinds == {"START", "REQUEST", "END_OTA", "PKT", "END", "SYNC", "NONE"}
Byte  == Kinds \X (0..Pages) \X (0..(OTA_FULL_PACKET - 1))

FrameLen(kind) == IF kind \in {"PKT", "END"} THEN OTA_FULL_PACKET
                                            ELSE TTC_CMD_LEN
Frame(kind, n) == [i \in 1..FrameLen(kind) |-> <<kind, n, i - 1>>]

\* What the program can tell of a byte.
Code(b) ==
  IF b[1] \in {"PKT", "END", "SYNC"}
  THEN CASE b[3] = 0 -> "AA" [] b[3] = 1 -> "55" [] OTHER -> "data"
  ELSE IF b[3] = 0 THEN b[1] ELSE "NONE"

Zero == <<"NONE", 0, 0>>

END     == 65535      \* number of the END packet
Garbage == Pages      \* stands for any number that no page of the image has

\* The number of a packet, which may not be made of header bytes at all.
SeqOf(buf) ==
  CASE buf[3][1] = "PKT" /\ buf[3][3] = 2 -> buf[3][2]
    [] buf[3][1] = "END" /\ buf[3][3] = 2 -> END
    [] OTHER -> Garbage

VARIABLES
  pc,                 \* what runs next: "modes", "tx", "rx" or "end"
  rx_circ_buf,        \* bytes in the ring buffer
  usart,              \* the usart_handle_t
  rx_buf, ota_frame_byte, ota_ack_buf,
  waiting_tx,
  ota_data_started, ota_frame_state,
  s_ota_pkt,          \* the staged packet: its number and bytes, or NoPkt
  OTA_REQUESTED,
  session,            \* how far otaMode is
  COMM_WINDOW_OPEN,
  wire,               \* bytes on their way to the satellite
  air,                \* replies whose bytes went out in this transmission
  down,               \* the last reply that arrived, or None
  gstate, gseq,       \* of the ground, as in OtaSession
  gwait,              \* the ground has sent a frame and awaits the answer
  commands, faults,   \* counters for the bounds
  overrun,            \* history: the ring buffer had no room for a byte
  torn,               \* history: a frame was parsed that nobody had sent
  whole               \* history: packets that were staged whole

device  == <<rx_circ_buf, usart>>
buffers == <<rx_buf, ota_frame_byte>>
frame   == <<ota_data_started, ota_frame_state>>
replies == <<ota_ack_buf, waiting_tx>>
control == <<OTA_REQUESTED, session, COMM_WINDOW_OPEN>>
ttc     == <<buffers, frame, replies, s_ota_pkt, control>>
sky     == <<wire, air, down>>
ground  == <<gstate, gseq, gwait, commands>>
history == <<overrun, torn, whole>>
vars    == <<pc, device, ttc, sky, ground, faults, history>>

NoPkt == [seq |-> 0, buf |-> <<>>]
None  == [kind |-> "none", seq |-> 0]
Seqs  == 0..Pages \cup {END}
Reply == [kind : {"READY", "ACK", "NACK"}, seq : Seqs]

Targets  == {"cmd", "scan", "packet", "full"}
Sessions == {"idle", "erasing", "erased", "open", "writing", "closing",
             "expired", "error", "done"}

Usart ==
  [rx_state : {"IDLE", "RECEIVING", "ERROR"},
   rx_target : Targets, rx_len : 0..OTA_FULL_PACKET,
   rx_index : 0..OTA_FULL_PACKET,
   tx_state : {"IDLE", "TRANSMITTING", "ERROR"},
   tx_buf : {"null", "ota_ack_buf", "tx_buf"}, tx_len : 0..TTC_CMD_LEN,
   tx_index : 0..TTC_CMD_LEN, timeout : 0..(USART_TIMEOUT_MAX + 1)]

DeviceTypeOK ==
  /\ rx_circ_buf \in Seq(Byte) /\ Len(rx_circ_buf) < RX_CIRC_BUF_SIZE
  /\ usart \in Usart
  /\ rx_buf \in [1..OTA_FULL_PACKET -> Byte]
  /\ ota_frame_byte \in Byte

TtcTypeOK ==
  /\ pc \in {"modes", "tx", "rx", "end"}
  /\ ota_ack_buf \in Reply \cup {None}
  /\ waiting_tx \in BOOLEAN
  /\ ota_data_started \in BOOLEAN
  /\ ota_frame_state \in {"HUNT_AA", "HUNT_55", "FOUND"}
  /\ s_ota_pkt.seq \in Seqs
  /\ OTA_REQUESTED \in BOOLEAN /\ COMM_WINDOW_OPEN \in BOOLEAN
  /\ session \in Sessions

SkyTypeOK ==
  /\ wire \in Seq(Byte) /\ Len(wire) <= OTA_FULL_PACKET
  /\ air \in Seq(Reply \cup {None}) /\ Len(air) <= TTC_CMD_LEN
  /\ down \in Reply \cup {None}

GroundTypeOK ==
  /\ gstate \in {"off", "starting", "sending", "ending"}
  /\ gseq \in 0..Pages
  /\ gwait \in BOOLEAN
  /\ commands \in 0..MaxCommands /\ faults \in 0..MaxFaults

HistoryTypeOK ==
  /\ overrun \in BOOLEAN /\ torn \in BOOLEAN
  /\ whole \subseteq Seqs

TypeOK ==
  DeviceTypeOK /\ TtcTypeOK /\ SkyTypeOK /\ GroundTypeOK /\ HistoryTypeOK

----------------------------------------------------------------------------
(* usart_driver.c: starting a reception and a transmission.                *)

\* Variant: the last byte of a packet is not waited for.
LengthShort(target) == CASE target = "cmd"    -> TTC_CMD_LEN
                         [] target = "scan"   -> 1
                         [] target = "packet" -> OTA_FULL_PACKET - 3
                         [] target = "full"   -> OTA_FULL_PACKET

Length(target) == CASE target = "cmd"    -> TTC_CMD_LEN
                    [] target = "scan"   -> 1
                    [] target = "packet" -> OTA_FULL_PACKET - 2
                    [] target = "full"   -> OTA_FULL_PACKET

\* usart_recv_async, which does nothing unless the receiver is idle.
RecvAsync(u, target) ==
  IF u.rx_state # "IDLE" THEN u
  ELSE [u EXCEPT !.rx_target = target, !.rx_len = Length(target),
                 !.rx_index = 0, !.timeout = 0, !.rx_state = "RECEIVING"]

\* usart_send_async, which does nothing unless the transmitter is idle.
SendAsync(u, buf) ==
  IF u.tx_state # "IDLE" THEN u
  ELSE [u EXCEPT !.tx_buf = buf, !.tx_len = TTC_CMD_LEN,
                 !.tx_index = 0, !.timeout = 0, !.tx_state = "TRANSMITTING"]

\* ttc_read_async.
ReadAsync(u, started, state) ==
  RecvAsync(u, CASE started /\ state # "FOUND" -> "scan"
                 [] started /\ state = "FOUND" -> "full"
                 [] ~started                   -> "cmd")

\* A transmission that is accepted is a new one on the air.
OnAir(u) == IF u.tx_state = "IDLE" THEN <<>> ELSE air

----------------------------------------------------------------------------
(* ttc.c: what a received frame does.  u is the handle as the receiver     *)
(* leaves it to the callback, idle.                                        *)

\* The reply is put in its buffer whether or not the transmitter is free.
SendReply(u, reply) ==
  /\ ota_ack_buf' = reply
  /\ waiting_tx' = TRUE
  /\ air' = OnAir(u)
  /\ usart' = SendAsync(u, "ota_ack_buf")

NoReply(u, started, state) ==
  /\ usart' = IF waiting_tx THEN u ELSE ReadAsync(u, started, state)
  /\ UNCHANGED <<replies, air>>

SendTelemetry(u) ==
  /\ waiting_tx' = TRUE
  /\ air' = OnAir(u)
  /\ usart' = SendAsync(u, "tx_buf")
  /\ UNCHANGED ota_ack_buf

ParseRequest(u) ==
  /\ SendTelemetry(u)
  /\ COMM_WINDOW_OPEN' = TRUE
  /\ UNCHANGED <<frame, s_ota_pkt, OTA_REQUESTED, session>>

\* START_OTA: abort, reset of the sub-FSM, request.
ParseStart(u) ==
  /\ ota_data_started' = FALSE /\ ota_frame_state' = "HUNT_AA"
  /\ s_ota_pkt' = NoPkt
  /\ OTA_REQUESTED' = TRUE /\ COMM_WINDOW_OPEN' = TRUE
  /\ session' = "erasing"
  /\ NoReply(u, FALSE, "HUNT_AA")

ParseEndOta(u) ==
  /\ ota_data_started' = FALSE /\ ota_frame_state' = "HUNT_AA"
  /\ OTA_REQUESTED' = FALSE
  /\ NoReply(u, FALSE, "HUNT_AA")
  /\ UNCHANGED <<s_ota_pkt, session, COMM_WINDOW_OPEN>>

\* Zeros are no command, and anything else is a failed one.
ParseOther(u) ==
  /\ NoReply(u, ota_data_started, ota_frame_state)
  /\ UNCHANGED <<frame, s_ota_pkt, control>>

ttc_parse(u, buf) ==
  CASE Code(buf[1]) = "REQUEST" -> ParseRequest(u)
    [] Code(buf[1]) = "START"   -> ParseStart(u)
    [] Code(buf[1]) = "END_OTA" -> ParseEndOta(u)
    [] OTHER                    -> ParseOther(u)

Ack(seq) == [kind |-> "ACK", seq |-> seq]

\* Not a packet: the ground is to send it again.
OtaBadSync(u) ==
  /\ SendReply(u, [kind |-> "NACK", seq |-> 0])
  /\ UNCHANGED <<ota_data_started, s_ota_pkt>>

OtaEnd(u, buf) ==
  /\ ota_data_started' = FALSE
  /\ s_ota_pkt' = [seq |-> END, buf |-> buf]
  /\ SendReply(u, Ack(END))

OtaData(u, buf) ==
  /\ s_ota_pkt = NoPkt
  /\ s_ota_pkt' = [seq |-> SeqOf(buf), buf |-> buf]
  /\ SendReply(u, Ack(SeqOf(buf)))
  /\ UNCHANGED ota_data_started

\* The flash is still busy with the packet before: no answer.
OtaDrop(u) ==
  /\ s_ota_pkt # NoPkt
  /\ NoReply(u, ota_data_started, "HUNT_AA")
  /\ UNCHANGED <<ota_data_started, s_ota_pkt>>

ttc_parse_ota(u, buf) ==
  IF <<Code(buf[1]), Code(buf[2])>> # <<"AA", "55">> THEN OtaBadSync(u)
  ELSE IF SeqOf(buf) = END THEN OtaEnd(u, buf)
  ELSE OtaData(u, buf) \/ OtaDrop(u)

\* buf holds one frame that somebody sent (the sync word is put there).
IsWhole(buf) ==
  IF ota_data_started
  THEN \E kind \in {"PKT", "END"}, n \in 0..Pages :
         \A i \in 3..OTA_FULL_PACKET : buf[i] = <<kind, n, i - 1>>
  ELSE \E kind \in {"START", "REQUEST", "END_OTA"} :
         \A i \in 1..TTC_CMD_LEN : buf[i] = <<kind, 0, i - 1>>

Witness(buf) ==
  /\ torn' = (torn \/ ~IsWhole(buf))
  /\ whole' = IF ~ota_data_started THEN IF Code(buf[1]) = "START" THEN {}
                                        ELSE whole
              ELSE IF IsWhole(buf) /\ s_ota_pkt' # s_ota_pkt
                   THEN whole \cup {SeqOf(buf)} ELSE whole
  /\ UNCHANGED overrun

\* on_ttc_done after a frame.
OnTtcDone(u, buf) ==
  IF ota_data_started
  THEN /\ ttc_parse_ota(u, buf)
       /\ ota_frame_state' = "HUNT_AA"
       /\ UNCHANGED control
  ELSE ttc_parse(u, buf)

\* The scanner's next state; FOUND begins a packet.
Scanned(b) ==
  CASE ota_frame_state = "HUNT_55" /\ Code(b) = "55" -> "FOUND"
    [] ota_frame_state # "FOUND" /\ Code(b) = "AA"   -> "HUNT_55"
    [] OTHER                                         -> "HUNT_AA"

----------------------------------------------------------------------------
(* usart_rx_tick.                                                          *)

Rx == pc = "rx" /\ pc' = "end"
HasData == rx_circ_buf # <<>>

Elsewhere == UNCHANGED <<wire, down, ground, faults>>

\* Variant: it goes on where the last reception ended.
RxIdleGoingOn ==
  /\ Rx
  /\ usart.rx_state = "IDLE"
  /\ HasData
  /\ usart' = [usart EXCEPT !.rx_state = "RECEIVING", !.timeout = 0]
  /\ Elsewhere
  /\ UNCHANGED <<rx_circ_buf, ttc, air, history>>

\* The receiver begins anew with the buffer and length it had last.
RxIdle ==
  /\ Rx
  /\ usart.rx_state = "IDLE"
  /\ HasData
  /\ usart' = [usart EXCEPT !.rx_state = "RECEIVING", !.rx_index = 0,
                            !.timeout = 0]
  /\ Elsewhere
  /\ UNCHANGED <<rx_circ_buf, ttc, air, history>>

\* The byte goes where the reception put the buffer: the scanner's byte, the
\* start of rx_buf or, for the rest of a packet, behind the sync word.
Store(b) ==
  IF usart.rx_target = "scan" THEN ota_frame_byte' = b /\ UNCHANGED rx_buf
  ELSE /\ rx_buf' = [rx_buf EXCEPT
            ![usart.rx_index + IF usart.rx_target = "packet" THEN 3 ELSE 1] = b]
       /\ UNCHANGED ota_frame_byte

Taken == [usart EXCEPT !.rx_index = @ + 1, !.timeout = 0]

Receiving(b) ==
  /\ Rx
  /\ usart.rx_state = "RECEIVING"
  /\ HasData
  /\ b = Head(rx_circ_buf)
  /\ rx_circ_buf' = Tail(rx_circ_buf)

RxMore ==
  \E b \in Byte :
    /\ Receiving(b)
    /\ Taken.rx_index < usart.rx_len
    /\ Store(b)
    /\ usart' = Taken
    /\ Elsewhere
    /\ UNCHANGED <<frame, replies, s_ota_pkt, control, air, history>>

\* The whole frame is there: on_ttc_done.
RxFrame ==
  \E b \in Byte :
    /\ Receiving(b)
    /\ usart.rx_target # "scan"
    /\ Taken.rx_index >= usart.rx_len
    /\ Store(b)
    /\ OnTtcDone([Taken EXCEPT !.rx_state = "IDLE"], rx_buf')
    /\ Witness(rx_buf')
    /\ Elsewhere

\* The scanner has its byte: on_ota_frame_byte.
RxScan ==
  \E b \in Byte :
    /\ Receiving(b)
    /\ usart.rx_target = "scan"
    /\ ota_frame_byte' = b
    /\ ota_frame_state' = Scanned(b)
    /\ LET u == [Taken EXCEPT !.rx_state = "IDLE"] IN
       IF ota_frame_state' = "FOUND"
       THEN /\ rx_buf' = [rx_buf EXCEPT ![1] = <<"SYNC", 0, 0>>,
                                        ![2] = <<"SYNC", 0, 1>>]
            /\ usart' = RecvAsync(u, "packet")
       ELSE /\ usart' = IF waiting_tx THEN u
                        ELSE ReadAsync(u, ota_data_started, ota_frame_state')
            /\ UNCHANGED rx_buf
    /\ Elsewhere
    /\ UNCHANGED <<ota_data_started, replies, s_ota_pkt, control, air, history>>

\* In the middle of a frame, and no byte.  A byte that is on its way comes
\* long before the timeout.
RxWaits ==
  /\ Rx
  /\ usart.rx_state = "RECEIVING"
  /\ ~HasData
  /\ usart.rx_index > 0
  /\ usart.timeout + 1 < USART_TIMEOUT_MAX \/ wire = <<>>
  /\ usart' = [usart EXCEPT !.timeout = @ + 1,
                 !.rx_state = IF usart.timeout + 1 >= USART_TIMEOUT_MAX
                              THEN "ERROR" ELSE "RECEIVING"]
  /\ Elsewhere
  /\ UNCHANGED <<rx_circ_buf, ttc, air, history>>

\* The callback hears of the error first, while the receiver is not idle, and
\* so cannot begin another reception.
RxError ==
  /\ Rx
  /\ usart.rx_state = "ERROR"
  /\ usart' = [usart EXCEPT !.rx_state = "IDLE", !.rx_index = 0, !.rx_len = 0,
                            !.timeout = 0]
  /\ Elsewhere
  /\ UNCHANGED <<rx_circ_buf, ttc, air, history>>

RxNothing ==
  /\ Rx
  /\ ~HasData
  /\ \/ usart.rx_state = "IDLE"
     \/ usart.rx_state = "RECEIVING" /\ usart.rx_index = 0
  /\ Elsewhere
  /\ UNCHANGED <<device, ttc, air, history>>

----------------------------------------------------------------------------
(* usart_tx_tick.                                                          *)

Tx == pc = "tx" /\ pc' = "rx"

TxIdle ==
  /\ Tx
  /\ usart.tx_state = "IDLE"
  /\ Elsewhere
  /\ UNCHANGED <<device, ttc, air, history>>

Sent(m) == air' = [i \in 1..TTC_CMD_LEN |-> m]

\* The ground understands what has arrived if it is one reply.
TxByte ==
  /\ Tx
  /\ usart.tx_state = "TRANSMITTING"
  /\ usart' = [usart EXCEPT !.tx_index = @ + 1, !.timeout = 0,
                 !.tx_state = IF usart.tx_index + 1 >= usart.tx_len
                              THEN "IDLE" ELSE "TRANSMITTING"]
  /\ air' = Append(air, IF usart.tx_buf = "tx_buf" THEN None ELSE ota_ack_buf)
  /\ down' = IF \E m \in Reply : Sent(m) THEN air'[1] ELSE down
  /\ UNCHANGED <<rx_circ_buf, ttc, wire, ground, faults, history>>

TxBusy ==
  /\ Tx
  /\ usart.tx_state = "TRANSMITTING"
  /\ usart.timeout + 1 < USART_TIMEOUT_MAX
  /\ usart' = [usart EXCEPT !.timeout = @ + 1]
  /\ Elsewhere
  /\ UNCHANGED <<rx_circ_buf, ttc, air, history>>

Fault == faults < MaxFaults /\ faults' = faults + 1

TxStalls ==
  /\ Tx
  /\ Fault
  /\ usart.tx_state = "TRANSMITTING"
  /\ usart' = [usart EXCEPT !.timeout = USART_TIMEOUT_MAX, !.tx_state = "ERROR"]
  /\ UNCHANGED <<rx_circ_buf, ttc, sky, ground, history>>

TxError ==
  /\ Tx
  /\ usart.tx_state = "ERROR"
  /\ usart' = [usart EXCEPT !.tx_index = 0, !.tx_len = 0, !.timeout = 0,
                            !.tx_state = "IDLE"]
  /\ Elsewhere
  /\ UNCHANGED <<rx_circ_buf, ttc, air, history>>

\* The end of ttc_tick: a reply is out, and the TT&C listens again.
TickEnd ==
  /\ pc = "end" /\ pc' = "modes"
  /\ IF /\ waiting_tx
        /\ usart.tx_state = "IDLE"
        /\ usart.tx_index >= usart.tx_len
        /\ usart.tx_len > 0
     THEN /\ waiting_tx' = FALSE
          /\ usart' = ReadAsync(usart, ota_data_started, ota_frame_state)
     ELSE UNCHANGED <<waiting_tx, usart>>
  /\ Elsewhere
  /\ UNCHANGED <<rx_circ_buf, buffers, frame, ota_ack_buf, s_ota_pkt, control,
                 air, history>>

----------------------------------------------------------------------------
(* What the mode handlers do with the link.                                *)

Handler == pc = "modes" /\ pc' = "tx"

\* nominalMode, until the ground has opened the communication window.
ModeTelemetry ==
  /\ Handler
  /\ ~COMM_WINDOW_OPEN /\ ~OTA_REQUESTED
  /\ commands < MaxCommands /\ commands' = commands + 1
  /\ SendTelemetry(usart)
  /\ UNCHANGED <<wire, down, gstate, gseq, gwait, faults>>
  /\ UNCHANGED <<rx_circ_buf, buffers, frame, s_ota_pkt, control, history>>

\* ttc_send_ota_ready: whatever is being received is dropped.
ModeReady ==
  /\ Handler
  /\ OTA_REQUESTED /\ session = "erased"
  /\ session' = "open"
  /\ ota_data_started' = TRUE /\ ota_frame_state' = "HUNT_AA"
  /\ SendReply([usart EXCEPT !.rx_state = "IDLE"],
               [kind |-> "READY", seq |-> 0])
  /\ Elsewhere
  /\ UNCHANGED <<rx_circ_buf, buffers, s_ota_pkt, OTA_REQUESTED,
                 COMM_WINDOW_OPEN, history>>

\* A staged packet is taken, and its write begins.
ModeTake ==
  /\ Handler
  /\ OTA_REQUESTED /\ session \in {"open", "expired"}
  /\ s_ota_pkt # NoPkt
  /\ s_ota_pkt' = NoPkt
  /\ session' = IF s_ota_pkt.seq = END THEN "closing" ELSE "writing"
  /\ Elsewhere
  /\ UNCHANGED <<device, buffers, frame, replies, OTA_REQUESTED,
                 COMM_WINDOW_OPEN, air, history>>

ModeGivesUp ==
  /\ Handler
  /\ OTA_REQUESTED /\ session = "expired"
  /\ s_ota_pkt = NoPkt
  /\ session' = "error"
  /\ Elsewhere
  /\ UNCHANGED <<device, buffers, frame, replies, s_ota_pkt, OTA_REQUESTED,
                 COMM_WINDOW_OPEN, air, history>>

\* Variant: the abort leaves the frame scanner on.
ModeAbortScanning ==
  /\ Handler
  /\ OTA_REQUESTED /\ session = "error"
  /\ s_ota_pkt' = NoPkt
  /\ OTA_REQUESTED' = FALSE /\ session' = "idle"
  /\ Elsewhere
  /\ UNCHANGED <<device, buffers, frame, replies, COMM_WINDOW_OPEN, air, history>>

\* ota_handle_error: ttc_ota_abort, which leaves the receiver as it is.
ModeAbort ==
  /\ Handler
  /\ OTA_REQUESTED /\ session = "error"
  /\ ota_data_started' = FALSE /\ ota_frame_state' = "HUNT_AA"
  /\ s_ota_pkt' = NoPkt
  /\ OTA_REQUESTED' = FALSE /\ session' = "idle"
  /\ Elsewhere
  /\ UNCHANGED <<device, buffers, replies, COMM_WINDOW_OPEN, air, history>>

\* The handle at rest, listening for a command (init.c:310).
Listening ==
  [rx_state |-> "RECEIVING", rx_target |-> "cmd", rx_len |-> TTC_CMD_LEN,
   rx_index |-> 0, tx_state |-> "IDLE", tx_buf |-> "null", tx_len |-> 0,
   tx_index |-> 0, timeout |-> 0]

NoBytes == [i \in 1..OTA_FULL_PACKET |-> Zero]

\* The image is complete: the processor restarts.
ModeRestart ==
  /\ pc = "modes" /\ pc' = "modes"
  /\ OTA_REQUESTED /\ session = "done"
  /\ rx_circ_buf' = <<>> /\ usart' = Listening
  /\ rx_buf' = NoBytes /\ ota_frame_byte' = Zero
  /\ ota_ack_buf' = None /\ waiting_tx' = FALSE
  /\ ota_data_started' = FALSE /\ ota_frame_state' = "HUNT_AA"
  /\ s_ota_pkt' = NoPkt
  /\ OTA_REQUESTED' = FALSE /\ COMM_WINDOW_OPEN' = FALSE
  /\ session' = "idle" /\ air' = <<>>
  /\ UNCHANGED <<wire, down, ground, faults, history>>

ModeNothing ==
  /\ Handler
  /\ ~(OTA_REQUESTED /\ session \in {"erased", "expired", "error", "done"})
  /\ ~(OTA_REQUESTED /\ session = "open" /\ s_ota_pkt # NoPkt)
  /\ Elsewhere
  /\ UNCHANGED <<device, ttc, air, history>>

\* The flash has finished what the session waits for.  To erase a sector or
\* two takes longer than any transmission.
MemoryDone ==
  /\ \/ session = "erasing" /\ session' = "erased" /\ usart.tx_state = "IDLE"
     \/ session = "writing" /\ session' = "open"
     \/ session = "closing" /\ session' = "done" /\ usart.tx_state = "IDLE"
  /\ UNCHANGED <<pc, device, buffers, frame, replies, s_ota_pkt, OTA_REQUESTED,
                 COMM_WINDOW_OPEN, sky, ground, faults, history>>

\* Whatever the last frame could cause has come to its end.
AtRest ==
  /\ rx_circ_buf = <<>>
  /\ down = None
  /\ usart.tx_state = "IDLE"
  /\ usart.rx_state # "ERROR"
  /\ ~(usart.rx_state = "RECEIVING" /\ usart.rx_index > 0)
  /\ OTA_REQUESTED => session = "open" /\ s_ota_pkt = NoPkt

\* No packet for OTA_PKT_WAIT_TIMEOUT_MS.  The ground repeats a packet much
\* sooner than that, and a reply is out much sooner.
Silence ==
  /\ session = "open"
  /\ s_ota_pkt = NoPkt
  /\ gstate \notin {"sending", "ending"} /\ wire = <<>> /\ AtRest
  /\ session' = "expired"
  /\ UNCHANGED <<pc, device, buffers, frame, replies, s_ota_pkt, OTA_REQUESTED,
                 COMM_WINDOW_OPEN, sky, ground, faults, history>>

----------------------------------------------------------------------------
(* The interrupt handler and the link.                                     *)

\* Variant: the handler does not look whether there is room.
USART0_HandlerBlind ==
  /\ wire # <<>>
  /\ wire' = Tail(wire)
  /\ rx_circ_buf' = Append(rx_circ_buf, Head(wire))
  /\ UNCHANGED <<pc, usart, ttc, air, down, ground, faults, history>>

USART0_Handler ==
  /\ wire # <<>>
  /\ wire' = Tail(wire)
  /\ IF Len(rx_circ_buf) + 1 < RX_CIRC_BUF_SIZE
     THEN rx_circ_buf' = Append(rx_circ_buf, Head(wire)) /\ UNCHANGED overrun
     ELSE overrun' = TRUE /\ UNCHANGED rx_circ_buf
  /\ UNCHANGED <<pc, usart, ttc, air, down, ground, faults, torn, whole>>

LoseByte ==
  /\ wire # <<>>
  /\ Fault
  /\ wire' = Tail(wire)
  /\ UNCHANGED <<pc, device, ttc, air, down, ground, history>>

LoseReply ==
  /\ down # None
  /\ Fault
  /\ down' = None
  /\ UNCHANGED <<pc, device, ttc, wire, air, ground, history>>

----------------------------------------------------------------------------
(* The ground: one frame at a time, repeated when nothing happens any more. *)

\* (A byte takes far longer on the air than ttc_tick runs.)
Sends(kind, n) ==
  /\ pc = "modes"
  /\ wire = <<>>
  /\ ~gwait \/ AtRest
  /\ wire' = Frame(kind, n)
  /\ gwait' = TRUE
  /\ UNCHANGED <<pc, device, ttc, air, down, faults>>

GroundStart ==
  /\ gstate = "off"
  /\ commands < MaxCommands /\ commands' = commands + 1
  /\ Sends("START", 0)
  /\ gstate' = "starting" /\ gseq' = 0 /\ whole' = {}
  /\ UNCHANGED <<overrun, torn>>

GroundCommand ==
  /\ gstate = "off"
  /\ commands < MaxCommands /\ commands' = commands + 1
  /\ \E kind \in {"REQUEST", "END_OTA"} : Sends(kind, 0)
  /\ UNCHANGED <<gstate, gseq, history>>

GroundSend ==
  /\ CASE gstate = "starting" -> Sends("START", 0)
       [] gstate = "sending"  -> Sends("PKT", gseq)
       [] gstate = "ending"   -> Sends("END", 0)
       [] OTHER               -> FALSE
  /\ UNCHANGED <<gstate, gseq, commands, history>>

GroundHear ==
  /\ pc = "modes"
  /\ down # None
  /\ down' = None
  /\ \/ /\ gstate = "starting" /\ down.kind = "READY"
        /\ gstate' = "sending" /\ gwait' = FALSE
        /\ UNCHANGED gseq
     \/ /\ gstate = "sending" /\ down = Ack(gseq)
        /\ gseq' = gseq + 1 /\ gwait' = FALSE
        /\ gstate' = IF gseq' = Pages THEN "ending" ELSE "sending"
     \/ /\ gstate = "ending" /\ down = Ack(END)
        /\ gstate' = "off"           \* and then the satellite restarts
        /\ UNCHANGED <<gseq, gwait>>
     \/ /\ ~(gstate = "starting" /\ down.kind = "READY")
        /\ ~(gstate = "sending" /\ down = Ack(gseq))
        /\ ~(gstate = "ending" /\ down = Ack(END))
        /\ UNCHANGED <<gstate, gseq, gwait>>
  /\ UNCHANGED <<pc, device, ttc, wire, air, commands, faults, history>>

\* The ground needs no answer to its END packet.
GroundLeaves ==
  /\ gstate = "ending" /\ gwait
  /\ gstate' = "off"
  /\ UNCHANGED <<pc, device, ttc, sky, gseq, gwait, commands, faults, history>>

----------------------------------------------------------------------------

Init ==
  /\ pc = "modes"
  /\ rx_circ_buf = <<>> /\ usart = Listening
  /\ rx_buf = NoBytes /\ ota_frame_byte = Zero
  /\ ota_ack_buf = None /\ waiting_tx = FALSE
  /\ ota_data_started = FALSE /\ ota_frame_state = "HUNT_AA"
  /\ s_ota_pkt = NoPkt
  /\ OTA_REQUESTED = FALSE /\ COMM_WINDOW_OPEN = FALSE /\ session = "idle"
  /\ wire = <<>> /\ air = <<>> /\ down = None
  /\ gstate = "off" /\ gseq = 0 /\ gwait = FALSE
  /\ commands = 0 /\ faults = 0
  /\ overrun = FALSE /\ torn = FALSE /\ whole = {}

UsartRxTick == RxIdle \/ RxMore \/ RxFrame \/ RxScan \/ RxWaits \/ RxError \/ RxNothing
UsartTxTick == TxIdle \/ TxByte \/ TxBusy \/ TxStalls \/ TxError
Modes == ModeTelemetry \/ ModeReady \/ ModeTake \/ ModeGivesUp \/ ModeAbort
         \/ ModeRestart \/ ModeNothing

Turn == Modes \/ UsartTxTick \/ UsartRxTick \/ TickEnd

Next ==
  \/ Turn
  \/ MemoryDone \/ Silence
  \/ USART0_Handler \/ LoseByte \/ LoseReply
  \/ GroundStart \/ GroundCommand \/ GroundSend \/ GroundHear \/ GroundLeaves

Spec == Init /\ [][Next]_vars

\* The super-loop turns, a byte that is ready to go goes, the flash finishes,
\* silence is noticed, bytes arrive, and the ground goes on.
Fairness ==
  /\ WF_vars(Turn)
  /\ SF_vars(TxByte)
  /\ WF_vars(MemoryDone) /\ SF_vars(Silence)
  /\ WF_vars(USART0_Handler)
  /\ SF_vars(GroundSend) /\ SF_vars(GroundHear)

FairSpec == Spec /\ Fairness

----------------------------------------------------------------------------
(* Properties.                                                             *)

\* As long as nothing is lost, every frame that is sent arrives: the interrupt
\* handler never finds the ring buffer full, even if it has room for one packet
\* only and the super-loop is slow, and every frame that is parsed is one that
\* was sent, from its first byte to its last.
FramesAreWhole == overrun \/ torn => faults > 0

\* The receiver never writes behind its buffer, although it begins again
\* with the buffer and the length of an earlier reception.
InBuffer ==
  usart.rx_state = "RECEIVING" /\ usart.rx_target # "scan" =>
    usart.rx_index + (IF usart.rx_target = "packet" THEN 2 ELSE 0)
      < OTA_FULL_PACKET

\* A packet that the ground counts as delivered was received whole (ttc.c:26).
AckMeansWhole ==
  gstate \in {"sending", "ending"} =>
    0..(gseq - 1) \subseteq whole

\* A transfer that was begun goes through.
TransferGoesThrough == gstate = "starting" ~> gstate = "ending"
=============================================================================
