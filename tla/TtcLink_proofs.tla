---------------------------- MODULE TtcLink_proofs ---------------------------
(***************************************************************************)
(* Proofs about the radio link, for any number of pages and any sizes of   *)
(* buffers, commands and packets.                                          *)
(*                                                                         *)
(* The receiver never writes behind its buffer, whatever is lost.  A       *)
(* reception that begins anew on its own keeps the length and the place    *)
(* of the last one; that is safe because the two are only ever set         *)
(* together, and because an error sets the length to 0 and leaves the      *)
(* place alone.                                                            *)
(*                                                                         *)
(* Every variable keeps its type, and every buffer its size.               *)
(*                                                                         *)
(* As long as nothing is lost, every frame arrives and is parsed whole.    *)
(* The invariant tells the four phases of the link apart and, in each,     *)
(* which part of which frame is on its way, which part the receiver has    *)
(* taken, and who is waiting for whom.                                     *)
(*                                                                         *)
(* As long as nothing is lost, an acknowledgement is true: the packet that *)
(* it answers was received from its first byte to its last.                *)
(***************************************************************************)
EXTENDS TtcLink, TLAPS

\* A usart_handle_t, as far as the receiver needs it.
Handles ==
  [rx_state : {"IDLE", "RECEIVING", "ERROR"}, rx_target : Targets,
   rx_len : Nat, rx_index : Nat,
   tx_state : {"IDLE", "TRANSMITTING", "ERROR"},
   tx_buf : {"null", "ota_ack_buf", "tx_buf"},
   tx_len : Nat, tx_index : Nat, timeout : Nat]

\* How far from the start of the buffer the reception puts its first byte.
Offset(u) == IF u.rx_target = "packet" THEN 2 ELSE 0

Fits(u) ==
  /\ u \in Handles
  /\ u.rx_target # "scan" => u.rx_len + Offset(u) <= OTA_FULL_PACKET
  /\ u.rx_state = "RECEIVING" => u.rx_index = 0 \/ u.rx_index < u.rx_len

----------------------------------------------------------------------------

LEMMA Sizes ==
  /\ TTC_CMD_LEN \in Nat /\ OTA_FULL_PACKET \in Nat /\ OTA_FULL_PACKET > 2
  /\ TTC_CMD_LEN <= OTA_FULL_PACKET
  /\ USART_TIMEOUT_MAX \in Nat
BY LinkAssumption

LEMMA LengthFits ==
  ASSUME NEW target \in Targets
  PROVE  /\ Length(target) \in Nat
         /\ target = "packet" => Length(target) + 2 <= OTA_FULL_PACKET
         /\ target # "scan" => Length(target) <= OTA_FULL_PACKET
<1>1. CASE target = "cmd"
  BY <1>1, Sizes DEF Length
<1>2. CASE target = "scan"
  BY <1>2 DEF Length
<1>3. CASE target = "packet"
  BY <1>3, Sizes DEF Length
<1>4. CASE target = "full"
  BY <1>4, Sizes DEF Length
<1> QED
  BY <1>1, <1>2, <1>3, <1>4 DEF Targets

LEMMA RecvFits ==
  ASSUME NEW u, Fits(u), NEW target \in Targets
  PROVE  Fits(RecvAsync(u, target))
<1>1. CASE u.rx_state # "IDLE"
  BY <1>1 DEF RecvAsync
<1>2. CASE u.rx_state = "IDLE"
  <2> DEFINE v == [u EXCEPT !.rx_target = target, !.rx_len = Length(target),
                            !.rx_index = 0, !.timeout = 0,
                            !.rx_state = "RECEIVING"]
  <2>1. RecvAsync(u, target) = v
    BY <1>2 DEF RecvAsync
  <2>2. v \in Handles
    BY LengthFits DEF Fits, Handles
  <2>3. /\ v.rx_target = target /\ v.rx_len = Length(target)
        /\ v.rx_index = 0
    BY DEF Fits, Handles
  <2>4. target # "scan" => Length(target) + Offset(v) <= OTA_FULL_PACKET
    BY <2>3, LengthFits DEF Offset
  <2> QED
    BY <2>1, <2>2, <2>3, <2>4 DEF Fits
<1> QED
  BY <1>1, <1>2

LEMMA ReadFits ==
  ASSUME NEW u, Fits(u), NEW started, NEW state
  PROVE  Fits(ReadAsync(u, started, state))
<1>1. CASE started /\ state # "FOUND"
  BY <1>1, RecvFits DEF ReadAsync, Targets
<1>2. CASE started /\ state = "FOUND"
  BY <1>2, RecvFits DEF ReadAsync, Targets
<1>3. CASE ~started
  BY <1>3, RecvFits DEF ReadAsync, Targets
<1> QED
  BY <1>1, <1>2, <1>3

\* The transmitter's fields do not matter.
LEMMA SendFits ==
  ASSUME NEW u, Fits(u), NEW buf \in {"ota_ack_buf", "tx_buf"}
  PROVE  Fits(SendAsync(u, buf))
<1>1. CASE u.tx_state # "IDLE"
  BY <1>1 DEF SendAsync
<1>2. CASE u.tx_state = "IDLE"
  <2> DEFINE v == [u EXCEPT !.tx_buf = buf, !.tx_len = TTC_CMD_LEN,
                            !.tx_index = 0, !.timeout = 0,
                            !.tx_state = "TRANSMITTING"]
  <2>1. SendAsync(u, buf) = v
    BY <1>2 DEF SendAsync
  <2>2. v \in Handles
    BY Sizes DEF Fits, Handles
  <2>3. /\ v.rx_target = u.rx_target /\ v.rx_len = u.rx_len
        /\ v.rx_index = u.rx_index /\ v.rx_state = u.rx_state
    BY DEF Fits, Handles
  <2> QED
    BY <2>1, <2>2, <2>3 DEF Fits, Offset
<1> QED
  BY <1>1, <1>2

----------------------------------------------------------------------------
(* Whatever a frame makes the TT&C do, the handle it leaves fits.          *)

LEMMA ReplyFits ==
  ASSUME NEW u, Fits(u), NEW r, SendReply(u, r) PROVE Fits(usart')
BY SendFits DEF SendReply

LEMMA NoReplyFits ==
  ASSUME NEW u, Fits(u), NEW started, NEW state, NoReply(u, started, state)
  PROVE  Fits(usart')
<1>1. CASE waiting_tx
  BY <1>1 DEF NoReply
<1>2. CASE ~waiting_tx
  BY <1>2, ReadFits DEF NoReply
<1> QED
  BY <1>1, <1>2

LEMMA ParseFits ==
  ASSUME NEW u, Fits(u), NEW buf, ttc_parse(u, buf) PROVE Fits(usart')
<1>1. \/ ParseRequest(u) \/ ParseStart(u) \/ ParseEndOta(u) \/ ParseOther(u)
  BY DEF ttc_parse
<1>2. CASE ParseRequest(u)
  BY <1>2, SendFits DEF ParseRequest, SendTelemetry
<1>3. CASE ParseStart(u)
  BY <1>3, NoReplyFits DEF ParseStart
<1>4. CASE ParseEndOta(u)
  BY <1>4, NoReplyFits DEF ParseEndOta
<1>5. CASE ParseOther(u)
  BY <1>5, NoReplyFits DEF ParseOther
<1> QED
  BY <1>1, <1>2, <1>3, <1>4, <1>5

LEMMA ParseOtaFits ==
  ASSUME NEW u, Fits(u), NEW buf, ttc_parse_ota(u, buf) PROVE Fits(usart')
<1>1. \/ OtaBadSync(u) \/ OtaEnd(u, buf) \/ OtaData(u, buf) \/ OtaDrop(u)
  BY DEF ttc_parse_ota
<1>2. CASE OtaBadSync(u) \/ OtaEnd(u, buf) \/ OtaData(u, buf)
  BY <1>2, ReplyFits DEF OtaBadSync, OtaEnd, OtaData
<1>3. CASE OtaDrop(u)
  BY <1>3, NoReplyFits DEF OtaDrop
<1> QED
  BY <1>1, <1>2, <1>3

----------------------------------------------------------------------------
(* usart_rx_tick.                                                          *)

\* The handle with one more byte.
LEMMA TakenFields ==
  ASSUME Fits(usart)
  PROVE  /\ Taken \in Handles
         /\ Taken.rx_target = usart.rx_target
         /\ Taken.rx_len = usart.rx_len
<1>1. usart.rx_index + 1 \in Nat /\ 0 \in Nat
  BY DEF Fits, Handles
<1>2. Taken = [usart EXCEPT !.rx_index = usart.rx_index + 1, !.timeout = 0]
  BY DEF Taken
<1> QED
  BY <1>1, <1>2 DEF Fits, Handles

\* The handle that a completed reception leaves to the callback.
LEMMA DoneFits ==
  ASSUME Fits(usart)
  PROVE  Fits([Taken EXCEPT !.rx_state = "IDLE"])
<1> DEFINE t == Taken
<1> DEFINE v == [t EXCEPT !.rx_state = "IDLE"]
<1>1. /\ t \in Handles
      /\ t.rx_target = usart.rx_target /\ t.rx_len = usart.rx_len
  BY TakenFields
<1> HIDE DEF t
<1>2. v \in Handles
  BY <1>1 DEF Handles
<1>3. /\ v.rx_target = usart.rx_target /\ v.rx_len = usart.rx_len
      /\ v.rx_state = "IDLE"
  BY <1>1 DEF Handles
<1>4. Fits(v)
  BY <1>2, <1>3 DEF Fits, Offset
<1> QED
  BY <1>4 DEF t

LEMMA RxFits == ASSUME Fits(usart), UsartRxTick PROVE Fits(usart')
<1>1. CASE RxIdle
  <2>1. usart' = [usart EXCEPT !.rx_state = "RECEIVING", !.rx_index = 0,
                               !.timeout = 0]
    BY <1>1 DEF RxIdle
  <2>2. /\ usart'.rx_target = usart.rx_target /\ usart'.rx_len = usart.rx_len
        /\ usart'.rx_index = 0
    BY <2>1 DEF Fits, Handles
  <2>3. usart' \in Handles
    BY <2>1 DEF Fits, Handles
  <2> QED
    BY <2>2, <2>3 DEF Fits, Offset
<1>2. CASE RxMore
  <2>1. usart' = Taken /\ Taken.rx_index < usart.rx_len
    BY <1>2 DEF RxMore
  <2>2. /\ Taken.rx_target = usart.rx_target /\ Taken.rx_len = usart.rx_len
        /\ Taken \in Handles
    BY TakenFields
  <2> QED
    BY <2>1, <2>2 DEF Fits, Offset
<1>3. CASE RxFrame
  <2>1. PICK b \in Byte :
          OnTtcDone([Taken EXCEPT !.rx_state = "IDLE"], rx_buf')
    BY <1>3 DEF RxFrame
  <2> QED
    BY <2>1, DoneFits, ParseFits, ParseOtaFits DEF OnTtcDone
<1>4. CASE RxScan
  <2> DEFINE u == [Taken EXCEPT !.rx_state = "IDLE"]
  <2>1. \/ usart' = RecvAsync(u, "packet")
        \/ usart' = u
        \/ usart' = ReadAsync(u, ota_data_started, ota_frame_state')
    BY <1>4 DEF RxScan
  <2>2. Fits(u)
    BY DoneFits
  <2> HIDE DEF u
  <2>3. Fits(RecvAsync(u, "packet"))
    BY <2>2, RecvFits DEF Targets
  <2>4. Fits(ReadAsync(u, ota_data_started, ota_frame_state'))
    BY <2>2, ReadFits
  <2> QED
    BY <2>1, <2>2, <2>3, <2>4
<1>5. CASE RxWaits
  <2> DEFINE s == IF usart.timeout + 1 >= USART_TIMEOUT_MAX
                  THEN "ERROR" ELSE "RECEIVING"
  <2>1. /\ usart' = [usart EXCEPT !.timeout = @ + 1, !.rx_state = s]
        /\ usart.rx_state = "RECEIVING"
    BY <1>5 DEF RxWaits
  <2> HIDE DEF s
  <2>2. usart' \in Handles
    <3>1. s \in {"ERROR", "RECEIVING"}
      BY DEF s
    <3>2. usart.timeout + 1 \in Nat
      BY DEF Fits, Handles
    <3> QED
      BY <2>1, <3>1, <3>2 DEF Fits, Handles
  <2>3. /\ usart'.rx_target = usart.rx_target /\ usart'.rx_len = usart.rx_len
        /\ usart'.rx_index = usart.rx_index
    BY <2>1 DEF Fits, Handles
  <2> QED
    BY <2>1, <2>2, <2>3 DEF Fits, Offset
<1>6. CASE RxError
  <2>1. usart' = [usart EXCEPT !.rx_state = "IDLE", !.rx_index = 0,
                               !.rx_len = 0, !.timeout = 0]
    BY <1>6 DEF RxError
  <2>2. /\ usart' \in Handles /\ usart'.rx_state = "IDLE"
        /\ usart'.rx_len = 0
    BY <2>1 DEF Fits, Handles
  <2>3. Offset(usart') <= OTA_FULL_PACKET /\ Offset(usart') \in Nat
    BY Sizes DEF Offset
  <2> QED
    BY <2>2, <2>3 DEF Fits
<1>7. CASE RxNothing
  BY <1>7 DEF RxNothing, device
<1> QED
  BY <1>1, <1>2, <1>3, <1>4, <1>5, <1>6, <1>7 DEF UsartRxTick

----------------------------------------------------------------------------
(* The rest of a turn.                                                     *)

LEMMA TxFits == ASSUME Fits(usart), UsartTxTick PROVE Fits(usart')
<1> DEFINE Same == /\ usart'.rx_target = usart.rx_target
                   /\ usart'.rx_len = usart.rx_len
                   /\ usart'.rx_index = usart.rx_index
                   /\ usart'.rx_state = usart.rx_state
                   /\ usart' \in Handles
<1>1. ASSUME Same PROVE Fits(usart')
  BY <1>1 DEF Fits, Offset
<1>2. CASE TxIdle
  BY <1>2 DEF TxIdle, device
<1>3. CASE TxByte
  <2> DEFINE s == IF usart.tx_index + 1 >= usart.tx_len
                  THEN "IDLE" ELSE "TRANSMITTING"
  <2>1. usart' = [usart EXCEPT !.tx_index = @ + 1, !.timeout = 0,
                               !.tx_state = s]
    BY <1>3 DEF TxByte
  <2> HIDE DEF s
  <2>2. Same
    <3>1. s \in {"IDLE", "TRANSMITTING"}
      BY DEF s
    <3>2. usart.tx_index + 1 \in Nat /\ 0 \in Nat
      BY DEF Fits, Handles
    <3> QED
      BY <2>1, <3>1, <3>2 DEF Fits, Handles
  <2> QED
    BY <1>1, <2>2
<1>4. CASE TxBusy
  <2>1. usart' = [usart EXCEPT !.timeout = @ + 1]
    BY <1>4 DEF TxBusy
  <2>2. Same
    BY <2>1 DEF Fits, Handles
  <2> QED
    BY <1>1, <2>2
<1>5. CASE TxStalls
  <2>1. usart' = [usart EXCEPT !.timeout = USART_TIMEOUT_MAX,
                               !.tx_state = "ERROR"]
    BY <1>5 DEF TxStalls
  <2>2. Same
    BY <2>1, Sizes DEF Fits, Handles
  <2> QED
    BY <1>1, <2>2
<1>6. CASE TxError
  <2>1. usart' = [usart EXCEPT !.tx_index = 0, !.tx_len = 0, !.timeout = 0,
                               !.tx_state = "IDLE"]
    BY <1>6 DEF TxError
  <2>2. Same
    BY <2>1 DEF Fits, Handles
  <2> QED
    BY <1>1, <2>2
<1> QED
  BY <1>2, <1>3, <1>4, <1>5, <1>6 DEF UsartTxTick

LEMMA ListeningFits == Fits(Listening)
<1>1. Listening \in Handles
  BY Sizes DEF Listening, Handles, Targets
<1>2. /\ Listening.rx_target = "cmd" /\ Listening.rx_len = TTC_CMD_LEN
      /\ Listening.rx_index = 0
  BY DEF Listening
<1> QED
  BY <1>1, <1>2, Sizes DEF Fits, Offset

LEMMA ModesFit == ASSUME Fits(usart), Modes PROVE Fits(usart')
<1>1. CASE ModeTelemetry
  BY <1>1, SendFits DEF ModeTelemetry, SendTelemetry
<1>2. CASE ModeReady
  <2> DEFINE u == [usart EXCEPT !.rx_state = "IDLE"]
  <2>1. SendReply(u, [kind |-> "READY", seq |-> 0])
    BY <1>2 DEF ModeReady
  <2>2. u \in Handles /\ u.rx_state = "IDLE"
        /\ u.rx_target = usart.rx_target /\ u.rx_len = usart.rx_len
    BY DEF Fits, Handles
  <2>3. Fits(u)
    BY <2>2 DEF Fits, Offset
  <2> QED
    BY <2>1, <2>3, ReplyFits
<1>3. CASE ModeTake \/ ModeGivesUp \/ ModeAbort \/ ModeNothing
  BY <1>3 DEF ModeTake, ModeGivesUp, ModeAbort, ModeNothing, device
<1>4. CASE ModeRestart
  BY <1>4, ListeningFits DEF ModeRestart
<1> QED
  BY <1>1, <1>2, <1>3, <1>4 DEF Modes

LEMMA TurnFits == ASSUME Fits(usart), Turn PROVE Fits(usart')
<1>1. CASE TickEnd
  <2>1. usart' = usart
        \/ usart' = ReadAsync(usart, ota_data_started, ota_frame_state)
    BY <1>1 DEF TickEnd
  <2> QED
    BY <2>1, ReadFits
<1> QED
  BY <1>1, RxFits, TxFits, ModesFit DEF Turn

IInv == Fits(usart)

LEMMA NextFits == IInv /\ [Next]_vars => IInv'
<1> SUFFICES ASSUME Fits(usart), [Next]_vars PROVE Fits(usart')
  BY DEF IInv
<1>1. CASE Turn
  BY <1>1, TurnFits
<1>2. CASE MemoryDone \/ Silence \/ USART0_Handler \/ LoseByte \/ LoseReply
  BY <1>2 DEF MemoryDone, Silence, USART0_Handler, LoseByte, LoseReply, device
<1>3. CASE GroundStart \/ GroundCommand \/ GroundSend
  <2>1. \E kind \in Kinds, n \in Nat : Sends(kind, n) \/ usart' = usart
    BY <1>3 DEF GroundStart, GroundCommand, GroundSend, Kinds, Sends, device
  <2> QED
    BY <2>1 DEF Sends, device
<1>4. CASE GroundHear \/ GroundLeaves
  BY <1>4 DEF GroundHear, GroundLeaves, device
<1>5. CASE UNCHANGED vars
  BY <1>5 DEF vars, device
<1> QED
  BY <1>1, <1>2, <1>3, <1>4, <1>5 DEF Next

\* The receiver never writes behind its buffer, whatever the ground sends,
\* whatever is lost on the way, and whenever a reception is cut off.
THEOREM ReceiverStaysInBuffer == Spec => []InBuffer
<1>1. Init => IInv
  BY ListeningFits DEF Init, IInv
<1>2. IInv => InBuffer
  BY Sizes DEF IInv, Fits, Handles, Offset, InBuffer
<1> QED
  BY <1>1, <1>2, NextFits, PTL DEF Spec

----------------------------------------------------------------------------
(* Types.  A transmission that is under way is one reply, of which as many *)
(* bytes are on the air as the index says.                                 *)

Replies == Reply \cup {None}

Sized(u, sent) ==
  /\ u.rx_len <= OTA_FULL_PACKET /\ u.rx_index <= OTA_FULL_PACKET
  /\ u.tx_len <= TTC_CMD_LEN /\ u.tx_index <= TTC_CMD_LEN
  /\ u.timeout <= USART_TIMEOUT_MAX + 1
  /\ u.rx_state = "RECEIVING" => u.timeout <= USART_TIMEOUT_MAX
  /\ sent \in Seq(Replies) /\ Len(sent) <= TTC_CMD_LEN
  /\ u.tx_state = "TRANSMITTING" =>
       /\ u.tx_len = TTC_CMD_LEN /\ u.tx_index < TTC_CMD_LEN
       /\ Len(sent) = u.tx_index

LEMMA Numbers ==
  /\ Pages \in Nat /\ Pages > 0 /\ TTC_CMD_LEN > 0
  /\ USART_TIMEOUT_MAX > 0 /\ MaxCommands \in Nat /\ MaxFaults \in Nat
  /\ RX_CIRC_BUF_SIZE \in Nat /\ OTA_FULL_PACKET < RX_CIRC_BUF_SIZE
BY LinkAssumption

LEMMA RecvSized ==
  ASSUME NEW u, NEW sent, Fits(u), Sized(u, sent), NEW target \in Targets
  PROVE  Sized(RecvAsync(u, target), sent)
<1>1. CASE u.rx_state # "IDLE"
  BY <1>1 DEF RecvAsync
<1>2. CASE u.rx_state = "IDLE"
  <2> DEFINE v == [u EXCEPT !.rx_target = target, !.rx_len = Length(target),
                            !.rx_index = 0, !.timeout = 0,
                            !.rx_state = "RECEIVING"]
  <2>1. RecvAsync(u, target) = v
    BY <1>2 DEF RecvAsync
  <2>2. Length(target) \in Nat /\ Length(target) <= OTA_FULL_PACKET
    BY Sizes DEF Length, Targets
  <2>3. /\ v.rx_len = Length(target) /\ v.rx_index = 0 /\ v.timeout = 0
        /\ v.tx_len = u.tx_len /\ v.tx_index = u.tx_index
        /\ v.tx_state = u.tx_state
    BY DEF Fits, Handles
  <2> HIDE DEF v
  <2>4. Sized(v, sent)
    BY <2>2, <2>3, Sizes, Numbers DEF Sized
  <2> QED
    BY <2>1, <2>4
<1> QED
  BY <1>1, <1>2

LEMMA ReadSized ==
  ASSUME NEW u, NEW sent, Fits(u), Sized(u, sent), NEW started, NEW state
  PROVE  Sized(ReadAsync(u, started, state), sent)
<1>1. CASE started /\ state # "FOUND"
  BY <1>1, RecvSized DEF ReadAsync, Targets
<1>2. CASE started /\ state = "FOUND"
  BY <1>2, RecvSized DEF ReadAsync, Targets
<1>3. CASE ~started
  BY <1>3, RecvSized DEF ReadAsync, Targets
<1> QED
  BY <1>1, <1>2, <1>3

\* A transmission begins with nothing on the air, or is not accepted.
LEMMA SendSized ==
  ASSUME NEW u, Fits(u), Sized(u, air), NEW buf \in {"ota_ack_buf", "tx_buf"}
  PROVE  Sized(SendAsync(u, buf), OnAir(u))
<1>1. CASE u.tx_state # "IDLE"
  BY <1>1 DEF SendAsync, OnAir
<1>2. CASE u.tx_state = "IDLE"
  <2> DEFINE v == [u EXCEPT !.tx_buf = buf, !.tx_len = TTC_CMD_LEN,
                            !.tx_index = 0, !.timeout = 0,
                            !.tx_state = "TRANSMITTING"]
  <2>1. SendAsync(u, buf) = v /\ OnAir(u) = <<>>
    BY <1>2 DEF SendAsync, OnAir
  <2>2. /\ v.rx_len = u.rx_len /\ v.rx_index = u.rx_index /\ v.timeout = 0
        /\ v.tx_len = TTC_CMD_LEN /\ v.tx_index = 0
    BY DEF Fits, Handles
  <2>3. << >> \in Seq(Replies) /\ Len(<< >>) = 0
    OBVIOUS
  <2> HIDE DEF v
  <2>4. Sized(v, <<>>)
    BY <2>2, <2>3, Sizes, Numbers DEF Sized
  <2> QED
    BY <2>1, <2>4
<1> QED
  BY <1>1, <1>2

LEMMA ReplySized ==
  ASSUME NEW u, Fits(u), Sized(u, air), NEW r, SendReply(u, r)
  PROVE  Sized(usart', air')
BY SendSized DEF SendReply

LEMMA NoReplySized ==
  ASSUME NEW u, Fits(u), Sized(u, air), NEW started, NEW state,
         NoReply(u, started, state)
  PROVE  Sized(usart', air')
<1>1. CASE waiting_tx
  BY <1>1 DEF NoReply
<1>2. CASE ~waiting_tx
  BY <1>2, ReadSized DEF NoReply
<1> QED
  BY <1>1, <1>2

LEMMA ParseSized ==
  ASSUME NEW u, Fits(u), Sized(u, air), NEW buf, ttc_parse(u, buf)
  PROVE  Sized(usart', air')
<1>1. \/ ParseRequest(u) \/ ParseStart(u) \/ ParseEndOta(u) \/ ParseOther(u)
  BY DEF ttc_parse
<1>2. CASE ParseRequest(u)
  BY <1>2, SendSized DEF ParseRequest, SendTelemetry
<1>3. CASE ParseStart(u)
  BY <1>3, NoReplySized DEF ParseStart
<1>4. CASE ParseEndOta(u)
  BY <1>4, NoReplySized DEF ParseEndOta
<1>5. CASE ParseOther(u)
  BY <1>5, NoReplySized DEF ParseOther
<1> QED
  BY <1>1, <1>2, <1>3, <1>4, <1>5

LEMMA ParseOtaSized ==
  ASSUME NEW u, Fits(u), Sized(u, air), NEW buf, ttc_parse_ota(u, buf)
  PROVE  Sized(usart', air')
<1>1. \/ OtaBadSync(u) \/ OtaEnd(u, buf) \/ OtaData(u, buf) \/ OtaDrop(u)
  BY DEF ttc_parse_ota
<1>2. CASE OtaBadSync(u) \/ OtaEnd(u, buf) \/ OtaData(u, buf)
  BY <1>2, ReplySized DEF OtaBadSync, OtaEnd, OtaData
<1>3. CASE OtaDrop(u)
  BY <1>3, NoReplySized DEF OtaDrop
<1> QED
  BY <1>1, <1>2, <1>3

\* The handle with one more byte, and as a completed reception leaves it.
LEMMA TakenSized ==
  ASSUME Fits(usart), Sized(usart, air), usart.rx_state = "RECEIVING"
  PROVE  /\ Sized(Taken, air)
         /\ Sized([Taken EXCEPT !.rx_state = "IDLE"], air)
<1> DEFINE t == [usart EXCEPT !.rx_index = usart.rx_index + 1, !.timeout = 0]
<1> DEFINE v == [t EXCEPT !.rx_state = "IDLE"]
<1>1. Taken = t
  BY DEF Taken
<1>2. usart.rx_index + 1 \in Nat /\ usart.rx_index + 1 <= OTA_FULL_PACKET
  BY Sizes DEF Fits, Handles, Sized
<1>3. /\ t.rx_index = usart.rx_index + 1 /\ t.timeout = 0
      /\ t.rx_len = usart.rx_len /\ t.tx_len = usart.tx_len
      /\ t.tx_index = usart.tx_index /\ t.tx_state = usart.tx_state
  BY DEF Fits, Handles
<1>4. /\ v.rx_index = usart.rx_index + 1 /\ v.timeout = 0
      /\ v.rx_len = usart.rx_len /\ v.tx_len = usart.tx_len
      /\ v.tx_index = usart.tx_index /\ v.tx_state = usart.tx_state
  BY DEF Fits, Handles
<1> HIDE DEF t, v
<1>5. Sized(t, air)
  BY <1>2, <1>3, Sizes, Numbers DEF Sized
<1>6. Sized(v, air)
  BY <1>2, <1>4, Sizes, Numbers DEF Sized
<1> QED
  BY <1>1, <1>5, <1>6 DEF v

LEMMA RxSized ==
  ASSUME Fits(usart), Sized(usart, air), UsartRxTick
  PROVE  Sized(usart', air')
<1>1. CASE RxIdle
  <2>1. /\ usart' = [usart EXCEPT !.rx_state = "RECEIVING", !.rx_index = 0,
                                  !.timeout = 0]
        /\ air' = air
    BY <1>1 DEF RxIdle
  <2> QED
    BY <2>1, Sizes, Numbers DEF Fits, Handles, Sized
<1>2. CASE RxMore
  BY <1>2, TakenSized DEF RxMore, Receiving
<1>3. CASE RxFrame
  <2>1. PICK b \in Byte :
          /\ Receiving(b)
          /\ OnTtcDone([Taken EXCEPT !.rx_state = "IDLE"], rx_buf')
    BY <1>3 DEF RxFrame
  <2> QED
    BY <2>1, DoneFits, TakenSized, ParseSized, ParseOtaSized
       DEF OnTtcDone, Receiving
<1>4. CASE RxScan
  <2> DEFINE u == [Taken EXCEPT !.rx_state = "IDLE"]
  <2>1. /\ \/ usart' = RecvAsync(u, "packet")
           \/ usart' = u
           \/ usart' = ReadAsync(u, ota_data_started, ota_frame_state')
        /\ air' = air /\ usart.rx_state = "RECEIVING"
    BY <1>4 DEF RxScan, Receiving
  <2>2. Fits(u) /\ Sized(u, air)
    BY <2>1, DoneFits, TakenSized
  <2> HIDE DEF u
  <2>3. Sized(RecvAsync(u, "packet"), air)
    BY <2>2, RecvSized DEF Targets
  <2>4. Sized(ReadAsync(u, ota_data_started, ota_frame_state'), air)
    BY <2>2, ReadSized
  <2> QED
    BY <2>1, <2>2, <2>3, <2>4
<1>5. CASE RxWaits
  <2> DEFINE s == IF usart.timeout + 1 >= USART_TIMEOUT_MAX
                  THEN "ERROR" ELSE "RECEIVING"
  <2>1. /\ usart' = [usart EXCEPT !.timeout = @ + 1, !.rx_state = s]
        /\ usart.rx_state = "RECEIVING" /\ air' = air
    BY <1>5 DEF RxWaits
  <2>2. s = "RECEIVING" => usart.timeout + 1 <= USART_TIMEOUT_MAX
    BY Sizes DEF Fits, Handles
  <2> HIDE DEF s
  <2>3. /\ usart'.rx_index = usart.rx_index
        /\ usart'.timeout = usart.timeout + 1 /\ usart'.rx_state = s
        /\ usart'.rx_len = usart.rx_len /\ usart'.tx_len = usart.tx_len
        /\ usart'.tx_index = usart.tx_index /\ usart'.tx_state = usart.tx_state
    BY <2>1 DEF Fits, Handles
  <2> QED
    BY <2>1, <2>2, <2>3, Sizes DEF Fits, Handles, Sized
<1>6. CASE RxError
  <2>1. /\ usart' = [usart EXCEPT !.rx_state = "IDLE", !.rx_index = 0,
                                  !.rx_len = 0, !.timeout = 0]
        /\ air' = air
    BY <1>6 DEF RxError
  <2> QED
    BY <2>1, Sizes, Numbers DEF Fits, Handles, Sized
<1>7. CASE RxNothing
  BY <1>7 DEF RxNothing, device
<1> QED
  BY <1>1, <1>2, <1>3, <1>4, <1>5, <1>6, <1>7 DEF UsartRxTick

LEMMA TxSized ==
  ASSUME Fits(usart), Sized(usart, air), ota_ack_buf \in Replies, UsartTxTick
  PROVE  Sized(usart', air')
<1>1. CASE TxIdle
  BY <1>1 DEF TxIdle, device
<1>2. CASE TxByte
  <2> DEFINE m == IF usart.tx_buf = "tx_buf" THEN None ELSE ota_ack_buf
  <2> DEFINE s == IF usart.tx_index + 1 >= usart.tx_len
                  THEN "IDLE" ELSE "TRANSMITTING"
  <2>1. /\ usart' = [usart EXCEPT !.tx_index = @ + 1, !.timeout = 0,
                                  !.tx_state = s]
        /\ air' = Append(air, m)
        /\ usart.tx_state = "TRANSMITTING"
    BY <1>2 DEF TxByte
  <2>2. m \in Replies
    BY DEF Replies
  <2>3. s = "TRANSMITTING" => usart.tx_index + 1 < usart.tx_len
    BY Sizes DEF Fits, Handles
  <2> HIDE DEF s, m
  <2>4. usart.tx_index + 1 \in Nat
    BY DEF Fits, Handles
  <2>5. /\ usart'.rx_index = usart.rx_index
        /\ usart'.timeout = 0 /\ usart'.rx_state = usart.rx_state
        /\ usart'.rx_len = usart.rx_len /\ usart'.tx_len = usart.tx_len
        /\ usart'.tx_index = usart.tx_index + 1 /\ usart'.tx_state = s
    BY <2>1, <2>4 DEF Fits, Handles
  <2>6. /\ usart.tx_len = TTC_CMD_LEN /\ usart.tx_index < TTC_CMD_LEN
        /\ Len(air) = usart.tx_index /\ air \in Seq(Replies)
    BY <2>1 DEF Sized
  <2>7. air' \in Seq(Replies) /\ Len(air') = usart.tx_index + 1
    BY <2>1, <2>2, <2>6
  <2>8. usart.tx_index + 1 <= TTC_CMD_LEN
    BY <2>6, Sizes DEF Fits, Handles
  <2> QED
    BY <2>3, <2>4, <2>5, <2>6, <2>7, <2>8, Sizes, Numbers
       DEF Fits, Handles, Sized
<1>3. CASE TxBusy
  <2>1. /\ usart' = [usart EXCEPT !.timeout = @ + 1] /\ air' = air
        /\ usart.timeout + 1 < USART_TIMEOUT_MAX
    BY <1>3 DEF TxBusy
  <2> QED
    BY <2>1, Sizes, Numbers DEF Fits, Handles, Sized
<1>4. CASE TxStalls
  <2>1. /\ usart' = [usart EXCEPT !.timeout = USART_TIMEOUT_MAX,
                                  !.tx_state = "ERROR"]
        /\ air' = air
    BY <1>4 DEF TxStalls, sky
  <2> QED
    BY <2>1, Sizes, Numbers DEF Fits, Handles, Sized
<1>5. CASE TxError
  <2>1. /\ usart' = [usart EXCEPT !.tx_index = 0, !.tx_len = 0, !.timeout = 0,
                                  !.tx_state = "IDLE"]
        /\ air' = air
    BY <1>5 DEF TxError
  <2> QED
    BY <2>1, Sizes, Numbers DEF Fits, Handles, Sized
<1> QED
  BY <1>1, <1>2, <1>3, <1>4, <1>5 DEF UsartTxTick

LEMMA ListeningSized == Sized(Listening, <<>>)
<1>1. << >> \in Seq(Replies) /\ Len(<< >>) = 0
  OBVIOUS
<1> QED
  BY <1>1, Sizes, Numbers DEF Sized, Listening

LEMMA ModesSized ==
  ASSUME Fits(usart), Sized(usart, air), Modes
  PROVE  Sized(usart', air')
<1>1. CASE ModeTelemetry
  BY <1>1, SendSized DEF ModeTelemetry, SendTelemetry
<1>2. CASE ModeReady
  <2> DEFINE u == [usart EXCEPT !.rx_state = "IDLE"]
  <2>1. SendReply(u, [kind |-> "READY", seq |-> 0])
    BY <1>2 DEF ModeReady
  <2>2. /\ u \in Handles /\ u.rx_state = "IDLE"
        /\ u.rx_target = usart.rx_target /\ u.rx_len = usart.rx_len
        /\ u.rx_index = usart.rx_index /\ u.timeout = usart.timeout
        /\ u.tx_len = usart.tx_len /\ u.tx_index = usart.tx_index
        /\ u.tx_state = usart.tx_state
    BY DEF Fits, Handles
  <2> HIDE DEF u
  <2>3. Fits(u) /\ Sized(u, air)
    BY <2>2 DEF Fits, Offset, Sized
  <2> QED
    BY <2>1, <2>3, ReplySized
<1>3. CASE ModeTake \/ ModeGivesUp \/ ModeAbort \/ ModeNothing
  BY <1>3 DEF ModeTake, ModeGivesUp, ModeAbort, ModeNothing, device
<1>4. CASE ModeRestart
  BY <1>4, ListeningSized DEF ModeRestart
<1> QED
  BY <1>1, <1>2, <1>3, <1>4 DEF Modes

LEMMA NextSized ==
  ASSUME Fits(usart), Sized(usart, air), ota_ack_buf \in Replies, [Next]_vars
  PROVE  Sized(usart', air')
<1>1. CASE TickEnd
  <2>1. /\ usart' = usart
           \/ usart' = ReadAsync(usart, ota_data_started, ota_frame_state)
        /\ air' = air
    BY <1>1 DEF TickEnd
  <2> QED
    BY <2>1, ReadSized
<1>2. CASE UsartRxTick \/ UsartTxTick \/ Modes
  BY <1>2, RxSized, TxSized, ModesSized
<1>3. CASE MemoryDone \/ Silence \/ USART0_Handler \/ LoseByte \/ LoseReply
  BY <1>3 DEF MemoryDone, Silence, USART0_Handler, LoseByte, LoseReply,
              device, sky
<1>4. CASE GroundStart \/ GroundCommand \/ GroundSend
  <2>1. \E kind \in Kinds, n \in Nat :
          Sends(kind, n) \/ UNCHANGED <<usart, air>>
    BY <1>4 DEF GroundStart, GroundCommand, GroundSend, Kinds, Sends, device
  <2> QED
    BY <2>1 DEF Sends, device
<1>5. CASE GroundHear \/ GroundLeaves
  BY <1>5 DEF GroundHear, GroundLeaves, device, sky
<1>6. CASE UNCHANGED vars
  BY <1>6 DEF vars, device, sky
<1> QED
  BY <1>1, <1>2, <1>3, <1>4, <1>5, <1>6 DEF Next, Turn

----------------------------------------------------------------------------
(* The data.                                                               *)

\* What the ground is about to send.
GroundInStep ==
  /\ gstate = "starting" => gseq = 0
  /\ gstate = "sending" => gseq < Pages

DataTypeOK ==
  /\ rx_circ_buf \in Seq(Byte) /\ Len(rx_circ_buf) < RX_CIRC_BUF_SIZE
  /\ rx_buf \in [1..OTA_FULL_PACKET -> Byte]
  /\ ota_frame_byte \in Byte
  /\ TtcTypeOK
  /\ wire \in Seq(Byte) /\ Len(wire) <= OTA_FULL_PACKET
  /\ down \in Replies
  /\ GroundTypeOK /\ GroundInStep
  /\ HistoryTypeOK

TInv == Fits(usart) /\ Sized(usart, air) /\ DataTypeOK

LEMMA Typed == TInv => TypeOK
<1> SUFFICES ASSUME TInv PROVE TypeOK
  OBVIOUS
<1>1. usart \in Usart
  BY Sizes DEF TInv, Fits, Handles, Sized, Usart
<1> QED
  BY <1>1 DEF TInv, Sized, DataTypeOK, TypeOK, DeviceTypeOK, SkyTypeOK, Replies

\* Replies and numbers of packets.
LEMMA KnownReplies ==
  /\ None \in Replies
  /\ [kind |-> "READY", seq |-> 0] \in Reply
  /\ [kind |-> "NACK", seq |-> 0] \in Reply
  /\ \A n \in Seqs : Ack(n) \in Reply
  /\ NoPkt.seq \in Seqs /\ END \in Seqs
BY Numbers DEF Replies, Reply, Ack, Seqs, NoPkt, END

LEMMA SeqTyped ==
  ASSUME NEW buf \in [1..OTA_FULL_PACKET -> Byte] PROVE SeqOf(buf) \in Seqs
<1>1. buf[3] \in Byte
  BY Sizes
<1>2. buf[3][2] \in 0..Pages
  BY <1>1 DEF Byte
<1> QED
  BY <1>2, Numbers DEF SeqOf, Seqs, Garbage

LEMMA FrameTyped ==
  ASSUME NEW kind \in Kinds, NEW n \in 0..Pages
  PROVE  /\ Frame(kind, n) \in Seq(Byte)
         /\ Len(Frame(kind, n)) <= OTA_FULL_PACKET
<1>1. FrameLen(kind) \in Nat /\ FrameLen(kind) <= OTA_FULL_PACKET
  BY Sizes DEF FrameLen
<1>2. \A i \in 1..FrameLen(kind) : <<kind, n, i - 1>> \in Byte
  BY <1>1, Sizes DEF Byte
<1>3. Frame(kind, n) \in [1..FrameLen(kind) -> Byte]
  BY <1>2 DEF Frame
<1>4. Frame(kind, n) \in Seq(Byte)
  BY <1>1, <1>3
<1>5. DOMAIN Frame(kind, n) = 1..FrameLen(kind)
  BY DEF Frame
<1>6. Len(Frame(kind, n)) = FrameLen(kind)
  BY <1>1, <1>4, <1>5
<1> QED
  BY <1>1, <1>4, <1>6

\* The buffer of the receiver, whatever is stored in it.
LEMMA StoreTyped ==
  ASSUME DataTypeOK, NEW b \in Byte, Store(b)
  PROVE  rx_buf' \in [1..OTA_FULL_PACKET -> Byte] /\ ota_frame_byte' \in Byte
<1>1. CASE usart.rx_target = "scan"
  BY <1>1 DEF Store, DataTypeOK
<1>2. CASE usart.rx_target # "scan"
  <2> DEFINE k == usart.rx_index + IF usart.rx_target = "packet" THEN 3 ELSE 1
  <2>1. rx_buf' = [rx_buf EXCEPT ![k] = b] /\ ota_frame_byte' = ota_frame_byte
    BY <1>2 DEF Store
  <2> HIDE DEF k
  <2> QED
    BY <2>1 DEF DataTypeOK
<1> QED
  BY <1>1, <1>2

LEMMA RingTyped ==
  ASSUME DataTypeOK, NEW b, Receiving(b)
  PROVE  /\ rx_circ_buf' \in Seq(Byte)
         /\ Len(rx_circ_buf') < RX_CIRC_BUF_SIZE
BY Numbers DEF DataTypeOK, Receiving, HasData

----------------------------------------------------------------------------
(* What a frame does keeps the types of the TT&C.                          *)

LEMMA ParseTyped ==
  ASSUME DataTypeOK, NEW u, NEW buf \in [1..OTA_FULL_PACKET -> Byte],
         OnTtcDone(u, buf), pc' = "end"
  PROVE  TtcTypeOK'
<1> USE KnownReplies, SeqTyped DEF DataTypeOK, TtcTypeOK, Replies
<1>1. ota_frame_state' \in {"HUNT_AA", "HUNT_55", "FOUND"}
  BY DEF OnTtcDone, ttc_parse, ParseRequest, ParseStart, ParseEndOta,
         ParseOther, frame
<1>2. CASE ota_data_started
  <2>1. ttc_parse_ota(u, buf) /\ UNCHANGED control
    BY <1>2 DEF OnTtcDone
  <2>2. \/ OtaBadSync(u) \/ OtaEnd(u, buf) \/ OtaData(u, buf) \/ OtaDrop(u)
    BY <2>1 DEF ttc_parse_ota
  <2>3. CASE OtaBadSync(u)
    BY <1>1, <2>1, <2>3 DEF OtaBadSync, SendReply, control
  <2>4. CASE OtaEnd(u, buf)
    BY <1>1, <2>1, <2>4 DEF OtaEnd, SendReply, control
  <2>5. CASE OtaData(u, buf)
    BY <1>1, <2>1, <2>5 DEF OtaData, SendReply, control
  <2>6. CASE OtaDrop(u)
    BY <1>1, <2>1, <2>6 DEF OtaDrop, NoReply, control, replies
  <2> QED
    BY <2>2, <2>3, <2>4, <2>5, <2>6
<1>3. CASE ~ota_data_started
  <2>1. ttc_parse(u, buf)
    BY <1>3 DEF OnTtcDone
  <2>2. \/ ParseRequest(u) \/ ParseStart(u) \/ ParseEndOta(u) \/ ParseOther(u)
    BY <2>1 DEF ttc_parse
  <2>3. CASE ParseRequest(u)
    BY <1>1, <2>3 DEF ParseRequest, SendTelemetry, frame
  <2>4. CASE ParseStart(u)
    BY <1>1, <2>4 DEF ParseStart, NoReply, replies, Sessions
  <2>5. CASE ParseEndOta(u)
    BY <1>1, <2>5 DEF ParseEndOta, NoReply, replies
  <2>6. CASE ParseOther(u)
    BY <1>1, <2>6 DEF ParseOther, NoReply, replies, frame, control
  <2> QED
    BY <2>2, <2>3, <2>4, <2>5, <2>6
<1> QED
  BY <1>2, <1>3

LEMMA NextData == ASSUME TInv, [Next]_vars PROVE DataTypeOK'
<1> USE Sizes, Numbers, KnownReplies DEF TInv
<1>1. CASE RxIdle \/ RxWaits \/ RxError \/ RxNothing
  BY <1>1 DEF RxIdle, RxWaits, RxError, RxNothing, Rx, Elsewhere, DataTypeOK,
              TtcTypeOK, GroundTypeOK, GroundInStep, HistoryTypeOK, ground,
              history, ttc, device, buffers, frame, replies, control
<1>2. CASE RxMore
  <2>1. PICK b \in Byte : Receiving(b) /\ Store(b)
    BY <1>2 DEF RxMore
  <2>2. /\ rx_buf' \in [1..OTA_FULL_PACKET -> Byte] /\ ota_frame_byte' \in Byte
        /\ rx_circ_buf' \in Seq(Byte) /\ Len(rx_circ_buf') < RX_CIRC_BUF_SIZE
    BY <2>1, StoreTyped, RingTyped
  <2> QED
    BY <1>2, <2>1, <2>2
       DEF RxMore, Receiving, Rx, Elsewhere, DataTypeOK, TtcTypeOK,
           GroundTypeOK, GroundInStep, HistoryTypeOK, ground, history, frame,
           replies, control
<1>3. CASE RxFrame
  <2>1. PICK b \in Byte :
          /\ Receiving(b) /\ Store(b)
          /\ OnTtcDone([Taken EXCEPT !.rx_state = "IDLE"], rx_buf')
          /\ Witness(rx_buf') /\ Elsewhere
    BY <1>3 DEF RxFrame
  <2>2. /\ rx_buf' \in [1..OTA_FULL_PACKET -> Byte] /\ ota_frame_byte' \in Byte
        /\ rx_circ_buf' \in Seq(Byte) /\ Len(rx_circ_buf') < RX_CIRC_BUF_SIZE
    BY <2>1, StoreTyped, RingTyped
  <2>3. TtcTypeOK'
    BY <2>1, <2>2, ParseTyped DEF Receiving, Rx
  <2>4. SeqOf(rx_buf') \in Seqs
    BY <2>2, SeqTyped
  <2>5. torn' \in BOOLEAN
    BY <2>1 DEF Witness, IsWhole
  <2>6. HistoryTypeOK'
    BY <2>1, <2>4, <2>5 DEF Witness, DataTypeOK, HistoryTypeOK
  <2> QED
    BY <2>1, <2>2, <2>3, <2>6
       DEF Elsewhere, DataTypeOK, GroundTypeOK, GroundInStep, ground
<1>4. CASE RxScan
  <2>1. PICK b \in Byte :
          /\ Receiving(b)
          /\ ota_frame_byte' = b /\ ota_frame_state' = Scanned(b)
    BY <1>4 DEF RxScan
  <2>2. rx_circ_buf' \in Seq(Byte) /\ Len(rx_circ_buf') < RX_CIRC_BUF_SIZE
    BY <2>1, RingTyped
  <2>3. Scanned(b) \in {"HUNT_AA", "HUNT_55", "FOUND"}
    BY DEF Scanned
  <2>4. <<"SYNC", 0, 0>> \in Byte /\ <<"SYNC", 0, 1>> \in Byte
    BY DEF Byte, Kinds
  <2>5. \/ rx_buf' = rx_buf
        \/ rx_buf' = [rx_buf EXCEPT ![1] = <<"SYNC", 0, 0>>,
                                    ![2] = <<"SYNC", 0, 1>>]
    BY <1>4 DEF RxScan
  <2>6. rx_buf' \in [1..OTA_FULL_PACKET -> Byte]
    BY <2>4, <2>5 DEF DataTypeOK
  <2> QED
    BY <1>4, <2>1, <2>2, <2>3, <2>6
       DEF RxScan, Receiving, Rx, Elsewhere, DataTypeOK, TtcTypeOK,
           GroundTypeOK, GroundInStep, HistoryTypeOK, ground, history,
           replies, control
<1>5. CASE TxByte
  <2>1. /\ Tx /\ air' = Append(air, IF usart.tx_buf = "tx_buf" THEN None
                                                              ELSE ota_ack_buf)
        /\ down' = down \/ down' = air'[1]
        /\ usart.tx_state = "TRANSMITTING"
    BY <1>5 DEF TxByte
  <2>2. air' \in Seq(Replies) /\ Len(air') > 0
    BY <2>1 DEF Sized, DataTypeOK, TtcTypeOK, Replies
  <2>3. down' \in Replies
    BY <2>1, <2>2 DEF DataTypeOK
  <2> QED
    BY <1>5, <2>1, <2>3
       DEF TxByte, Tx, DataTypeOK, TtcTypeOK, GroundTypeOK, GroundInStep,
           HistoryTypeOK, ground, history, ttc, buffers, frame, replies,
           control
<1>6. CASE TxIdle \/ TxBusy \/ TxStalls \/ TxError
  BY <1>6 DEF TxIdle, TxBusy, TxStalls, TxError, Tx, Fault, Elsewhere,
              DataTypeOK, TtcTypeOK, GroundTypeOK, GroundInStep,
              HistoryTypeOK, ground, history, ttc, device, sky, buffers,
              frame, replies, control
<1>21. ASSUME UNCHANGED <<rx_circ_buf, buffers, wire, down, ground, faults,
                         history>>,
              TtcTypeOK'
       PROVE  DataTypeOK'
  BY <1>21 DEF DataTypeOK, GroundTypeOK, GroundInStep, HistoryTypeOK, ground,
               history, buffers
<1>7. CASE TickEnd
  <2>1. waiting_tx' \in BOOLEAN
    BY <1>7 DEF TickEnd, DataTypeOK, TtcTypeOK
  <2>2. /\ UNCHANGED <<rx_circ_buf, buffers, frame, ota_ack_buf, s_ota_pkt,
                       control, history, wire, down, ground, faults>>
        /\ pc' = "modes"
    BY <1>7 DEF TickEnd, Elsewhere
  <2>3. TtcTypeOK'
    BY <2>1, <2>2 DEF DataTypeOK, TtcTypeOK, frame, control
  <2> QED
    BY <1>21, <2>2, <2>3
<1>8. CASE ModeTelemetry
  <2>1. /\ pc' = "tx" /\ waiting_tx' = TRUE /\ commands' \in 0..MaxCommands
        /\ UNCHANGED <<wire, down, gstate, gseq, gwait, faults, rx_circ_buf,
                       ota_ack_buf, buffers, frame, s_ota_pkt, control, history>>
    BY <1>8 DEF ModeTelemetry, SendTelemetry, Handler, DataTypeOK, GroundTypeOK
  <2>2. TtcTypeOK'
    BY <2>1 DEF DataTypeOK, TtcTypeOK, frame, control
  <2> QED
    BY <2>1, <2>2 DEF DataTypeOK, GroundTypeOK, GroundInStep, HistoryTypeOK,
                      history, buffers
<1>9. CASE ModeReady
  <2>1. /\ pc' = "tx" /\ waiting_tx' = TRUE /\ session' = "open"
        /\ ota_data_started' = TRUE /\ ota_frame_state' = "HUNT_AA"
        /\ ota_ack_buf' = [kind |-> "READY", seq |-> 0]
        /\ UNCHANGED <<rx_circ_buf, buffers, s_ota_pkt, OTA_REQUESTED,
                       COMM_WINDOW_OPEN, history, wire, down, ground, faults>>
    BY <1>9 DEF ModeReady, SendReply, Handler, Elsewhere
  <2>2. TtcTypeOK'
    BY <2>1 DEF DataTypeOK, TtcTypeOK, Sessions
  <2> QED
    BY <1>21, <2>1, <2>2
<1>22. CASE ModeTake \/ ModeGivesUp \/ ModeAbort \/ ModeNothing
  <2>1. UNCHANGED <<rx_circ_buf, buffers, history, wire, down, ground, faults>>
    BY <1>22 DEF ModeTake, ModeGivesUp, ModeAbort, ModeNothing, Elsewhere,
                 device, ttc
  <2>2. pc' = "tx" /\ UNCHANGED <<replies, COMM_WINDOW_OPEN>>
    BY <1>22 DEF ModeTake, ModeGivesUp, ModeAbort, ModeNothing, Handler, ttc,
                 control
  <2>3. /\ session' \in Sessions /\ OTA_REQUESTED' \in BOOLEAN
        /\ s_ota_pkt'.seq \in Seqs
    BY <1>22 DEF ModeTake, ModeGivesUp, ModeAbort, ModeNothing, ttc, control,
                 DataTypeOK, TtcTypeOK, Sessions
  <2>4. /\ ota_data_started' \in BOOLEAN
        /\ ota_frame_state' \in {"HUNT_AA", "HUNT_55", "FOUND"}
    BY <1>22 DEF ModeTake, ModeGivesUp, ModeAbort, ModeNothing, ttc, frame,
                 DataTypeOK, TtcTypeOK
  <2>5. TtcTypeOK'
    BY <2>2, <2>3, <2>4 DEF DataTypeOK, TtcTypeOK, replies
  <2> QED
    BY <1>21, <2>1, <2>5
<1>10. CASE ModeRestart
  <2>1. Zero \in Byte /\ NoBytes \in [1..OTA_FULL_PACKET -> Byte]
    BY DEF Zero, NoBytes, Byte, Kinds
  <2>2. << >> \in Seq(Byte) /\ Len(<< >>) = 0
    OBVIOUS
  <2>3. TtcTypeOK'
    BY <1>10 DEF ModeRestart, TtcTypeOK, Sessions, Replies
  <2>4. GroundTypeOK' /\ GroundInStep' /\ HistoryTypeOK'
    BY <1>10 DEF ModeRestart, DataTypeOK, GroundTypeOK, GroundInStep,
                 HistoryTypeOK, ground, history
  <2>5. /\ rx_circ_buf' = <<>> /\ rx_buf' = NoBytes /\ ota_frame_byte' = Zero
        /\ UNCHANGED <<wire, down>>
    BY <1>10 DEF ModeRestart
  <2> QED
    BY <2>1, <2>2, <2>3, <2>4, <2>5 DEF DataTypeOK
<1>11. CASE MemoryDone \/ Silence
  BY <1>11 DEF MemoryDone, Silence, DataTypeOK, TtcTypeOK, GroundTypeOK,
               GroundInStep, HistoryTypeOK, ground, history, device, sky,
               buffers, frame, replies, control, Sessions
<1>12. CASE USART0_Handler \/ LoseByte
  <2>1. wire \in Seq(Byte) /\ wire # <<>> /\ Len(wire) <= OTA_FULL_PACKET
    BY <1>12 DEF USART0_Handler, LoseByte, DataTypeOK
  <2>2. /\ Head(wire) \in Byte
        /\ Tail(wire) \in Seq(Byte) /\ Len(Tail(wire)) <= OTA_FULL_PACKET
    BY <2>1
  <2>3. /\ rx_circ_buf \in Seq(Byte) /\ Len(rx_circ_buf) \in Nat
        /\ Append(rx_circ_buf, Head(wire)) \in Seq(Byte)
        /\ Len(Append(rx_circ_buf, Head(wire))) = Len(rx_circ_buf) + 1
    BY <2>2 DEF DataTypeOK
  <2>4. rx_circ_buf' \in Seq(Byte) /\ Len(rx_circ_buf') < RX_CIRC_BUF_SIZE
    BY <1>12, <2>3 DEF USART0_Handler, LoseByte, DataTypeOK, device
  <2>5. wire' \in Seq(Byte) /\ Len(wire') <= OTA_FULL_PACKET
    BY <1>12, <2>2 DEF USART0_Handler, LoseByte
  <2>8. /\ faults' = faults \/ (faults < MaxFaults /\ faults' = faults + 1)
        /\ overrun' = overrun \/ overrun' = TRUE
        /\ UNCHANGED <<ground, torn, whole>>
    <3>1. CASE USART0_Handler
      BY <3>1 DEF USART0_Handler
    <3>2. CASE LoseByte
      BY <3>2 DEF LoseByte, Fault, history
    <3> QED
      BY <1>12, <3>1, <3>2
  <2>6. GroundTypeOK' /\ GroundInStep' /\ HistoryTypeOK'
    <3>1. faults' \in 0..MaxFaults
      BY <2>8 DEF DataTypeOK, GroundTypeOK
    <3>2. overrun' \in BOOLEAN
      BY <2>8 DEF DataTypeOK, HistoryTypeOK
    <3> QED
      BY <2>8, <3>1, <3>2 DEF DataTypeOK, GroundTypeOK, GroundInStep,
                              HistoryTypeOK, ground
  <2>7. UNCHANGED <<pc, ttc, down>>
    BY <1>12 DEF USART0_Handler, LoseByte
  <2> QED
    BY <2>4, <2>5, <2>6, <2>7
       DEF DataTypeOK, TtcTypeOK, ttc, buffers, frame, replies, control
<1>13. CASE LoseReply
  BY <1>13 DEF LoseReply, Fault, DataTypeOK, TtcTypeOK, GroundTypeOK,
               GroundInStep, HistoryTypeOK, ground, history, device, ttc,
               buffers, frame, replies, control
<1>14. ASSUME NEW kind \in Kinds, NEW n \in 0..Pages, Sends(kind, n),
              GroundTypeOK', GroundInStep', HistoryTypeOK'
       PROVE  DataTypeOK'
  BY <1>14, FrameTyped
     DEF Sends, DataTypeOK, TtcTypeOK, device, ttc, buffers, frame, replies,
         control
<1>15. CASE GroundStart
  <2>1. Sends("START", 0) /\ GroundTypeOK' /\ GroundInStep' /\ HistoryTypeOK'
    BY <1>15 DEF GroundStart, Sends, DataTypeOK, GroundTypeOK, GroundInStep,
                 HistoryTypeOK
  <2> QED
    BY <1>14, <2>1 DEF Kinds
<1>16. CASE GroundCommand
  <2>1. PICK kind \in {"REQUEST", "END_OTA"} : Sends(kind, 0)
    BY <1>16 DEF GroundCommand
  <2>2. GroundTypeOK' /\ GroundInStep' /\ HistoryTypeOK'
    BY <1>16, <2>1 DEF GroundCommand, Sends, DataTypeOK, GroundTypeOK,
                       GroundInStep, HistoryTypeOK, history
  <2> QED
    BY <1>14, <2>1, <2>2 DEF Kinds
<1>17. CASE GroundSend
  <2>1. \/ Sends("START", 0) \/ Sends("PKT", gseq) \/ Sends("END", 0)
    BY <1>17 DEF GroundSend
  <2>2. GroundTypeOK' /\ GroundInStep' /\ HistoryTypeOK'
    BY <1>17, <2>1 DEF GroundSend, Sends, DataTypeOK, GroundTypeOK,
                       GroundInStep, HistoryTypeOK, history
  <2>3. gseq \in 0..Pages
    BY DEF DataTypeOK, GroundTypeOK
  <2> QED
    BY <1>14, <2>1, <2>2, <2>3 DEF Kinds
<1>18. CASE GroundHear
  <2>1. UNCHANGED <<commands, faults>>
    BY <1>18 DEF GroundHear
  <2>2. /\ gstate' \in {"off", "starting", "sending", "ending"}
        /\ gseq' \in 0..Pages /\ gwait' \in BOOLEAN /\ GroundInStep'
    <3>1. CASE gstate' = "sending" /\ gseq' = gseq /\ gwait' = FALSE
               /\ gstate = "starting"
      BY <3>1 DEF DataTypeOK, GroundTypeOK, GroundInStep
    <3>2. CASE gstate = "sending" /\ gseq' = gseq + 1 /\ gwait' = FALSE
               /\ gstate' = IF gseq' = Pages THEN "ending" ELSE "sending"
      <4>1. gseq \in 0..Pages /\ gseq < Pages /\ gseq' \in 0..Pages
        BY <3>2 DEF DataTypeOK, GroundTypeOK, GroundInStep
      <4>2. gseq' # Pages => gseq' < Pages
        BY <4>1
      <4> QED
        BY <3>2, <4>1, <4>2 DEF GroundInStep
    <3>3. CASE gstate' = "off" /\ UNCHANGED <<gseq, gwait>>
      BY <3>3 DEF DataTypeOK, GroundTypeOK, GroundInStep
    <3>4. CASE UNCHANGED <<gstate, gseq, gwait>>
      BY <3>4 DEF DataTypeOK, GroundTypeOK, GroundInStep
    <3> QED
      BY <1>18, <3>1, <3>2, <3>3, <3>4 DEF GroundHear
  <2> QED
    BY <1>18, <2>1, <2>2
       DEF GroundHear, DataTypeOK, TtcTypeOK, GroundTypeOK, HistoryTypeOK,
           history, device, ttc, buffers, frame, replies, control
<1>19. CASE GroundLeaves
  BY <1>19 DEF GroundLeaves, DataTypeOK, TtcTypeOK, GroundTypeOK,
               GroundInStep, HistoryTypeOK, history, device, ttc, sky,
               buffers, frame, replies, control
<1>20. CASE UNCHANGED vars
  BY <1>20 DEF vars, DataTypeOK, TtcTypeOK, GroundTypeOK, GroundInStep,
               HistoryTypeOK, ground, history, device, ttc, sky, buffers,
               frame, replies, control
<1> QED
  BY <1>1, <1>2, <1>3, <1>4, <1>5, <1>6, <1>7, <1>8, <1>9, <1>10, <1>11,
     <1>12, <1>13, <1>15, <1>16, <1>17, <1>18, <1>19, <1>20, <1>22
     DEF Next, Turn, UsartRxTick, UsartTxTick, Modes

LEMMA InitTyped == Init => TInv
<1> SUFFICES ASSUME Init PROVE TInv
  OBVIOUS
<1>1. Zero \in Byte /\ NoBytes \in [1..OTA_FULL_PACKET -> Byte]
  BY Sizes, Numbers DEF Zero, NoBytes, Byte, Kinds
<1>2. << >> \in Seq(Byte) /\ Len(<< >>) = 0
  OBVIOUS
<1>4. TtcTypeOK
  BY KnownReplies DEF Init, TtcTypeOK, Sessions, Replies
<1>5. GroundTypeOK /\ GroundInStep /\ HistoryTypeOK
  <2>1. GroundTypeOK
    <3>1. /\ gstate = "off" /\ gseq = 0 /\ gwait = FALSE
          /\ commands = 0 /\ faults = 0
      BY DEF Init
    <3>2. gwait \in BOOLEAN
      BY <3>1
    <3> QED
      BY <3>1, <3>2, Numbers DEF GroundTypeOK
  <2>2. GroundInStep
    BY DEF Init, GroundInStep
  <2>3. HistoryTypeOK
    <3>1. overrun = FALSE /\ torn = FALSE /\ whole = {}
      BY DEF Init
    <3> QED
      BY <3>1 DEF HistoryTypeOK
  <2> QED
    BY <2>1, <2>2, <2>3
<1>3. DataTypeOK
  BY <1>1, <1>2, <1>4, <1>5, KnownReplies, Sizes, Numbers
     DEF Init, DataTypeOK
<1> QED
  BY <1>3, ListeningFits, ListeningSized DEF Init, TInv

LEMMA NextTyped == TInv /\ [Next]_vars => TInv'
<1> SUFFICES ASSUME TInv, [Next]_vars PROVE TInv'
  OBVIOUS
<1>1. ota_ack_buf \in Replies
  BY DEF TInv, DataTypeOK, TtcTypeOK, Replies
<1> QED
  BY <1>1, NextFits, NextSized, NextData DEF TInv, IInv

\* Every variable keeps its type, and every buffer its size, for any sizes
\* and any losses: the ring buffer keeps one byte free, no index passes the
\* end of what it counts, and the shared timeout of the two FSMs passes its
\* bound by one at most.
THEOREM TypeCorrect == Spec => []TypeOK
BY InitTyped, NextTyped, Typed, PTL DEF Spec

----------------------------------------------------------------------------
(* Whole frames.  As long as nothing is lost, the link is in one of four    *)
(* phases, and in each the bytes between the ground and the receiver are    *)
(* what is left of one frame, of which the receiver has taken the rest.     *)

\* The bytes p + 1 .. q of a frame.
Part(kind, n, p, q) == [i \in 1..(q - p) |-> <<kind, n, p + i - 1>>]

\* All of a frame but its first p bytes is on its way.
Carries(kind, n, p) ==
  \E q \in p..FrameLen(kind) :
    /\ rx_circ_buf = Part(kind, n, p, q)
    /\ wire = Part(kind, n, q, FrameLen(kind))

\* Nothing is on its way, and the receiver waits for the first byte of a
\* frame, or for the reply to be out.
AtStart ==
  /\ usart.rx_index = 0
  /\ IF ota_data_started
     THEN usart.rx_target = "scan" /\ usart.rx_len = 1
     ELSE usart.rx_target = "cmd" /\ usart.rx_len = TTC_CMD_LEN

Calm ==
  /\ rx_circ_buf = <<>> /\ wire = <<>>
  /\ ota_frame_state = "HUNT_AA"
  /\ usart.rx_state = "RECEIVING" => AtStart

\* The receiver has taken the first p bytes of a command, or of a packet.
CommandTaken(kind, p) ==
  /\ ~ota_data_started /\ ota_frame_state = "HUNT_AA"
  /\ usart.rx_target = "cmd" /\ usart.rx_len = TTC_CMD_LEN
  /\ usart.rx_index = p
  /\ \A i \in 1..p : rx_buf[i] = <<kind, 0, i - 1>>

PacketTaken(kind, n, p) ==
  /\ ota_data_started
  /\ \/ /\ p < 2 /\ ota_frame_state = IF p = 0 THEN "HUNT_AA" ELSE "HUNT_55"
        /\ usart.rx_target = "scan" /\ usart.rx_len = 1
        /\ usart.rx_index = 0
     \/ /\ p >= 2 /\ ota_frame_state = "FOUND"
        /\ usart.rx_target = "packet" /\ usart.rx_len = OTA_FULL_PACKET - 2
        /\ usart.rx_index = p - 2
        /\ Code(rx_buf[1]) = "AA" /\ Code(rx_buf[2]) = "55"
        /\ \A i \in 3..p : rx_buf[i] = <<kind, n, i - 1>>

Flying == gwait /\ usart.rx_state = "RECEIVING" /\ down = None

CommandFlies ==
  /\ Flying
  /\ \E kind \in {"START", "REQUEST", "END_OTA"}, p \in 0..(TTC_CMD_LEN - 1) :
       /\ Carries(kind, 0, p) /\ CommandTaken(kind, p)
       /\ gstate = IF kind = "START" THEN "starting" ELSE "off"

PacketFlies ==
  /\ Flying
  /\ \E kind \in {"PKT", "END"}, n \in 0..(Pages - 1),
        p \in 0..(OTA_FULL_PACKET - 1) :
       /\ Carries(kind, n, p) /\ PacketTaken(kind, n, p)
       /\ IF kind = "PKT" THEN gstate = "sending"
                          ELSE gstate \in {"ending", "off"}

----------------------------------------------------------------------------
(* The phases.                                                             *)

\* Neither FSM has failed; the receiver rests only until a reply is out, and
\* what is on the air is one reply.
Machine ==
  /\ usart.rx_state # "ERROR" /\ usart.tx_state # "ERROR"
  /\ usart.rx_state = "IDLE" => waiting_tx
  /\ usart.tx_state = "TRANSMITTING" =>
       /\ waiting_tx
       /\ usart.tx_buf = "tx_buf" => \A i \in 1..Len(air) : air[i] = None
       /\ usart.tx_buf # "tx_buf" =>
            /\ ota_ack_buf \in Reply
            /\ \A i \in 1..Len(air) : air[i] = ota_ack_buf
  /\ waiting_tx =>
       \/ usart.tx_state = "TRANSMITTING"
       \/ /\ pc \in {"rx", "end"}
          /\ usart.tx_len > 0 /\ usart.tx_index >= usart.tx_len

\* Nothing but telemetry is sent.
Silent == usart.tx_state = "TRANSMITTING" => usart.tx_buf = "tx_buf"

\* A reply is being sent, or has come down.
Telling(m) ==
  /\ usart.tx_state = "TRANSMITTING" /\ usart.tx_buf = "ota_ack_buf"
  /\ ota_ack_buf = m /\ down = None

Told(m) == usart.tx_state = "IDLE" /\ down = m

\* Commands; after the restart the ground may not have heard of the end yet.
Commanding ==
  /\ ~OTA_REQUESTED /\ ~ota_data_started /\ session = "idle" /\ Silent
  /\ \/ /\ Calm /\ gstate = "off"
        /\ ~gwait => usart.rx_state = "RECEIVING" /\ down = None
     \/ Calm /\ gstate = "ending" /\ gwait /\ down = Ack(END)
     \/ CommandFlies

\* The flash is being prepared, and the ground awaits READY.
Preparing ==
  /\ OTA_REQUESTED /\ ~ota_data_started /\ Silent
  /\ \/ session = "erasing"
     \/ session = "erased" /\ usart.tx_state = "IDLE"
  /\ s_ota_pkt = NoPkt
  /\ Calm /\ gstate = "starting" /\ gwait /\ down = None

READY == [kind |-> "READY", seq |-> 0]

\* Packets: READY is on its way, or an acknowledgement or none, or it is the
\* ground's turn, or a packet is on its way.
Transferring ==
  /\ OTA_REQUESTED /\ ota_data_started /\ session \in {"open", "writing"}
  /\ s_ota_pkt.seq # END
  /\ \/ /\ Calm /\ gstate = "starting" /\ gwait
        /\ session = "open" /\ s_ota_pkt = NoPkt
        /\ Telling(READY) \/ Told(READY)
     \/ /\ Calm /\ gstate = "sending" /\ gwait
        /\ Telling(ota_ack_buf) \/ usart.tx_state = "IDLE"
     \/ /\ Calm /\ gstate \in {"sending", "ending"} /\ ~gwait
        /\ ~waiting_tx /\ down = None
     \/ ~waiting_tx /\ PacketFlies

\* The END packet has come, and the ground sends nothing before the restart.
Finishing ==
  /\ OTA_REQUESTED /\ ~ota_data_started
  /\ \/ session \in {"open", "writing"} /\ s_ota_pkt.seq = END
     \/ session = "closing"
     \/ session = "done" /\ usart.tx_state = "IDLE"
  /\ Calm /\ gwait
  /\ \/ gstate = "off"
     \/ gstate = "ending" /\ (Telling(Ack(END)) \/ Told(Ack(END)))

Phases == Commanding \/ Preparing \/ Transferring \/ Finishing
Clean  == ~overrun /\ ~torn /\ Machine /\ Phases
CleanUnlessFaults == faults = 0 => Clean

----------------------------------------------------------------------------
(* Parts of frames.                                                        *)

BytesOf(kind, n) == {<<kind, n, k>> : k \in Nat}

LEMMA PartSeq ==
  ASSUME NEW kind, NEW n, NEW p \in Nat, NEW q \in Nat, p <= q
  PROVE  /\ Part(kind, n, p, q) \in Seq(BytesOf(kind, n))
         /\ Len(Part(kind, n, p, q)) = q - p
<1> DEFINE S == BytesOf(kind, n)
<1> DEFINE s == Part(kind, n, p, q)
<1>1. q - p \in Nat
  OBVIOUS
<1>2. \A i \in 1..(q - p) : p + i - 1 \in Nat
  OBVIOUS
<1>3. \A i \in 1..(q - p) : s[i] = <<kind, n, p + i - 1>> /\ s[i] \in S
  BY <1>2 DEF Part, BytesOf
<1>4. DOMAIN s = 1..(q - p) /\ s = [i \in 1..(q - p) |-> s[i]]
  BY DEF Part
<1> HIDE DEF S, s
<1>5. s \in [1..(q - p) -> S]
  BY <1>3, <1>4
<1>6. s \in Seq(S)
  BY <1>1, <1>5
<1>7. Len(s) = q - p
  BY <1>1, <1>4, <1>6
<1> QED
  BY <1>3, <1>6, <1>7 DEF S, s

LEMMA PartEmpty ==
  ASSUME NEW kind, NEW n, NEW p \in Nat, NEW q \in Nat, p <= q
  PROVE  Part(kind, n, p, q) = <<>> <=> p = q
<1> DEFINE S == BytesOf(kind, n)
<1> DEFINE s == Part(kind, n, p, q)
<1>1. s \in Seq(S) /\ Len(s) = q - p
  BY PartSeq
<1> HIDE DEF S, s
<1>2. s = <<>> <=> Len(s) = 0
  BY <1>1
<1> QED
  BY <1>1, <1>2 DEF s

LEMMA PartHead ==
  ASSUME NEW kind, NEW n, NEW p \in Nat, NEW q \in Nat, p < q
  PROVE  /\ Head(Part(kind, n, p, q)) = <<kind, n, p>>
         /\ Tail(Part(kind, n, p, q)) = Part(kind, n, p + 1, q)
<1> DEFINE S == BytesOf(kind, n)
<1> DEFINE s == Part(kind, n, p, q)
<1> DEFINE t == Part(kind, n, p + 1, q)
<1>1. /\ s \in Seq(S) /\ Len(s) = q - p
      /\ \A i \in 1..(q - p) : s[i] = <<kind, n, p + i - 1>>
  <2>0. p <= q
    OBVIOUS
  <2>1. s \in Seq(S) /\ Len(s) = q - p
    BY <2>0, PartSeq
  <2>2. \A i \in 1..(q - p) : s[i] = <<kind, n, p + i - 1>>
    BY DEF Part
  <2> QED
    BY <2>1, <2>2
<1>2. /\ t \in Seq(S) /\ Len(t) = q - (p + 1)
      /\ \A i \in 1..(q - (p + 1)) : t[i] = <<kind, n, (p + 1) + i - 1>>
  <2>1. p + 1 \in Nat /\ p + 1 <= q
    OBVIOUS
  <2>2. t \in Seq(S) /\ Len(t) = q - (p + 1)
    BY <2>1, PartSeq
  <2>3. \A i \in 1..(q - (p + 1)) : t[i] = <<kind, n, (p + 1) + i - 1>>
    BY DEF Part
  <2> QED
    BY <2>2, <2>3
<1> HIDE DEF S, s, t
<1>3. s # <<>> /\ 1 \in 1..(q - p) /\ p + 1 - 1 = p
  BY <1>1
<1>4. Head(s) = <<kind, n, p>>
  BY <1>1, <1>3
<1>5. Tail(s) \in Seq(S) /\ Len(Tail(s)) = Len(t)
  BY <1>1, <1>2, <1>3
<1>6. \A i \in 1..Len(t) : Tail(s)[i] = t[i]
  <2> TAKE i \in 1..Len(t)
  <2>1. Tail(s)[i] = s[i + 1] /\ i + 1 \in 1..(q - p)
    BY <1>1, <1>2, <1>3
  <2>2. p + (i + 1) - 1 = (p + 1) + i - 1
    BY <1>2
  <2> QED
    BY <1>1, <1>2, <2>1, <2>2
<1>7. Tail(s) = t
  BY <1>2, <1>5, <1>6
<1> QED
  BY <1>4, <1>7 DEF s, t

LEMMA PartAppend ==
  ASSUME NEW kind, NEW n, NEW p \in Nat, NEW q \in Nat, p <= q
  PROVE  Append(Part(kind, n, p, q), <<kind, n, q>>) = Part(kind, n, p, q + 1)
<1> DEFINE S == BytesOf(kind, n)
<1> DEFINE s == Part(kind, n, p, q)
<1> DEFINE t == Part(kind, n, p, q + 1)
<1> DEFINE b == <<kind, n, q>>
<1>1. /\ s \in Seq(S) /\ Len(s) = q - p
      /\ \A i \in 1..(q - p) : s[i] = <<kind, n, p + i - 1>>
  <2>1. s \in Seq(S) /\ Len(s) = q - p
    BY PartSeq
  <2>2. \A i \in 1..(q - p) : s[i] = <<kind, n, p + i - 1>>
    BY DEF Part
  <2> QED
    BY <2>1, <2>2
<1>2. /\ t \in Seq(S) /\ Len(t) = (q + 1) - p
      /\ \A i \in 1..((q + 1) - p) : t[i] = <<kind, n, p + i - 1>>
  <2>1. q + 1 \in Nat /\ p <= q + 1
    OBVIOUS
  <2>2. t \in Seq(S) /\ Len(t) = (q + 1) - p
    BY <2>1, PartSeq
  <2>3. \A i \in 1..((q + 1) - p) : t[i] = <<kind, n, p + i - 1>>
    BY DEF Part
  <2> QED
    BY <2>2, <2>3
<1>3. b \in S
  BY DEF BytesOf
<1>4. (q + 1) - p \in 1..((q + 1) - p) /\ p + ((q + 1) - p) - 1 = q
  OBVIOUS
<1>5. t[(q + 1) - p] = b
  BY <1>2, <1>4
<1> HIDE DEF S, s, t, b
<1>6. Append(s, b) \in Seq(S) /\ Len(Append(s, b)) = (q + 1) - p
  BY <1>1, <1>3
<1>7. \A i \in 1..((q + 1) - p) : Append(s, b)[i] = t[i]
  <2> TAKE i \in 1..((q + 1) - p)
  <2>1. CASE i = (q + 1) - p
    BY <1>1, <1>3, <1>5, <2>1
  <2>2. CASE i # (q + 1) - p
    <3>1. i \in 1..(q - p)
      BY <2>2
    <3>2. Append(s, b)[i] = s[i]
      BY <1>1, <1>3, <3>1
    <3> QED
      BY <1>1, <1>2, <3>1, <3>2
  <2> QED
    BY <2>1, <2>2
<1>8. Append(s, b) = t
  BY <1>2, <1>6, <1>7
<1> QED
  BY <1>8 DEF s, t, b

LEMMA FrameIsPart ==
  ASSUME NEW kind, NEW n
  PROVE  /\ FrameLen(kind) \in Nat \ {0}
         /\ FrameLen(kind) <= OTA_FULL_PACKET
         /\ Frame(kind, n) = Part(kind, n, 0, FrameLen(kind))
<1>1. FrameLen(kind) \in Nat \ {0} /\ FrameLen(kind) <= OTA_FULL_PACKET
  BY Sizes, Numbers DEF FrameLen
<1> DEFINE m == FrameLen(kind)
<1> HIDE DEF m
<1>2. m - 0 = m /\ \A i \in 1..m : 0 + i - 1 = i - 1
  BY <1>1 DEF m
<1>3. [i \in 1..m |-> <<kind, n, i - 1>>]
        = [i \in 1..(m - 0) |-> <<kind, n, 0 + i - 1>>]
  BY <1>1, <1>2 DEF m
<1> QED
  BY <1>1, <1>3 DEF Frame, Part, m

----------------------------------------------------------------------------
(* The bytes on their way.                                                 *)

LEMMA SomethingIsOnItsWay ==
  ASSUME NEW kind, NEW n, NEW p \in Nat, p < FrameLen(kind), Carries(kind, n, p)
  PROVE  rx_circ_buf # <<>> \/ wire # <<>>
<1>1. FrameLen(kind) \in Nat
  BY FrameIsPart
<1>2. PICK q \in p..FrameLen(kind) :
        /\ rx_circ_buf = Part(kind, n, p, q)
        /\ wire = Part(kind, n, q, FrameLen(kind))
  BY DEF Carries
<1>3. q \in Nat /\ p <= q /\ q <= FrameLen(kind)
  BY <1>1, <1>2
<1>4. Part(kind, n, p, q) = <<>> <=> p = q
  BY <1>3, PartEmpty
<1>5. Part(kind, n, q, FrameLen(kind)) = <<>> <=> q = FrameLen(kind)
  BY <1>1, <1>3, PartEmpty
<1> QED
  BY <1>2, <1>4, <1>5

\* The ring buffer always has room for the next byte of the frame.
LEMMA ByteArrives ==
  ASSUME NEW kind, NEW n, NEW p \in Nat, p <= FrameLen(kind),
         Carries(kind, n, p), wire # <<>>, wire' = Tail(wire)
  PROVE  /\ Len(rx_circ_buf) + 1 < RX_CIRC_BUF_SIZE
         /\ rx_circ_buf' = Append(rx_circ_buf, Head(wire)) =>
              Carries(kind, n, p)'
<1> DEFINE m == FrameLen(kind)
<1>1. m \in Nat /\ m <= OTA_FULL_PACKET
  BY FrameIsPart
<1>2. PICK q \in p..m :
        rx_circ_buf = Part(kind, n, p, q) /\ wire = Part(kind, n, q, m)
  BY DEF Carries
<1> HIDE DEF m
<1>3. q \in Nat /\ p <= q /\ q <= m
  BY <1>1, <1>2
<1>4. q < m
  BY <1>1, <1>2, <1>3, PartEmpty
<1>5. Len(rx_circ_buf) = q - p
  BY <1>2, <1>3, PartSeq
<1>6. Len(rx_circ_buf) + 1 < RX_CIRC_BUF_SIZE
  BY <1>1, <1>3, <1>4, <1>5, Sizes, Numbers
<1>7. Head(wire) = <<kind, n, q>> /\ wire' = Part(kind, n, q + 1, m)
  <2>1. /\ Head(Part(kind, n, q, m)) = <<kind, n, q>>
        /\ Tail(Part(kind, n, q, m)) = Part(kind, n, q + 1, m)
    BY <1>1, <1>3, <1>4, PartHead
  <2> QED
    BY <1>2, <2>1
<1>8. Append(rx_circ_buf, Head(wire)) = Part(kind, n, p, q + 1)
  <2>1. Append(Part(kind, n, p, q), <<kind, n, q>>) = Part(kind, n, p, q + 1)
    BY <1>3, PartAppend
  <2> QED
    BY <1>2, <1>7, <2>1
<1>9. q + 1 \in p..m
  BY <1>1, <1>3, <1>4
<1> QED
  BY <1>6, <1>7, <1>8, <1>9 DEF Carries, m

LEMMA ByteIsTaken ==
  ASSUME NEW kind, NEW n, NEW p \in Nat, p < FrameLen(kind),
         Carries(kind, n, p), rx_circ_buf # <<>>,
         rx_circ_buf' = Tail(rx_circ_buf), wire' = wire
  PROVE  Head(rx_circ_buf) = <<kind, n, p>> /\ Carries(kind, n, p + 1)'
<1> DEFINE m == FrameLen(kind)
<1>1. m \in Nat
  BY FrameIsPart
<1>2. PICK q \in p..m :
        rx_circ_buf = Part(kind, n, p, q) /\ wire = Part(kind, n, q, m)
  BY DEF Carries
<1> HIDE DEF m
<1>3. q \in Nat /\ p <= q /\ q <= m
  BY <1>1, <1>2
<1>4. p < q
  BY <1>2, <1>3, PartEmpty
<1>5. /\ Head(rx_circ_buf) = <<kind, n, p>>
      /\ rx_circ_buf' = Part(kind, n, p + 1, q)
  BY <1>2, <1>3, <1>4, PartHead
<1>6. q \in (p + 1)..m
  BY <1>1, <1>3, <1>4
<1> QED
  BY <1>2, <1>5, <1>6 DEF Carries, m

LEMMA LastByteIsTaken ==
  ASSUME NEW kind, NEW n, NEW p \in Nat, p = FrameLen(kind),
         Carries(kind, n, p)'
  PROVE  rx_circ_buf' = <<>> /\ wire' = <<>>
<1>1. PICK q \in p..FrameLen(kind) :
        /\ rx_circ_buf' = Part(kind, n, p, q)
        /\ wire' = Part(kind, n, q, FrameLen(kind))
  BY DEF Carries
<1>2. q = p
  BY <1>1
<1>3. Part(kind, n, p, p) = <<>>
  BY PartEmpty
<1> QED
  BY <1>1, <1>2, <1>3

LEMMA FrameIsSent ==
  ASSUME NEW kind, NEW n, rx_circ_buf' = <<>>, wire' = Frame(kind, n)
  PROVE  Carries(kind, n, 0)'
<1>1. /\ FrameLen(kind) \in Nat
      /\ wire' = Part(kind, n, 0, FrameLen(kind))
  BY FrameIsPart
<1>2. rx_circ_buf' = Part(kind, n, 0, 0)
  BY PartEmpty
<1>3. 0 \in 0..FrameLen(kind)
  BY <1>1
<1> QED
  BY <1>1, <1>2, <1>3 DEF Carries

\* The lengths of the frames.
LEMMA Lengths ==
  /\ \A kind \in {"START", "REQUEST", "END_OTA"} :
       FrameLen(kind) = TTC_CMD_LEN
  /\ \A kind \in {"PKT", "END"} : FrameLen(kind) = OTA_FULL_PACKET
BY DEF FrameLen

\* A frame that flies has bytes on their way.
LEMMA Flies ==
  ASSUME CommandFlies \/ PacketFlies
  PROVE  /\ rx_circ_buf # <<>> \/ wire # <<>>
         /\ gwait /\ usart.rx_state = "RECEIVING" /\ down = None
<1>1. CASE CommandFlies
  <2>1. PICK kind \in {"START", "REQUEST", "END_OTA"},
             p \in 0..(TTC_CMD_LEN - 1) : Carries(kind, 0, p)
    BY <1>1 DEF CommandFlies
  <2>2. p \in Nat /\ p < FrameLen(kind)
    BY <2>1, Lengths, Sizes
  <2> QED
    BY <1>1, <2>1, <2>2, SomethingIsOnItsWay DEF CommandFlies, Flying
<1>2. CASE PacketFlies
  <2>1. PICK kind \in {"PKT", "END"}, n \in 0..(Pages - 1),
             p \in 0..(OTA_FULL_PACKET - 1) : Carries(kind, n, p)
    BY <1>2 DEF PacketFlies
  <2>2. p \in Nat /\ p < FrameLen(kind)
    BY <2>1, Lengths, Sizes
  <2> QED
    BY <1>2, <2>1, <2>2, SomethingIsOnItsWay DEF PacketFlies, Flying
<1> QED
  BY <1>1, <1>2

LEMMA Apart ==
  /\ READY # None /\ READY.kind = "READY" /\ None.kind # "READY"
  /\ READY \in Reply /\ Ack(END) \in Reply
  /\ \A n : Ack(n) # None /\ Ack(n).kind = "ACK"
  /\ NoPkt.seq # END
  /\ None \notin Reply
BY KnownReplies, Numbers DEF READY, None, Ack, NoPkt, END, Reply

----------------------------------------------------------------------------
(* Steps that leave the receiver, or the whole link, as it was.            *)

Unmoved ==
  /\ UNCHANGED <<rx_circ_buf, wire, rx_buf, ota_data_started, ota_frame_state>>
  /\ usart'.rx_state = usart.rx_state /\ usart'.rx_target = usart.rx_target
  /\ usart'.rx_len = usart.rx_len /\ usart'.rx_index = usart.rx_index

SameSender ==
  /\ usart'.tx_state = usart.tx_state /\ usart'.tx_buf = usart.tx_buf
  /\ usart'.tx_len = usart.tx_len /\ usart'.tx_index = usart.tx_index
  /\ UNCHANGED <<air, ota_ack_buf, waiting_tx>>

SameControl ==
  UNCHANGED <<OTA_REQUESTED, session, s_ota_pkt, gstate, gwait, down>>

LEMMA UnmovedStays ==
  ASSUME Unmoved
  PROVE  /\ Calm => Calm'
         /\ UNCHANGED <<gstate, gwait, down>> =>
              (CommandFlies => CommandFlies') /\ (PacketFlies => PacketFlies')
<1>1. ASSUME NEW kind, NEW n, NEW p, Carries(kind, n, p)
      PROVE  Carries(kind, n, p)'
  BY <1>1 DEF Unmoved, Carries
<1>2. ASSUME NEW kind, NEW p, CommandTaken(kind, p)
      PROVE  CommandTaken(kind, p)'
  BY <1>2 DEF Unmoved, CommandTaken
<1>3. ASSUME NEW kind, NEW n, NEW p, PacketTaken(kind, n, p)
      PROVE  PacketTaken(kind, n, p)'
  BY <1>3 DEF Unmoved, PacketTaken, Code
<1>4. Calm => Calm'
  BY DEF Unmoved, Calm, AtStart
<1>5. ASSUME UNCHANGED <<gstate, gwait, down>>, CommandFlies PROVE CommandFlies'
  BY <1>1, <1>2, <1>5 DEF Unmoved, CommandFlies, Flying
<1>6. ASSUME UNCHANGED <<gstate, gwait, down>>, PacketFlies PROVE PacketFlies'
  BY <1>1, <1>3, <1>6 DEF Unmoved, PacketFlies, Flying
<1> QED
  BY <1>4, <1>5, <1>6

LEMMA PhasesStay ==
  ASSUME Phases, SameSender, SameControl, ota_data_started' = ota_data_started,
         usart'.rx_state = usart.rx_state,
         Calm => Calm', CommandFlies => CommandFlies',
         PacketFlies => PacketFlies'
  PROVE  Phases'
<1> USE DEF SameSender, SameControl, Silent, Telling, Told
<1>1. CASE Commanding
  <2>1. Commanding'
    BY <1>1 DEF Commanding
  <2> QED
    BY <2>1 DEF Phases
<1>2. CASE Preparing
  <2>1. Preparing'
    BY <1>2 DEF Preparing
  <2> QED
    BY <2>1 DEF Phases
<1>3. CASE Transferring
  <2>1. Transferring'
    BY <1>3 DEF Transferring
  <2> QED
    BY <2>1 DEF Phases
<1>4. CASE Finishing
  <2>1. Finishing'
    BY <1>4 DEF Finishing
  <2> QED
    BY <2>1 DEF Phases
<1> QED
  BY <1>1, <1>2, <1>3, <1>4 DEF Phases

LEMMA MachineStays ==
  ASSUME Machine, SameSender, usart'.rx_state = usart.rx_state,
         pc' \in {"rx", "end"} \/ pc \notin {"rx", "end"}
  PROVE  Machine'
BY DEF Machine, SameSender

\* A turn that goes by.
LEMMA NothingHappens ==
  ASSUME Clean, Unmoved, SameSender, SameControl, UNCHANGED <<overrun, torn>>,
         pc' \in {"rx", "end"} \/ pc \notin {"rx", "end"}
  PROVE  Clean'
<1>1. Machine'
  BY MachineStays DEF Clean, Unmoved
<1>2. Phases'
  BY UnmovedStays, PhasesStay DEF Clean, Unmoved, SameControl
<1> QED
  BY <1>1, <1>2 DEF Clean


----------------------------------------------------------------------------
(* usart_rx_tick, without faults.                                          *)

\* A byte can only be taken from a frame that flies.
LEMMA TakenFromFrame ==
  ASSUME Clean, NEW b, Receiving(b)
  PROVE  \/ Commanding /\ CommandFlies
         \/ Transferring /\ ~waiting_tx /\ PacketFlies
<1>1. ~Calm
  BY DEF Receiving, HasData, Calm
<1> QED
  BY <1>1 DEF Clean, Phases, Commanding, Preparing, Transferring, Finishing

\* The fields of the handle with one more byte, and of the one that a
\* completed reception leaves.
LEMMA TakenParts ==
  ASSUME TInv
  PROVE  LET v == [Taken EXCEPT !.rx_state = "IDLE"] IN
         /\ Taken.rx_index = usart.rx_index + 1
         /\ Taken.rx_target = usart.rx_target /\ Taken.rx_len = usart.rx_len
         /\ Taken.rx_state = usart.rx_state
         /\ Taken.tx_state = usart.tx_state /\ Taken.tx_buf = usart.tx_buf
         /\ Taken.tx_len = usart.tx_len /\ Taken.tx_index = usart.tx_index
         /\ v.rx_state = "IDLE"
         /\ v.tx_state = usart.tx_state /\ v.tx_buf = usart.tx_buf
         /\ v.tx_len = usart.tx_len /\ v.tx_index = usart.tx_index
         /\ v \in Handles
<1> DEFINE t == [usart EXCEPT !.rx_index = usart.rx_index + 1, !.timeout = 0]
<1> DEFINE v == [t EXCEPT !.rx_state = "IDLE"]
<1>1. Taken = t
  BY DEF Taken
<1>2. usart.rx_index + 1 \in Nat
  BY DEF TInv, Fits, Handles
<1>3. /\ t \in Handles
      /\ t.rx_index = usart.rx_index + 1
      /\ t.rx_target = usart.rx_target /\ t.rx_len = usart.rx_len
      /\ t.rx_state = usart.rx_state
      /\ t.tx_state = usart.tx_state /\ t.tx_buf = usart.tx_buf
      /\ t.tx_len = usart.tx_len /\ t.tx_index = usart.tx_index
  BY <1>2 DEF TInv, Fits, Handles
<1> HIDE DEF t
<1>4. /\ v.rx_state = "IDLE" /\ v \in Handles
      /\ v.tx_state = usart.tx_state /\ v.tx_buf = usart.tx_buf
      /\ v.tx_len = usart.tx_len /\ v.tx_index = usart.tx_index
  BY <1>3 DEF Handles
<1> QED
  BY <1>1, <1>3, <1>4

\* A byte of rx_buf.
LEMMA StoredByte ==
  ASSUME TInv, NEW b, NEW k \in 1..OTA_FULL_PACKET,
         rx_buf' = [rx_buf EXCEPT ![k] = b]
  PROVE  rx_buf'[k] = b /\ \A i \in 1..OTA_FULL_PACKET :
                              i # k => rx_buf'[i] = rx_buf[i]
BY DEF TInv, DataTypeOK

\* One more byte of a command, or of a packet behind its sync word.
LEMMA CommandGrows ==
  ASSUME TInv, NEW kind \in {"START", "REQUEST", "END_OTA"},
         NEW p \in 0..(TTC_CMD_LEN - 1), Carries(kind, 0, p),
         CommandTaken(kind, p), NEW b, Receiving(b), Store(b), wire' = wire
  PROVE  /\ Carries(kind, 0, p + 1)'
         /\ \A i \in 1..(p + 1) : rx_buf'[i] = <<kind, 0, i - 1>>
<1>1. p \in Nat /\ p < FrameLen(kind) /\ p + 1 \in 1..OTA_FULL_PACKET
  BY Lengths, Sizes
<1>2. b = <<kind, 0, p>> /\ Carries(kind, 0, p + 1)'
  BY <1>1, ByteIsTaken DEF Receiving, HasData
<1>3. rx_buf' = [rx_buf EXCEPT ![p + 1] = b]
  BY DEF Store, CommandTaken
<1>5. /\ rx_buf'[p + 1] = b
      /\ \A i \in 1..OTA_FULL_PACKET : i # p + 1 => rx_buf'[i] = rx_buf[i]
  BY <1>1, <1>3, StoredByte
<1>4. \A i \in 1..(p + 1) : rx_buf'[i] = <<kind, 0, i - 1>>
  <2> TAKE i \in 1..(p + 1)
  <2>1. CASE i = p + 1
    <3>1. i - 1 = p
      BY <1>1, <2>1
    <3> QED
      BY <1>2, <1>5, <2>1, <3>1
  <2>2. CASE i # p + 1
    <3>1. i \in 1..p /\ i \in 1..OTA_FULL_PACKET
      BY <1>1, <2>2, Sizes
    <3> QED
      BY <1>5, <2>2, <3>1 DEF CommandTaken
  <2> QED
    BY <2>1, <2>2
<1> QED
  BY <1>2, <1>4

LEMMA PacketGrows ==
  ASSUME TInv, NEW kind \in {"PKT", "END"}, NEW n,
         NEW p \in 0..(OTA_FULL_PACKET - 1), Carries(kind, n, p),
         PacketTaken(kind, n, p), usart.rx_target # "scan",
         NEW b, Receiving(b), Store(b), wire' = wire
  PROVE  /\ p >= 2 /\ usart.rx_target = "packet"
         /\ usart.rx_index = p - 2 /\ usart.rx_len = OTA_FULL_PACKET - 2
         /\ Carries(kind, n, p + 1)'
         /\ Code(rx_buf'[1]) = "AA" /\ Code(rx_buf'[2]) = "55"
         /\ \A i \in 3..(p + 1) : rx_buf'[i] = <<kind, n, i - 1>>
<1>1. p \in Nat /\ p < FrameLen(kind) /\ p + 1 \in 1..OTA_FULL_PACKET
  BY Lengths, Sizes
<1>2. b = <<kind, n, p>> /\ Carries(kind, n, p + 1)'
  BY <1>1, ByteIsTaken DEF Receiving, HasData
<1>3. /\ p >= 2 /\ usart.rx_target = "packet"
      /\ usart.rx_index = p - 2 /\ usart.rx_len = OTA_FULL_PACKET - 2
      /\ Code(rx_buf[1]) = "AA" /\ Code(rx_buf[2]) = "55"
      /\ \A i \in 3..p : rx_buf[i] = <<kind, n, i - 1>>
  BY DEF PacketTaken
<1>4. usart.rx_index + 3 = p + 1
  BY <1>1, <1>3
<1>5. rx_buf' = [rx_buf EXCEPT ![p + 1] = b]
  BY <1>3, <1>4 DEF Store
<1>10. /\ rx_buf'[p + 1] = b
       /\ \A i \in 1..OTA_FULL_PACKET : i # p + 1 => rx_buf'[i] = rx_buf[i]
  BY <1>1, <1>5, StoredByte
<1>6. /\ 1 \in 1..OTA_FULL_PACKET /\ 2 \in 1..OTA_FULL_PACKET
      /\ p + 1 # 1 /\ p + 1 # 2
  BY <1>1, <1>3, Sizes
<1>7. rx_buf'[1] = rx_buf[1] /\ rx_buf'[2] = rx_buf[2]
  BY <1>6, <1>10
<1>8. Code(rx_buf'[1]) = "AA" /\ Code(rx_buf'[2]) = "55"
  BY <1>3, <1>7
<1>9. \A i \in 3..(p + 1) : rx_buf'[i] = <<kind, n, i - 1>>
  <2> TAKE i \in 3..(p + 1)
  <2>1. CASE i = p + 1
    <3>1. i - 1 = p
      BY <1>1, <2>1
    <3> QED
      BY <1>2, <1>10, <2>1, <3>1
  <2>2. CASE i # p + 1
    <3>1. i \in 3..p /\ i \in 1..OTA_FULL_PACKET
      BY <1>1, <2>2, Sizes
    <3> QED
      BY <1>3, <1>10, <2>2, <3>1
  <2> QED
    BY <2>1, <2>2
<1> QED
  BY <1>2, <1>3, <1>8, <1>9

LEMMA RxMoreClean == ASSUME TInv, Clean, RxMore PROVE Clean'
<1>1. PICK b \in Byte :
        /\ Receiving(b) /\ Store(b)
        /\ Taken.rx_index < usart.rx_len /\ usart' = Taken
    BY DEF RxMore
<1>2. /\ UNCHANGED <<wire, down, gstate, gwait, overrun, torn, air,
                     ota_data_started, ota_frame_state, ota_ack_buf, waiting_tx,
                     s_ota_pkt, OTA_REQUESTED, session>>
      /\ pc' = "end"
  BY DEF RxMore, Receiving, Rx, Elsewhere, ground, frame, replies, control,
         history
<1>3. /\ usart'.rx_index = usart.rx_index + 1
      /\ usart'.rx_target = usart.rx_target /\ usart'.rx_len = usart.rx_len
      /\ usart'.rx_state = usart.rx_state
      /\ usart'.tx_state = usart.tx_state /\ usart'.tx_buf = usart.tx_buf
      /\ usart'.tx_len = usart.tx_len /\ usart'.tx_index = usart.tx_index
  BY <1>1, TakenParts
<1>4. usart.rx_index + 1 < usart.rx_len
  BY <1>1, TakenParts
<1>5. SameSender /\ SameControl
  BY <1>2, <1>3 DEF SameSender, SameControl
<1>6. Machine'
  BY <1>2, <1>3, <1>5, MachineStays DEF Clean
<1>7. CommandFlies => CommandFlies'
  <2> SUFFICES ASSUME CommandFlies PROVE CommandFlies'
    OBVIOUS
  <2>1. PICK kind \in {"START", "REQUEST", "END_OTA"},
             p \in 0..(TTC_CMD_LEN - 1) :
          /\ Carries(kind, 0, p) /\ CommandTaken(kind, p)
          /\ gstate = IF kind = "START" THEN "starting" ELSE "off"
    BY DEF CommandFlies
  <2>2. /\ Carries(kind, 0, p + 1)'
        /\ \A i \in 1..(p + 1) : rx_buf'[i] = <<kind, 0, i - 1>>
    BY <1>1, <1>2, <2>1, CommandGrows
  <2>3. p + 1 \in 0..(TTC_CMD_LEN - 1)
    BY <1>4, <2>1, Sizes DEF CommandTaken
  <2>4. CommandTaken(kind, p + 1)'
    BY <1>2, <1>3, <2>1, <2>2 DEF CommandTaken
  <2> QED
    BY <1>2, <1>3, <2>1, <2>2, <2>3, <2>4 DEF CommandFlies, Flying
<1>8. PacketFlies => PacketFlies'
  <2> SUFFICES ASSUME PacketFlies PROVE PacketFlies'
    OBVIOUS
  <2>1. PICK kind \in {"PKT", "END"}, n \in 0..(Pages - 1),
             p \in 0..(OTA_FULL_PACKET - 1) :
          /\ Carries(kind, n, p) /\ PacketTaken(kind, n, p)
          /\ IF kind = "PKT" THEN gstate = "sending"
                             ELSE gstate \in {"ending", "off"}
    BY DEF PacketFlies
  <2>2. usart.rx_target # "scan"
    BY <1>4, <2>1 DEF PacketTaken
  <2>3. /\ p >= 2 /\ usart.rx_target = "packet"
        /\ usart.rx_index = p - 2 /\ usart.rx_len = OTA_FULL_PACKET - 2
        /\ Carries(kind, n, p + 1)'
        /\ Code(rx_buf'[1]) = "AA" /\ Code(rx_buf'[2]) = "55"
        /\ \A i \in 3..(p + 1) : rx_buf'[i] = <<kind, n, i - 1>>
    BY <1>1, <1>2, <2>1, <2>2, PacketGrows
  <2>4. p + 1 \in 0..(OTA_FULL_PACKET - 1) /\ usart'.rx_index = (p + 1) - 2
    BY <1>3, <1>4, <2>3, Sizes
  <2>5. ota_frame_state = "FOUND" /\ ota_data_started
    BY <2>1, <2>2 DEF PacketTaken
  <2>6. PacketTaken(kind, n, p + 1)'
    BY <1>2, <1>3, <2>3, <2>4, <2>5 DEF PacketTaken
  <2> QED
    BY <1>2, <1>3, <2>1, <2>3, <2>4, <2>6 DEF PacketFlies, Flying
<1>9. Calm => Calm'
  BY <1>1 DEF Receiving, HasData, Calm
<1>10. Phases'
  BY <1>2, <1>3, <1>5, <1>7, <1>8, <1>9, PhasesStay DEF Clean
<1> QED
  BY <1>2, <1>6, <1>10 DEF Clean

\* A reception that is begun, and what a sender is left with.
LEMMA RecvParts ==
  ASSUME NEW u \in Handles, u.rx_state = "IDLE", NEW target \in Targets
  PROVE  LET v == RecvAsync(u, target) IN
         /\ v.rx_state = "RECEIVING" /\ v.rx_target = target
         /\ v.rx_len = Length(target) /\ v.rx_index = 0
         /\ v.tx_state = u.tx_state /\ v.tx_buf = u.tx_buf
         /\ v.tx_len = u.tx_len /\ v.tx_index = u.tx_index
<1> DEFINE v == [u EXCEPT !.rx_target = target, !.rx_len = Length(target),
                          !.rx_index = 0, !.timeout = 0,
                          !.rx_state = "RECEIVING"]
<1>1. RecvAsync(u, target) = v
  BY DEF RecvAsync
<1>2. /\ v.rx_state = "RECEIVING" /\ v.rx_target = target
      /\ v.rx_len = Length(target) /\ v.rx_index = 0
      /\ v.tx_state = u.tx_state /\ v.tx_buf = u.tx_buf
      /\ v.tx_len = u.tx_len /\ v.tx_index = u.tx_index
  BY DEF Handles
<1> HIDE DEF v
<1> QED
  BY <1>1, <1>2

\* A receiver that hunts for a frame: the next byte, or a command.
LEMMA ReadParts ==
  ASSUME NEW u \in Handles, u.rx_state = "IDLE", NEW started \in BOOLEAN,
         NEW state, state # "FOUND"
  PROVE  LET v == ReadAsync(u, started, state) IN
         /\ v.rx_state = "RECEIVING" /\ v.rx_index = 0
         /\ IF started THEN v.rx_target = "scan" /\ v.rx_len = 1
                       ELSE v.rx_target = "cmd" /\ v.rx_len = TTC_CMD_LEN
         /\ v.tx_state = u.tx_state /\ v.tx_buf = u.tx_buf
         /\ v.tx_len = u.tx_len /\ v.tx_index = u.tx_index
<1>1. CASE started
  <2>1. ReadAsync(u, started, state) = RecvAsync(u, "scan")
    BY <1>1 DEF ReadAsync
  <2>2. "scan" \in Targets /\ Length("scan") = 1
    BY DEF Targets, Length
  <2> DEFINE w == RecvAsync(u, "scan")
  <2>3. /\ w.rx_state = "RECEIVING" /\ w.rx_target = "scan"
        /\ w.rx_len = 1 /\ w.rx_index = 0
        /\ w.tx_state = u.tx_state /\ w.tx_buf = u.tx_buf
        /\ w.tx_len = u.tx_len /\ w.tx_index = u.tx_index
    BY <2>2, RecvParts
  <2> HIDE DEF w
  <2> QED
    BY <1>1, <2>1, <2>3 DEF w
<1>2. CASE ~started
  <2>1. ReadAsync(u, started, state) = RecvAsync(u, "cmd")
    BY <1>2 DEF ReadAsync
  <2>2. "cmd" \in Targets /\ Length("cmd") = TTC_CMD_LEN
    BY DEF Targets, Length
  <2> DEFINE w == RecvAsync(u, "cmd")
  <2>3. /\ w.rx_state = "RECEIVING" /\ w.rx_target = "cmd"
        /\ w.rx_len = TTC_CMD_LEN /\ w.rx_index = 0
        /\ w.tx_state = u.tx_state /\ w.tx_buf = u.tx_buf
        /\ w.tx_len = u.tx_len /\ w.tx_index = u.tx_index
    BY <2>2, RecvParts
  <2> HIDE DEF w
  <2> QED
    BY <1>2, <2>1, <2>3 DEF w
<1> QED
  BY <1>1, <1>2

LEMMA RxScanClean == ASSUME TInv, Clean, RxScan PROVE Clean'
<1> DEFINE u == [Taken EXCEPT !.rx_state = "IDLE"]
<1>1. PICK b \in Byte :
        /\ Receiving(b) /\ usart.rx_target = "scan"
        /\ ota_frame_state' = Scanned(b)
        /\ IF ota_frame_state' = "FOUND"
           THEN /\ rx_buf' = [rx_buf EXCEPT ![1] = <<"SYNC", 0, 0>>,
                                            ![2] = <<"SYNC", 0, 1>>]
                /\ usart' = RecvAsync(u, "packet")
           ELSE /\ usart' = IF waiting_tx THEN u
                            ELSE ReadAsync(u, ota_data_started, ota_frame_state')
                /\ UNCHANGED rx_buf
  BY DEF RxScan
<1>2. /\ UNCHANGED <<wire, down, gstate, gwait, overrun, torn, air,
                     ota_data_started, ota_ack_buf, waiting_tx,
                     s_ota_pkt, OTA_REQUESTED, session>>
      /\ pc' = "end"
  BY DEF RxScan, Receiving, Rx, Elsewhere, ground, replies, control, history
<1>3. /\ u \in Handles /\ u.rx_state = "IDLE"
      /\ u.tx_state = usart.tx_state /\ u.tx_buf = usart.tx_buf
      /\ u.tx_len = usart.tx_len /\ u.tx_index = usart.tx_index
  BY TakenParts
<1> HIDE DEF u
<1>4. ~CommandFlies
  BY <1>1 DEF CommandFlies, CommandTaken
<1>5. /\ Transferring /\ ~waiting_tx /\ PacketFlies
      /\ ota_data_started = TRUE
  BY <1>1, <1>4, TakenFromFrame DEF Transferring, TInv, DataTypeOK, TtcTypeOK
<1>6. PICK kind \in {"PKT", "END"}, n \in 0..(Pages - 1),
           p \in 0..(OTA_FULL_PACKET - 1) :
        /\ Carries(kind, n, p) /\ PacketTaken(kind, n, p)
        /\ IF kind = "PKT" THEN gstate = "sending"
                           ELSE gstate \in {"ending", "off"}
  BY <1>5 DEF PacketFlies
<1>7. /\ p < 2 /\ ota_frame_state = IF p = 0 THEN "HUNT_AA" ELSE "HUNT_55"
      /\ p \in Nat /\ p < FrameLen(kind)
      /\ p + 1 \in 0..(OTA_FULL_PACKET - 1)
  BY <1>1, <1>6, Sizes, Lengths DEF PacketTaken
<1>8. b = <<kind, n, p>> /\ Carries(kind, n, p + 1)'
  BY <1>1, <1>2, <1>6, <1>7, ByteIsTaken DEF Receiving, HasData
<1>9. /\ PacketTaken(kind, n, p + 1)'
      /\ usart'.rx_state = "RECEIVING"
      /\ usart'.tx_state = usart.tx_state /\ usart'.tx_buf = usart.tx_buf
      /\ usart'.tx_len = usart.tx_len /\ usart'.tx_index = usart.tx_index
  <2>1. CASE p = 0
    <3>1. Code(b) = "AA"
      BY <1>6, <1>8, <2>1 DEF Code
    <3>2. ota_frame_state' = "HUNT_55"
      BY <1>1, <1>7, <2>1, <3>1 DEF Scanned
    <3>3. usart' = ReadAsync(u, TRUE, "HUNT_55")
      BY <1>1, <1>5, <3>2
    <3>4. /\ usart'.rx_state = "RECEIVING" /\ usart'.rx_index = 0
          /\ usart'.rx_target = "scan" /\ usart'.rx_len = 1
          /\ usart'.tx_state = usart.tx_state /\ usart'.tx_buf = usart.tx_buf
          /\ usart'.tx_len = usart.tx_len /\ usart'.tx_index = usart.tx_index
      BY <1>3, <3>3, ReadParts
    <3> QED
      BY <1>2, <1>5, <2>1, <3>2, <3>4 DEF PacketTaken
  <2>2. CASE p = 1
    <3>1. Code(b) = "55" /\ p + 1 = 2
      BY <1>6, <1>8, <2>2 DEF Code
    <3>2. ota_frame_state' = "FOUND"
      BY <1>1, <1>7, <2>2, <3>1 DEF Scanned
    <3>3. /\ usart' = RecvAsync(u, "packet")
          /\ rx_buf' = [rx_buf EXCEPT ![1] = <<"SYNC", 0, 0>>,
                                      ![2] = <<"SYNC", 0, 1>>]
      BY <1>1, <3>2
    <3>4. "packet" \in Targets /\ Length("packet") = OTA_FULL_PACKET - 2
      BY DEF Targets, Length
    <3>5. /\ usart'.rx_state = "RECEIVING" /\ usart'.rx_index = 0
          /\ usart'.rx_target = "packet"
          /\ usart'.rx_len = OTA_FULL_PACKET - 2
          /\ usart'.tx_state = usart.tx_state /\ usart'.tx_buf = usart.tx_buf
          /\ usart'.tx_len = usart.tx_len /\ usart'.tx_index = usart.tx_index
      BY <1>3, <3>3, <3>4, RecvParts
    <3>6. rx_buf'[1] = <<"SYNC", 0, 0>> /\ rx_buf'[2] = <<"SYNC", 0, 1>>
      BY <3>3, Sizes DEF TInv, DataTypeOK
    <3>7. Code(rx_buf'[1]) = "AA" /\ Code(rx_buf'[2]) = "55"
      BY <3>6 DEF Code
    <3>8. \A i \in 3..2 : rx_buf'[i] = <<kind, n, i - 1>>
      OBVIOUS
    <3> QED
      BY <1>2, <1>5, <3>1, <3>2, <3>5, <3>7, <3>8 DEF PacketTaken
  <2> QED
    BY <1>7, <2>1, <2>2
<1>10. PacketFlies'
  BY <1>2, <1>5, <1>6, <1>7, <1>8, <1>9 DEF PacketFlies, Flying
<1>11. usart.rx_state = "RECEIVING"
  BY <1>5 DEF PacketFlies, Flying
<1>12. SameSender /\ SameControl
  BY <1>2, <1>9 DEF SameSender, SameControl
<1>13. Machine'
  BY <1>2, <1>9, <1>11, <1>12, MachineStays DEF Clean
<1>14. ~Calm
  BY <1>1 DEF Receiving, HasData, Calm
<1>15. Phases'
  BY <1>2, <1>4, <1>9, <1>10, <1>11, <1>12, <1>14, PhasesStay DEF Clean
<1> QED
  BY <1>2, <1>13, <1>15 DEF Clean

----------------------------------------------------------------------------
(* A frame is there.                                                       *)

\* What the receiver leaves after a frame: it rests, or waits for the next.
LEMMA NoReplyParts ==
  ASSUME NEW u \in Handles, u.rx_state = "IDLE", NEW started \in BOOLEAN,
         NoReply(u, started, "HUNT_AA")
  PROVE  /\ usart'.rx_state = IF waiting_tx THEN "IDLE" ELSE "RECEIVING"
         /\ usart'.rx_state = "RECEIVING" =>
              /\ usart'.rx_index = 0
              /\ IF started
                 THEN usart'.rx_target = "scan" /\ usart'.rx_len = 1
                 ELSE usart'.rx_target = "cmd" /\ usart'.rx_len = TTC_CMD_LEN
         /\ usart'.tx_state = u.tx_state /\ usart'.tx_buf = u.tx_buf
         /\ usart'.tx_len = u.tx_len /\ usart'.tx_index = u.tx_index
         /\ UNCHANGED <<ota_ack_buf, waiting_tx, air>>
<1>1. CASE waiting_tx
  <2>1. usart' = u /\ UNCHANGED <<ota_ack_buf, waiting_tx, air>>
    BY <1>1 DEF NoReply, replies
  <2> QED
    BY <1>1, <2>1
<1>2. CASE ~waiting_tx
  <2>1. /\ usart' = ReadAsync(u, started, "HUNT_AA")
        /\ UNCHANGED <<ota_ack_buf, waiting_tx, air>>
    BY <1>2 DEF NoReply, replies
  <2> QED
    BY <1>2, <2>1, ReadParts
<1> QED
  BY <1>1, <1>2

\* What the transmitter is left with.
LEMMA SendParts ==
  ASSUME NEW u \in Handles, NEW buf \in {"ota_ack_buf", "tx_buf"}
  PROVE  LET v == SendAsync(u, buf) IN
         /\ v.rx_state = u.rx_state
         /\ IF u.tx_state = "IDLE"
            THEN /\ v.tx_state = "TRANSMITTING" /\ v.tx_buf = buf
                 /\ v.tx_index = 0 /\ v.tx_len = TTC_CMD_LEN
            ELSE v = u
         /\ OnAir(u) = IF u.tx_state = "IDLE" THEN <<>> ELSE air
         /\ v.rx_target = u.rx_target /\ v.rx_len = u.rx_len
         /\ v.rx_index = u.rx_index
<1>1. CASE u.tx_state # "IDLE"
  BY <1>1 DEF SendAsync, OnAir
<1>2. CASE u.tx_state = "IDLE"
  <2> DEFINE v == [u EXCEPT !.tx_buf = buf, !.tx_len = TTC_CMD_LEN,
                            !.tx_index = 0, !.timeout = 0,
                            !.tx_state = "TRANSMITTING"]
  <2>1. SendAsync(u, buf) = v /\ OnAir(u) = <<>>
    BY <1>2 DEF SendAsync, OnAir
  <2>2. /\ v.rx_state = u.rx_state /\ v.tx_state = "TRANSMITTING"
        /\ v.tx_buf = buf /\ v.tx_index = 0 /\ v.tx_len = TTC_CMD_LEN
        /\ v.rx_target = u.rx_target /\ v.rx_len = u.rx_len
        /\ v.rx_index = u.rx_index
    BY DEF Handles
  <2> HIDE DEF v
  <2> QED
    BY <1>2, <2>1, <2>2
<1> QED
  BY <1>1, <1>2

\* Telemetry begins, or is already on its way.
LEMMA TelemetryMachine ==
  ASSUME Machine, NEW u \in Handles, SendTelemetry(u), Silent,
         u.tx_state = usart.tx_state, u.tx_buf = usart.tx_buf,
         u.rx_state # "ERROR"
  PROVE  Machine' /\ Silent' /\ waiting_tx' = TRUE
         /\ usart'.rx_state = u.rx_state
<1>1. /\ usart' = SendAsync(u, "tx_buf") /\ waiting_tx' = TRUE
      /\ air' = OnAir(u)
  BY DEF SendTelemetry
<1>2. CASE u.tx_state = "IDLE"
  <2>1. /\ usart'.tx_state = "TRANSMITTING" /\ usart'.tx_buf = "tx_buf"
        /\ usart'.rx_state = u.rx_state /\ air' = <<>>
    BY <1>1, <1>2, SendParts
  <2>2. \A i \in 1..Len(air') : air'[i] = None
    BY <2>1
  <2> QED
    BY <1>1, <2>1, <2>2 DEF Machine, Silent
<1>3. CASE u.tx_state # "IDLE"
  <2>1. usart' = u /\ air' = air
    BY <1>1, <1>3, SendParts
  <2>2. u.tx_state \in {"TRANSMITTING", "ERROR"}
    BY <1>3 DEF Handles
  <2> QED
    BY <1>1, <2>1, <2>2 DEF Machine, Silent
<1> QED
  BY <1>2, <1>3

\* A reply begins.
LEMMA ReplyMachine ==
  ASSUME NEW u \in Handles, NEW m \in Reply, SendReply(u, m),
         u.tx_state = "IDLE", u.rx_state # "ERROR"
  PROVE  /\ Machine' /\ waiting_tx' = TRUE
         /\ usart'.rx_state = u.rx_state
         /\ usart'.tx_state = "TRANSMITTING"
         /\ usart'.tx_buf = "ota_ack_buf" /\ ota_ack_buf' = m
<1>1. /\ usart' = SendAsync(u, "ota_ack_buf") /\ waiting_tx' = TRUE
      /\ air' = OnAir(u) /\ ota_ack_buf' = m
  BY DEF SendReply
<1>2. /\ usart'.tx_state = "TRANSMITTING" /\ usart'.tx_buf = "ota_ack_buf"
      /\ usart'.rx_state = u.rx_state /\ air' = <<>>
  BY <1>1, SendParts
<1>3. \A i \in 1..Len(air') : air'[i] = ota_ack_buf'
  BY <1>2
<1> QED
  BY <1>1, <1>2, <1>3 DEF Machine

\* A command is parsed: it is whole, and the phase is the next one.
LEMMA CommandIsParsed ==
  ASSUME TInv, Clean, CommandFlies, RxFrame
  PROVE  Clean'
<1> DEFINE u == [Taken EXCEPT !.rx_state = "IDLE"]
<1>1. PICK b \in Byte :
        /\ Receiving(b) /\ Store(b)
        /\ Taken.rx_index >= usart.rx_len
        /\ OnTtcDone(u, rx_buf') /\ Witness(rx_buf')
  BY DEF RxFrame
<1>2. UNCHANGED <<wire, down, gstate, gwait>> /\ pc' = "end"
  BY <1>1 DEF RxFrame, Receiving, Rx, Elsewhere, ground
<1>3. /\ u \in Handles /\ u.rx_state = "IDLE"
      /\ u.tx_state = usart.tx_state /\ u.tx_buf = usart.tx_buf
      /\ u.tx_len = usart.tx_len /\ u.tx_index = usart.tx_index
      /\ Taken.rx_index = usart.rx_index + 1
  BY TakenParts
<1> HIDE DEF u
<1>4. PICK kind \in {"START", "REQUEST", "END_OTA"},
           p \in 0..(TTC_CMD_LEN - 1) :
        /\ Carries(kind, 0, p) /\ CommandTaken(kind, p)
        /\ gstate = IF kind = "START" THEN "starting" ELSE "off"
  BY DEF CommandFlies
<1>5. /\ ~ota_data_started /\ ota_frame_state = "HUNT_AA"
      /\ usart.rx_index = p /\ usart.rx_len = TTC_CMD_LEN
      /\ ota_data_started = FALSE
  BY <1>4 DEF CommandTaken, TInv, DataTypeOK, TtcTypeOK
<1>6. p + 1 = TTC_CMD_LEN
  BY <1>1, <1>3, <1>5, Sizes
<1>7. /\ Carries(kind, 0, p + 1)'
      /\ \A i \in 1..(p + 1) : rx_buf'[i] = <<kind, 0, i - 1>>
  BY <1>1, <1>2, <1>4, CommandGrows
<1>8. p + 1 \in Nat /\ p + 1 = FrameLen(kind)
  BY <1>6, Lengths, Sizes
<1>9. rx_circ_buf' = <<>> /\ wire' = <<>>
  BY <1>7, <1>8, LastByteIsTaken
<1>10. rx_buf'[1] = <<kind, 0, 0>>
  <2>1. 1 \in 1..(p + 1) /\ 1 - 1 = 0
    BY <1>8
  <2> QED
    BY <1>7, <2>1
<1>11. Code(rx_buf'[1]) = kind
  BY <1>10 DEF Code
<1>12. IsWhole(rx_buf')
  BY <1>5, <1>6, <1>7 DEF IsWhole
<1>13. ~overrun' /\ ~torn'
  BY <1>1, <1>12 DEF Witness, Clean
<1>14. Commanding /\ Silent /\ Machine /\ gwait /\ down = None
  <2>1. ~Transferring
    BY <1>5 DEF Transferring
  <2>2. Commanding
    BY <1>1, <2>1, TakenFromFrame
  <2> QED
    BY <2>2, Flies DEF Commanding, Clean
<1>15. ttc_parse(u, rx_buf')
  BY <1>1, <1>5 DEF OnTtcDone
<1>16. CASE kind = "REQUEST"
  <2>1. ParseRequest(u)
    BY <1>11, <1>15, <1>16 DEF ttc_parse
  <2>2. Machine' /\ Silent' /\ usart'.rx_state = "IDLE"
    BY <1>3, <1>14, <2>1, TelemetryMachine DEF ParseRequest
  <2>3. UNCHANGED <<ota_data_started, ota_frame_state, OTA_REQUESTED, session>>
    BY <2>1 DEF ParseRequest, frame
  <2>4. Calm' /\ gstate' = "off" /\ gwait'
    BY <1>2, <1>4, <1>5, <1>9, <1>14, <1>16, <2>2, <2>3 DEF Calm
  <2>5. Commanding'
    BY <1>14, <2>2, <2>3, <2>4 DEF Commanding
  <2> QED
    BY <1>13, <2>2, <2>5 DEF Clean, Phases
<1>17. CASE kind = "START" \/ kind = "END_OTA"
  <2>1. \/ kind = "START" /\ ParseStart(u)
        \/ kind = "END_OTA" /\ ParseEndOta(u)
    BY <1>11, <1>15, <1>17 DEF ttc_parse
  <2>2. /\ ota_data_started' = FALSE /\ ota_frame_state' = "HUNT_AA"
        /\ NoReply(u, FALSE, "HUNT_AA")
    BY <2>1 DEF ParseStart, ParseEndOta
  <2>3. /\ usart'.rx_state = IF waiting_tx THEN "IDLE" ELSE "RECEIVING"
        /\ usart'.rx_state = "RECEIVING" =>
             /\ usart'.rx_index = 0
             /\ usart'.rx_target = "cmd" /\ usart'.rx_len = TTC_CMD_LEN
        /\ usart'.tx_state = usart.tx_state /\ usart'.tx_buf = usart.tx_buf
        /\ usart'.tx_len = usart.tx_len /\ usart'.tx_index = usart.tx_index
        /\ UNCHANGED <<ota_ack_buf, waiting_tx, air>>
    BY <1>3, <2>2, NoReplyParts
  <2>4. Machine' /\ Silent'
    BY <1>2, <1>14, <2>3 DEF Machine, Silent
  <2>5. Calm'
    BY <1>9, <2>2, <2>3 DEF Calm, AtStart
  <2>6. CASE ParseStart(u) /\ kind = "START"
    <3>1. OTA_REQUESTED' = TRUE /\ session' = "erasing" /\ s_ota_pkt' = NoPkt
      BY <2>6 DEF ParseStart
    <3>2. Preparing'
      BY <1>2, <1>4, <1>14, <2>2, <2>4, <2>5, <2>6, <3>1 DEF Preparing
    <3> QED
      BY <1>13, <2>4, <3>2 DEF Clean, Phases
  <2>7. CASE ParseEndOta(u) /\ kind = "END_OTA"
    <3>1. OTA_REQUESTED' = FALSE /\ UNCHANGED session
      BY <2>7 DEF ParseEndOta
    <3>2. Commanding'
      BY <1>2, <1>4, <1>14, <2>2, <2>4, <2>5, <2>7, <3>1 DEF Commanding
    <3> QED
      BY <1>13, <2>4, <3>2 DEF Clean, Phases
  <2> QED
    BY <2>1, <2>6, <2>7
<1> QED
  BY <1>16, <1>17

\* A packet is parsed: it is whole, and is answered or, if the flash is
\* busy, not.
LEMMA PacketIsParsed ==
  ASSUME TInv, Clean, Transferring, ~waiting_tx, PacketFlies, RxFrame
  PROVE  Clean'
<1> DEFINE u == [Taken EXCEPT !.rx_state = "IDLE"]
<1>1. PICK b \in Byte :
        /\ Receiving(b) /\ Store(b) /\ usart.rx_target # "scan"
        /\ Taken.rx_index >= usart.rx_len
        /\ OnTtcDone(u, rx_buf') /\ Witness(rx_buf')
  BY DEF RxFrame
<1>2. UNCHANGED <<wire, down, gstate, gwait>> /\ pc' = "end"
  BY <1>1 DEF RxFrame, Receiving, Rx, Elsewhere, ground
<1>3. /\ u \in Handles /\ u.rx_state = "IDLE"
      /\ u.tx_state = usart.tx_state /\ u.tx_buf = usart.tx_buf
      /\ u.tx_len = usart.tx_len /\ u.tx_index = usart.tx_index
      /\ Taken.rx_index = usart.rx_index + 1
  BY TakenParts
<1> HIDE DEF u
<1>4. PICK kind \in {"PKT", "END"}, n \in 0..(Pages - 1),
           p \in 0..(OTA_FULL_PACKET - 1) :
        /\ Carries(kind, n, p) /\ PacketTaken(kind, n, p)
        /\ IF kind = "PKT" THEN gstate = "sending"
                           ELSE gstate \in {"ending", "off"}
  BY DEF PacketFlies
<1>5. /\ OTA_REQUESTED /\ ota_data_started = TRUE
      /\ session \in {"open", "writing"} /\ s_ota_pkt.seq # END
      /\ gwait /\ down = None
  BY Flies DEF Transferring, TInv, DataTypeOK, TtcTypeOK
<1>6. /\ p >= 2
      /\ usart.rx_index = p - 2 /\ usart.rx_len = OTA_FULL_PACKET - 2
      /\ Carries(kind, n, p + 1)'
      /\ Code(rx_buf'[1]) = "AA" /\ Code(rx_buf'[2]) = "55"
      /\ \A i \in 3..(p + 1) : rx_buf'[i] = <<kind, n, i - 1>>
  BY <1>1, <1>2, <1>4, PacketGrows
<1>7. p + 1 = OTA_FULL_PACKET
  BY <1>1, <1>3, <1>6, Sizes
<1>8. p + 1 \in Nat /\ p + 1 = FrameLen(kind)
  BY <1>7, Lengths, Sizes
<1>9. rx_circ_buf' = <<>> /\ wire' = <<>>
  BY <1>6, <1>8, LastByteIsTaken
<1>10. rx_buf'[3] = <<kind, n, 2>>
  <2>1. 3 \in 3..(p + 1) /\ 3 - 1 = 2
    BY <1>6, <1>8
  <2> QED
    BY <1>6, <2>1
<1>11. n \in 0..Pages /\ n \in Seqs /\ n # END
  BY Numbers, LinkAssumption DEF Seqs, END
<1>12. IsWhole(rx_buf')
  BY <1>5, <1>6, <1>7, <1>11 DEF IsWhole
<1>13. ~overrun' /\ ~torn'
  BY <1>1, <1>12 DEF Witness, Clean
<1>14. usart.tx_state = "IDLE" /\ u.tx_state = "IDLE"
  BY <1>3 DEF Clean, Machine, TInv, Fits, Handles
<1>15. /\ ttc_parse_ota(u, rx_buf') /\ ota_frame_state' = "HUNT_AA"
       /\ UNCHANGED <<OTA_REQUESTED, session>>
  BY <1>1, <1>5 DEF OnTtcDone, control
<1>16. CASE kind = "END"
  <2>1. SeqOf(rx_buf') = END
    BY <1>10, <1>16 DEF SeqOf
  <2>2. OtaEnd(u, rx_buf')
    BY <1>6, <1>15, <2>1 DEF ttc_parse_ota
  <2>3. /\ ota_data_started' = FALSE /\ s_ota_pkt'.seq = END
        /\ SendReply(u, Ack(END))
    BY <2>2 DEF OtaEnd
  <2>4. /\ Machine' /\ usart'.rx_state = "IDLE"
        /\ usart'.tx_state = "TRANSMITTING"
        /\ usart'.tx_buf = "ota_ack_buf" /\ ota_ack_buf' = Ack(END)
    BY <1>3, <1>14, <2>3, ReplyMachine, Apart
  <2>5. Calm' /\ Telling(Ack(END))'
    BY <1>2, <1>5, <1>9, <1>15, <2>4 DEF Calm, Telling, Ack
  <2>6. Finishing'
    BY <1>2, <1>4, <1>5, <1>15, <1>16, <2>3, <2>5 DEF Finishing, Ack
  <2> QED
    BY <1>13, <2>4, <2>6 DEF Clean, Phases
<1>17. CASE kind = "PKT"
  <2>1. SeqOf(rx_buf') = n
    BY <1>10, <1>17 DEF SeqOf
  <2>2. OtaData(u, rx_buf') \/ OtaDrop(u)
    BY <1>6, <1>11, <1>15, <2>1 DEF ttc_parse_ota
  <2>3. CASE OtaData(u, rx_buf')
    <3>1. /\ ota_data_started' = TRUE /\ s_ota_pkt'.seq = n
          /\ SendReply(u, Ack(n))
      BY <1>5, <2>1, <2>3 DEF OtaData
    <3>2. Ack(n) \in Reply
      BY <1>11, KnownReplies
    <3>3. /\ Machine' /\ usart'.rx_state = "IDLE"
          /\ usart'.tx_state = "TRANSMITTING"
          /\ usart'.tx_buf = "ota_ack_buf"
      BY <1>3, <1>14, <3>1, <3>2, ReplyMachine
    <3>4. Calm' /\ Telling(ota_ack_buf)'
      BY <1>2, <1>5, <1>9, <1>15, <3>3 DEF Calm, Telling
    <3>5. Transferring'
      BY <1>2, <1>4, <1>5, <1>11, <1>15, <1>17, <3>1, <3>4 DEF Transferring
    <3> QED
      BY <1>13, <3>3, <3>5 DEF Clean, Phases
  <2>4. CASE OtaDrop(u)
    <3>1. /\ NoReply(u, TRUE, "HUNT_AA")
          /\ UNCHANGED <<ota_data_started, s_ota_pkt>>
      BY <1>5, <2>4 DEF OtaDrop
    <3>2. /\ usart'.rx_state = "RECEIVING"
          /\ usart'.rx_index = 0
          /\ usart'.rx_target = "scan" /\ usart'.rx_len = 1
          /\ usart'.tx_state = usart.tx_state
          /\ UNCHANGED <<ota_ack_buf, waiting_tx, air>>
      BY <1>3, <3>1, NoReplyParts
    <3>3. Machine'
      BY <1>14, <3>2 DEF Machine
    <3>4. Calm'
      BY <1>5, <1>9, <1>15, <3>1, <3>2 DEF Calm, AtStart
    <3>5. Transferring'
      BY <1>2, <1>4, <1>5, <1>14, <1>15, <1>17, <3>1, <3>2, <3>4
         DEF Transferring
    <3> QED
      BY <1>13, <3>3, <3>5 DEF Clean, Phases
  <2> QED
    BY <2>2, <2>3, <2>4
<1> QED
  BY <1>16, <1>17

\* Without faults the receiver neither begins anew on its own nor gives up.
LEMMA RxClean == ASSUME TInv, Clean, UsartRxTick PROVE Clean'
<1>1. CASE RxIdle
  <2>1. rx_circ_buf # <<>> /\ usart.rx_state = "IDLE"
    BY <1>1 DEF RxIdle, HasData
  <2> QED
    BY <2>1, Flies DEF Clean, Phases, Commanding, Preparing, Transferring,
                       Finishing, Calm
<1>2. CASE RxMore
  BY <1>2, RxMoreClean
<1>3. CASE RxFrame
  BY <1>3, TakenFromFrame, CommandIsParsed, PacketIsParsed DEF RxFrame
<1>4. CASE RxScan
  BY <1>4, RxScanClean
<1>5. CASE RxWaits
  <2>1. /\ usart.rx_state = "RECEIVING" /\ rx_circ_buf = <<>>
        /\ usart.rx_index > 0
        /\ usart.timeout + 1 < USART_TIMEOUT_MAX \/ wire = <<>>
    BY <1>5 DEF RxWaits, HasData
  <2>2. CommandFlies \/ PacketFlies
    <3>1. ~Calm
      BY <2>1 DEF Calm, AtStart
    <3> QED
      BY <3>1 DEF Clean, Phases, Commanding, Preparing, Transferring, Finishing
  <2>3. usart.timeout + 1 < USART_TIMEOUT_MAX
    BY <2>1, <2>2, Flies
  <2>4. usart' = [usart EXCEPT !.timeout = usart.timeout + 1,
                               !.rx_state = "RECEIVING"]
    <3>1. ~(usart.timeout + 1 >= USART_TIMEOUT_MAX)
      BY <2>3, Sizes DEF TInv, Fits, Handles
    <3> QED
      BY <1>5, <3>1 DEF RxWaits
  <2>5. /\ usart'.rx_state = usart.rx_state
        /\ usart'.rx_target = usart.rx_target
        /\ usart'.rx_len = usart.rx_len /\ usart'.rx_index = usart.rx_index
        /\ usart'.tx_state = usart.tx_state /\ usart'.tx_buf = usart.tx_buf
        /\ usart'.tx_len = usart.tx_len /\ usart'.tx_index = usart.tx_index
    BY <2>1, <2>4 DEF TInv, Fits, Handles
  <2> QED
    BY <1>5, <2>5, NothingHappens
       DEF RxWaits, Rx, Elsewhere, Unmoved, SameSender, SameControl, ttc,
           buffers, frame, replies, control, ground, history
<1>6. CASE RxError
  BY <1>6 DEF RxError, Clean, Machine
<1>7. CASE RxNothing
  BY <1>7, NothingHappens
     DEF RxNothing, Rx, Elsewhere, Unmoved, SameSender, SameControl, device,
         ttc, buffers, frame, replies, control, ground, history
<1> QED
  BY <1>1, <1>2, <1>3, <1>4, <1>5, <1>6, <1>7 DEF UsartRxTick

----------------------------------------------------------------------------
(* The rest of a turn, without faults.                                     *)

\* One more byte on the air; the last one brings the reply down.
LEMMA TxByteClean == ASSUME TInv, Clean, TxByte PROVE Clean'
<1> DEFINE m == IF usart.tx_buf = "tx_buf" THEN None ELSE ota_ack_buf
<1> DEFINE s == IF usart.tx_index + 1 >= usart.tx_len
                THEN "IDLE" ELSE "TRANSMITTING"
<1>1. /\ usart.tx_state = "TRANSMITTING" /\ pc' = "rx"
      /\ usart' = [usart EXCEPT !.tx_index = usart.tx_index + 1,
                                !.timeout = 0, !.tx_state = s]
      /\ air' = Append(air, m)
      /\ down' = IF \E r \in Reply : Sent(r) THEN air'[1] ELSE down
      /\ UNCHANGED <<rx_circ_buf, wire, rx_buf, ota_data_started,
                     ota_frame_state, ota_ack_buf, waiting_tx, s_ota_pkt,
                     OTA_REQUESTED, session, gstate, gwait, overrun, torn>>
  BY DEF TxByte, Tx, ttc, buffers, frame, replies, control, ground, history
<1>2. s \in {"IDLE", "TRANSMITTING"} /\ usart.tx_index + 1 \in Nat
  BY DEF TInv, Fits, Handles
<1>3. /\ usart.tx_len = TTC_CMD_LEN /\ usart.tx_index < TTC_CMD_LEN
      /\ Len(air) = usart.tx_index /\ air \in Seq(Replies)
      /\ usart.tx_index \in Nat
  BY <1>1 DEF TInv, Sized, Fits, Handles
<1>4. s = IF usart.tx_index + 1 = TTC_CMD_LEN THEN "IDLE" ELSE "TRANSMITTING"
  BY <1>3, Sizes
<1>5. m \in Replies
  BY DEF TInv, DataTypeOK, TtcTypeOK, Replies
<1>6. \A i \in 1..Len(air) : air[i] = m
  BY <1>1 DEF Clean, Machine
<1>7. waiting_tx /\ (usart.tx_buf # "tx_buf" => ota_ack_buf \in Reply)
  BY <1>1 DEF Clean, Machine
<1> HIDE DEF s
<1>8. /\ usart'.rx_state = usart.rx_state
      /\ usart'.rx_target = usart.rx_target
      /\ usart'.rx_len = usart.rx_len /\ usart'.rx_index = usart.rx_index
      /\ usart'.tx_state = s /\ usart'.tx_buf = usart.tx_buf
      /\ usart'.tx_len = usart.tx_len
      /\ usart'.tx_index = usart.tx_index + 1
  BY <1>1, <1>2 DEF TInv, Fits, Handles
<1>9. Unmoved
  BY <1>1, <1>8 DEF Unmoved
<1>10. /\ air' \in Seq(Replies) /\ Len(air') = usart.tx_index + 1
       /\ \A i \in 1..Len(air') : air'[i] = m
  <2> HIDE DEF m
  <2>1. /\ air' \in Seq(Replies) /\ Len(air') = usart.tx_index + 1
        /\ air'[usart.tx_index + 1] = m
        /\ \A i \in 1..usart.tx_index : air'[i] = air[i]
    BY <1>1, <1>3, <1>5
  <2>2. ASSUME NEW i \in 1..Len(air') PROVE air'[i] = m
    <3>1. i = usart.tx_index + 1 \/ i \in 1..usart.tx_index
      BY <1>3, <2>1, <2>2
    <3> QED
      BY <1>3, <1>6, <2>1, <3>1
  <2> QED
    BY <2>1, <2>2
<1>11. air'[1] = m
  BY <1>3, <1>10
<1>12. usart.tx_buf = "tx_buf" => down' = down
  <2> SUFFICES ASSUME usart.tx_buf = "tx_buf", NEW r \in Reply, Sent(r)
               PROVE  FALSE
    BY <1>1
  <2>1. 1 \in 1..TTC_CMD_LEN
    BY Numbers, Sizes
  <2>2. air'[1] = r
    BY <2>1 DEF Sent
  <2> QED
    BY <1>11, <2>2, Apart
<1>13. usart.tx_buf # "tx_buf" =>
         down' = IF s = "IDLE" THEN ota_ack_buf ELSE down
  <2> SUFFICES ASSUME usart.tx_buf # "tx_buf"
               PROVE  down' = IF s = "IDLE" THEN ota_ack_buf ELSE down
    OBVIOUS
  <2>1. m = ota_ack_buf /\ ota_ack_buf \in Reply
    BY <1>7
  <2> HIDE DEF m
  <2>2. CASE s = "IDLE"
    <3>1. Len(air') = TTC_CMD_LEN
      BY <1>4, <1>10, <2>2
    <3>2. air' = [i \in 1..TTC_CMD_LEN |-> m]
      <4>1. air' = [i \in 1..Len(air') |-> air'[i]]
        BY <1>10
      <4> QED
        BY <1>10, <3>1, <4>1
    <3>3. Sent(m)
      BY <3>2 DEF Sent
    <3> QED
      BY <1>1, <1>11, <2>1, <2>2, <3>3
  <2>3. CASE s # "IDLE"
    <3>1. Len(air') # TTC_CMD_LEN
      BY <1>3, <1>4, <1>10, <2>3
    <3>2. ASSUME NEW r \in Reply, Sent(r) PROVE FALSE
      <4>1. DOMAIN air' = 1..TTC_CMD_LEN
        BY <3>2 DEF Sent
      <4>2. Len(air') = TTC_CMD_LEN
        BY <1>10, <4>1, Sizes
      <4> QED
        BY <3>1, <4>2
    <3> QED
      BY <1>1, <2>3, <3>2
  <2> QED
    BY <2>2, <2>3
<1>14. Machine'
  <2>1. s = "IDLE" => usart'.tx_len > 0 /\ usart'.tx_index >= usart'.tx_len
    BY <1>3, <1>4, <1>8, Numbers, Sizes
  <2>2. usart'.tx_state = "IDLE" \/ usart'.tx_state = "TRANSMITTING"
    BY <1>2, <1>8
  <2>3. usart'.tx_buf = "tx_buf" => \A i \in 1..Len(air') : air'[i] = None
    BY <1>8, <1>10
  <2>4. usart'.tx_buf # "tx_buf" =>
          /\ ota_ack_buf' \in Reply
          /\ \A i \in 1..Len(air') : air'[i] = ota_ack_buf'
    BY <1>1, <1>7, <1>8, <1>10
  <2> QED
    BY <1>1, <1>7, <1>8, <2>1, <2>2, <2>3, <2>4 DEF Clean, Machine
<1>15. Phases'
  <2> USE DEF Silent, Telling, Told
  <2>1. Calm => Calm'
    BY <1>9, UnmovedStays
  <2>2. CASE Commanding
    <3>1. usart.tx_buf = "tx_buf" /\ down' = down
      BY <1>1, <1>12, <2>2 DEF Commanding
    <3>2. CommandFlies => CommandFlies'
      BY <1>1, <1>9, <3>1, UnmovedStays
    <3> QED
      BY <1>1, <1>8, <2>1, <2>2, <3>1, <3>2 DEF Commanding, Phases
  <2>3. CASE Preparing
    <3>1. usart.tx_buf = "tx_buf" /\ down' = down
      BY <1>1, <1>12, <2>3 DEF Preparing
    <3> QED
      BY <1>1, <1>8, <2>1, <2>3, <3>1 DEF Preparing, Phases
  <2>4. CASE Transferring
    <3>1. \/ /\ Calm /\ gstate = "starting" /\ gwait
             /\ session = "open" /\ s_ota_pkt = NoPkt /\ Telling(READY)
          \/ Calm /\ gstate = "sending" /\ gwait /\ Telling(ota_ack_buf)
      BY <1>1, <1>7, <2>4 DEF Transferring
    <3>2. usart.tx_buf = "ota_ack_buf" /\ usart.tx_buf # "tx_buf"
      BY <3>1
    <3>3. Calm'
      BY <2>1, <3>1
    <3> QED
      BY <1>1, <1>2, <1>8, <1>13, <2>4, <3>1, <3>2, <3>3
         DEF Transferring, Phases
  <2>5. CASE Finishing
    <3>1. /\ Calm' /\ gwait'
          /\ gstate = "off" \/ (gstate = "ending" /\ Telling(Ack(END)))
      BY <1>1, <2>1, <2>5 DEF Finishing
    <3>2. gstate = "ending" => Telling(Ack(END))' \/ Told(Ack(END))'
      BY <1>1, <1>2, <1>8, <1>13, <3>1 DEF Ack
    <3> QED
      BY <1>1, <2>5, <3>1, <3>2 DEF Finishing, Phases, Ack
  <2> QED
    BY <2>2, <2>3, <2>4, <2>5 DEF Clean, Phases
<1> QED
  BY <1>1, <1>14, <1>15 DEF Clean

LEMMA TxClean ==
  ASSUME TInv, Clean, TxIdle \/ TxByte \/ TxBusy \/ TxError
  PROVE  Clean'
<1>1. CASE TxIdle
  BY <1>1, NothingHappens
     DEF TxIdle, Tx, Elsewhere, Unmoved, SameSender, SameControl, device,
         ttc, buffers, frame, replies, control, ground, history
<1>2. CASE TxByte
  BY <1>2, TxByteClean
<1>3. CASE TxBusy
  <2>1. usart' = [usart EXCEPT !.timeout = usart.timeout + 1]
    BY <1>3 DEF TxBusy
  <2>2. /\ usart'.rx_state = usart.rx_state
        /\ usart'.rx_target = usart.rx_target
        /\ usart'.rx_len = usart.rx_len /\ usart'.rx_index = usart.rx_index
        /\ usart'.tx_state = usart.tx_state /\ usart'.tx_buf = usart.tx_buf
        /\ usart'.tx_len = usart.tx_len /\ usart'.tx_index = usart.tx_index
    BY <2>1 DEF TInv, Fits, Handles
  <2> QED
    BY <1>3, <2>2, NothingHappens
       DEF TxBusy, Tx, Elsewhere, Unmoved, SameSender, SameControl, ttc,
           buffers, frame, replies, control, ground, history
<1>4. CASE TxError
  BY <1>4 DEF TxError, Clean, Machine
<1> QED
  BY <1>1, <1>2, <1>3, <1>4

\* The TT&C listens again as soon as a reply is out.
LEMMA TickEndClean == ASSUME TInv, Clean, TickEnd PROVE Clean'
<1>1. /\ pc = "end" /\ pc' = "modes"
      /\ UNCHANGED <<rx_circ_buf, wire, rx_buf, ota_data_started,
                     ota_frame_state, ota_ack_buf, s_ota_pkt, OTA_REQUESTED,
                     session, air, down, gstate, gwait, overrun, torn>>
  BY DEF TickEnd, Elsewhere, buffers, frame, control, ground, history
<1>2. usart.tx_state \in {"IDLE", "TRANSMITTING"}
  BY DEF Clean, Machine, TInv, Fits, Handles
<1>3. CASE waiting_tx /\ usart.tx_state = "IDLE"
  <2>1. usart.tx_len > 0 /\ usart.tx_index >= usart.tx_len
    BY <1>3 DEF Clean, Machine
  <2>2. /\ waiting_tx' = FALSE
        /\ usart' = ReadAsync(usart, ota_data_started, ota_frame_state)
    BY <1>3, <2>1 DEF TickEnd
  <2>3. /\ usart'.rx_state = "RECEIVING"
        /\ usart'.tx_state = usart.tx_state /\ usart'.tx_buf = usart.tx_buf
        /\ Calm => Calm'
        /\ CommandFlies => CommandFlies'
        /\ PacketFlies => PacketFlies'
    <3>1. CASE usart.rx_state = "IDLE"
      <4>1. ~CommandFlies /\ ~PacketFlies
        BY <3>1, Flies
      <4>2. Calm
        BY <4>1 DEF Clean, Phases, Commanding, Preparing, Transferring,
                    Finishing
      <4>3. usart \in Handles /\ ota_data_started \in BOOLEAN
        BY DEF TInv, Fits, DataTypeOK, TtcTypeOK
      <4>4. /\ usart'.rx_state = "RECEIVING" /\ usart'.rx_index = 0
            /\ IF ota_data_started
               THEN usart'.rx_target = "scan" /\ usart'.rx_len = 1
               ELSE usart'.rx_target = "cmd" /\ usart'.rx_len = TTC_CMD_LEN
            /\ usart'.tx_state = usart.tx_state /\ usart'.tx_buf = usart.tx_buf
        BY <2>2, <3>1, <4>2, <4>3, ReadParts DEF Calm
      <4>5. Calm'
        BY <1>1, <4>2, <4>4 DEF Calm, AtStart
      <4> QED
        BY <4>1, <4>4, <4>5
    <3>2. CASE usart.rx_state # "IDLE"
      <4>1. usart' = usart
        BY <2>2, <3>2 DEF ReadAsync, RecvAsync
      <4>2. usart.rx_state = "RECEIVING"
        BY <3>2 DEF Clean, Machine, TInv, Fits, Handles
      <4>3. Unmoved
        BY <1>1, <4>1 DEF Unmoved
      <4> QED
        BY <1>1, <4>1, <4>2, <4>3, UnmovedStays
    <3> QED
      BY <3>1, <3>2
  <2>4. Machine'
    BY <1>3, <2>2, <2>3 DEF Clean, Machine
  <2>5. Phases'
    <3> USE DEF Silent, Telling, Told
    <3>1. CASE Commanding
      BY <1>1, <2>3, <3>1 DEF Commanding, Phases, Ack
    <3>2. CASE Preparing
      BY <1>1, <2>3, <3>2 DEF Preparing, Phases
    <3>3. CASE Transferring
      <4>1. /\ OTA_REQUESTED' /\ ota_data_started'
            /\ session' \in {"open", "writing"} /\ s_ota_pkt'.seq # END
            /\ gwait' /\ Calm'
        BY <1>1, <1>3, <2>3, <3>3 DEF Transferring
      <4>2. \/ /\ gstate' = "starting" /\ session' = "open"
               /\ s_ota_pkt' = NoPkt /\ Told(READY)'
            \/ gstate' = "sending" /\ usart'.tx_state = "IDLE"
        BY <1>1, <1>3, <2>3, <3>3 DEF Transferring
      <4>3. Transferring'
        BY <4>1, <4>2 DEF Transferring
      <4> QED
        BY <4>3 DEF Phases
    <3>4. CASE Finishing
      BY <1>1, <2>3, <3>4 DEF Finishing, Phases, Ack
    <3> QED
      BY <3>1, <3>2, <3>3, <3>4 DEF Clean, Phases
  <2> QED
    BY <1>1, <2>4, <2>5 DEF Clean
<1>4. CASE ~(waiting_tx /\ usart.tx_state = "IDLE")
  <2>1. UNCHANGED <<usart, waiting_tx>>
    BY <1>4 DEF TickEnd
  <2>2. Unmoved /\ SameSender /\ SameControl
    BY <1>1, <2>1 DEF Unmoved, SameSender, SameControl
  <2>3. Machine'
    BY <1>1, <1>2, <1>4, <2>1 DEF Clean, Machine
  <2>4. Phases'
    BY <2>1, <2>2, UnmovedStays, PhasesStay DEF Clean, Unmoved, SameControl
  <2> QED
    BY <1>1, <2>3, <2>4 DEF Clean
<1> QED
  BY <1>3, <1>4


----------------------------------------------------------------------------
(* What the mode handlers do, without faults.                              *)

\* A handler of a mode runs between turns, when no transmission is awaited
\* that is not under way.
LEMMA ModesClean ==
  ASSUME TInv, Clean, Modes
  PROVE  Clean'
<1>0. pc = "modes" /\ (pc' = "tx" \/ pc' = "modes")
  BY DEF Modes, ModeTelemetry, ModeReady, ModeTake, ModeGivesUp, ModeAbort,
         ModeRestart, ModeNothing, Handler
<1>1. CASE ModeTelemetry
  <2>1. /\ ~OTA_REQUESTED /\ SendTelemetry(usart)
        /\ UNCHANGED <<rx_circ_buf, wire, rx_buf, ota_data_started,
                       ota_frame_state, s_ota_pkt, OTA_REQUESTED, session,
                       down, gstate, gwait, overrun, torn>>
    BY <1>1 DEF ModeTelemetry, buffers, frame, control, history
  <2>2. Commanding /\ Silent /\ Machine /\ ~overrun /\ ~torn
    BY <2>1 DEF Clean, Phases, Preparing, Transferring, Finishing, Commanding
  <2>3. usart \in Handles /\ usart.rx_state # "ERROR"
    BY <2>2 DEF TInv, Fits, Machine
  <2>4. Machine' /\ Silent' /\ usart'.rx_state = usart.rx_state
    BY <2>1, <2>2, <2>3, TelemetryMachine
  <2>5. /\ usart'.rx_target = usart.rx_target /\ usart'.rx_len = usart.rx_len
        /\ usart'.rx_index = usart.rx_index
    <3>1. usart' = SendAsync(usart, "tx_buf")
      BY <2>1 DEF SendTelemetry
    <3> QED
      BY <2>3, <3>1, SendParts
  <2>6. Unmoved
    BY <2>1, <2>4, <2>5 DEF Unmoved
  <2>7. Calm => Calm'
    BY <2>6, UnmovedStays
  <2>8. CommandFlies => CommandFlies'
    BY <2>1, <2>6, UnmovedStays
  <2>9. Commanding'
    BY <2>1, <2>2, <2>4, <2>7, <2>8 DEF Commanding, Ack
  <2> QED
    BY <2>1, <2>2, <2>4, <2>9 DEF Clean, Phases
<1>2. CASE ModeReady
  <2> DEFINE u == [usart EXCEPT !.rx_state = "IDLE"]
  <2>1. /\ OTA_REQUESTED /\ session = "erased" /\ session' = "open"
        /\ ota_data_started' = TRUE /\ ota_frame_state' = "HUNT_AA"
        /\ SendReply(u, READY)
        /\ UNCHANGED <<rx_circ_buf, wire, s_ota_pkt, OTA_REQUESTED,
                       down, gstate, gwait, overrun, torn>>
    BY <1>2 DEF ModeReady, READY, Elsewhere, ground, buffers, history
  <2>2. Preparing /\ ~overrun /\ ~torn
    BY <2>1 DEF Clean, Phases, Preparing, Transferring, Finishing, Commanding
  <2>3. /\ u \in Handles /\ u.rx_state = "IDLE" /\ u.tx_state = "IDLE"
    BY <2>1, <2>2 DEF TInv, Fits, Handles, Preparing
  <2> HIDE DEF u
  <2>4. /\ Machine' /\ usart'.rx_state = "IDLE"
        /\ usart'.tx_state = "TRANSMITTING"
        /\ usart'.tx_buf = "ota_ack_buf" /\ ota_ack_buf' = READY
    BY <2>1, <2>3, ReplyMachine, Apart
  <2>5. /\ Calm /\ gstate = "starting" /\ gwait /\ down = None
        /\ s_ota_pkt = NoPkt
    BY <2>2 DEF Preparing
  <2>6. Calm'
    BY <2>1, <2>4, <2>5 DEF Calm
  <2>7. Telling(READY)'
    BY <2>1, <2>4, <2>5 DEF Telling, READY, None
  <2>8. Transferring'
    <3>1. s_ota_pkt' = NoPkt /\ s_ota_pkt'.seq # END
      BY <2>1, <2>5, Apart
    <3> QED
      BY <2>1, <2>5, <2>6, <2>7, <3>1 DEF Transferring
  <2> QED
    BY <2>1, <2>2, <2>4, <2>8 DEF Clean, Phases
<1>3. CASE ModeTake
  <2>1. /\ OTA_REQUESTED /\ session \in {"open", "expired"}
        /\ s_ota_pkt # NoPkt /\ s_ota_pkt' = NoPkt
        /\ session' = IF s_ota_pkt.seq = END THEN "closing" ELSE "writing"
        /\ UNCHANGED <<usart, ota_ack_buf, waiting_tx, air, OTA_REQUESTED,
                       rx_circ_buf, wire, rx_buf, ota_data_started,
                       ota_frame_state, down, gstate, gwait, overrun, torn>>
    BY <1>3 DEF ModeTake, device, buffers, frame, replies, Elsewhere, ground,
                history
  <2>2. Unmoved /\ SameSender
    BY <2>1 DEF Unmoved, SameSender
  <2>3. Machine'
    BY <1>0, <2>1, <2>2, MachineStays DEF Clean
  <2>4. Calm => Calm'
    BY <2>2, UnmovedStays
  <2>5. PacketFlies => PacketFlies'
    BY <2>1, <2>2, UnmovedStays
  <2>6. Phases'
    <3> USE DEF Telling, Told
    <3>1. CASE Transferring
      <4>1. session' = "writing" /\ s_ota_pkt'.seq # END
        BY <2>1, <3>1, Apart DEF Transferring
      <4>2. Transferring'
        BY <2>1, <2>4, <2>5, <3>1, <4>1 DEF Transferring
      <4> QED
        BY <4>2 DEF Phases
    <3>2. CASE Finishing
      <4>1. session' = "closing"
        BY <2>1, <3>2 DEF Finishing
      <4>2. Finishing'
        BY <2>1, <2>4, <3>2, <4>1 DEF Finishing, Ack
      <4> QED
        BY <4>2 DEF Phases
    <3> QED
      BY <2>1, <3>1, <3>2 DEF Clean, Phases, Commanding, Preparing
  <2> QED
    BY <2>1, <2>3, <2>6 DEF Clean
<1>4. CASE ModeGivesUp \/ ModeAbort
  <2>1. OTA_REQUESTED /\ session \in {"expired", "error"}
    BY <1>4 DEF ModeGivesUp, ModeAbort
  <2> QED
    BY <2>1 DEF Clean, Phases, Commanding, Preparing, Transferring, Finishing
<1>5. CASE ModeRestart
  <2>1. /\ OTA_REQUESTED /\ session = "done" /\ pc' = "modes"
        /\ rx_circ_buf' = <<>> /\ usart' = Listening
        /\ waiting_tx' = FALSE
        /\ ota_data_started' = FALSE /\ ota_frame_state' = "HUNT_AA"
        /\ OTA_REQUESTED' = FALSE /\ session' = "idle"
        /\ UNCHANGED <<wire, down, gstate, gwait, overrun, torn>>
    BY <1>5 DEF ModeRestart, ground, history
  <2>2. Finishing /\ usart.tx_state = "IDLE"
    BY <2>1 DEF Clean, Phases, Commanding, Preparing, Transferring, Finishing
  <2>3. /\ usart'.rx_state = "RECEIVING" /\ usart'.rx_target = "cmd"
        /\ usart'.rx_len = TTC_CMD_LEN /\ usart'.rx_index = 0
        /\ usart'.tx_state = "IDLE"
    BY <2>1 DEF Listening
  <2>4. Machine' /\ Silent'
    BY <2>1, <2>3 DEF Machine, Silent
  <2>5. Calm'
    BY <2>1, <2>2, <2>3 DEF Finishing, Calm, AtStart
  <2>6. /\ gwait
        /\ gstate = "off" \/ (gstate = "ending" /\ down = Ack(END))
    BY <2>2 DEF Finishing, Telling, Told
  <2>7. Commanding'
    BY <2>1, <2>3, <2>4, <2>5, <2>6 DEF Commanding, Ack
  <2> QED
    BY <2>1, <2>4, <2>7 DEF Clean, Phases
<1>6. CASE ModeNothing
  BY <1>0, <1>6, NothingHappens
     DEF ModeNothing, Handler, Elsewhere, Unmoved, SameSender, SameControl,
         device, ttc, buffers, frame, replies, control, ground, history
<1> QED
  BY <1>1, <1>2, <1>3, <1>4, <1>5, <1>6 DEF Modes

----------------------------------------------------------------------------
(* The flash, the interrupt handler and the ground, without faults.        *)

LEMMA MemoryClean == ASSUME TInv, Clean, MemoryDone PROVE Clean'
<1>1. UNCHANGED <<pc, usart, ota_ack_buf, waiting_tx, air, OTA_REQUESTED,
                  rx_circ_buf, wire, rx_buf, ota_data_started, ota_frame_state,
                  s_ota_pkt, down, gstate, gwait, overrun, torn>>
  BY DEF MemoryDone, device, buffers, frame, replies, sky, ground, history
<1>2. \/ session = "erasing" /\ session' = "erased" /\ usart.tx_state = "IDLE"
      \/ session = "writing" /\ session' = "open"
      \/ session = "closing" /\ session' = "done" /\ usart.tx_state = "IDLE"
  BY DEF MemoryDone
<1>3. Unmoved
  BY <1>1 DEF Unmoved
<1>4. Machine'
  BY <1>1 DEF Clean, Machine
<1>5. Calm => Calm'
  BY <1>3, UnmovedStays
<1>6. PacketFlies => PacketFlies'
  BY <1>1, <1>3, UnmovedStays
<1>7. Phases'
  <2> USE DEF Silent, Telling, Told
  <2>1. CASE Commanding
    BY <1>2, <2>1 DEF Commanding
  <2>2. CASE Preparing
    <3>1. session' = "erased" /\ usart.tx_state = "IDLE"
      BY <1>2, <2>2 DEF Preparing
    <3>2. Preparing'
      BY <1>1, <1>5, <2>2, <3>1 DEF Preparing
    <3> QED
      BY <3>2 DEF Phases
  <2>3. CASE Transferring
    <3>1. session = "writing" /\ session' = "open"
      BY <1>2, <2>3 DEF Transferring
    <3>2. Transferring'
      BY <1>1, <1>5, <1>6, <2>3, <3>1 DEF Transferring
    <3> QED
      BY <3>2 DEF Phases
  <2>4. CASE Finishing
    <3>1. \/ session = "writing" /\ session' = "open" /\ s_ota_pkt.seq = END
          \/ session' = "done" /\ usart.tx_state = "IDLE"
      BY <1>2, <2>4 DEF Finishing
    <3>2. Finishing'
      BY <1>1, <1>5, <2>4, <3>1 DEF Finishing, Ack
    <3> QED
      BY <3>2 DEF Phases
  <2> QED
    BY <2>1, <2>2, <2>3, <2>4 DEF Clean, Phases
<1> QED
  BY <1>1, <1>4, <1>7 DEF Clean

\* The handler has room for every byte, and the frame stays what it was.
LEMMA HandlerClean == ASSUME TInv, Clean, USART0_Handler PROVE Clean'
<1>1. /\ wire # <<>> /\ wire' = Tail(wire)
      /\ UNCHANGED <<pc, usart, ota_ack_buf, waiting_tx, air, OTA_REQUESTED,
                     rx_buf, ota_data_started, ota_frame_state, session,
                     s_ota_pkt, down, gstate, gwait, torn>>
  BY DEF USART0_Handler, ttc, buffers, frame, replies, control, ground
<1>2. ~Calm
  BY <1>1 DEF Calm
<1>3. Len(rx_circ_buf) + 1 < RX_CIRC_BUF_SIZE
  <2>1. CASE CommandFlies
    <3>1. PICK kind \in {"START", "REQUEST", "END_OTA"},
               p \in 0..(TTC_CMD_LEN - 1) : Carries(kind, 0, p)
      BY <2>1 DEF CommandFlies
    <3>2. p \in Nat /\ p <= FrameLen(kind)
      BY <3>1, Lengths, Sizes
    <3> QED
      BY <1>1, <3>1, <3>2, ByteArrives
  <2>2. CASE PacketFlies
    <3>1. PICK kind \in {"PKT", "END"}, n \in 0..(Pages - 1),
               p \in 0..(OTA_FULL_PACKET - 1) : Carries(kind, n, p)
      BY <2>2 DEF PacketFlies
    <3>2. p \in Nat /\ p <= FrameLen(kind)
      BY <3>1, Lengths, Sizes
    <3> QED
      BY <1>1, <3>1, <3>2, ByteArrives
  <2> QED
    BY <1>2, <2>1, <2>2
       DEF Clean, Phases, Commanding, Preparing, Transferring, Finishing
<1>5. rx_circ_buf' = Append(rx_circ_buf, Head(wire)) /\ overrun' = overrun
  BY <1>3 DEF USART0_Handler
<1>6. CommandFlies => CommandFlies'
  <2> SUFFICES ASSUME CommandFlies PROVE CommandFlies'
    OBVIOUS
  <2>1. PICK kind \in {"START", "REQUEST", "END_OTA"},
             p \in 0..(TTC_CMD_LEN - 1) :
          /\ Carries(kind, 0, p) /\ CommandTaken(kind, p)
          /\ gstate = IF kind = "START" THEN "starting" ELSE "off"
    BY DEF CommandFlies
  <2>2. p \in Nat /\ p <= FrameLen(kind)
    BY <2>1, Lengths, Sizes
  <2>3. Carries(kind, 0, p)'
    BY <1>1, <1>5, <2>1, <2>2, ByteArrives
  <2>4. CommandTaken(kind, p)'
    BY <1>1, <2>1 DEF CommandTaken
  <2> QED
    BY <1>1, <2>1, <2>3, <2>4 DEF CommandFlies, Flying
<1>7. PacketFlies => PacketFlies'
  <2> SUFFICES ASSUME PacketFlies PROVE PacketFlies'
    OBVIOUS
  <2>1. PICK kind \in {"PKT", "END"}, n \in 0..(Pages - 1),
             p \in 0..(OTA_FULL_PACKET - 1) :
          /\ Carries(kind, n, p) /\ PacketTaken(kind, n, p)
          /\ IF kind = "PKT" THEN gstate = "sending"
                             ELSE gstate \in {"ending", "off"}
    BY DEF PacketFlies
  <2>2. p \in Nat /\ p <= FrameLen(kind)
    BY <2>1, Lengths, Sizes
  <2>3. Carries(kind, n, p)'
    BY <1>1, <1>5, <2>1, <2>2, ByteArrives
  <2>4. PacketTaken(kind, n, p)'
    BY <1>1, <2>1 DEF PacketTaken, Code
  <2> QED
    BY <1>1, <2>1, <2>3, <2>4 DEF PacketFlies, Flying
<1>8. Machine'
  BY <1>1 DEF Clean, Machine
<1>9. SameSender /\ SameControl
  BY <1>1 DEF SameSender, SameControl
<1>10. Phases'
  BY <1>1, <1>2, <1>6, <1>7, <1>9, PhasesStay DEF Clean
<1> QED
  BY <1>1, <1>5, <1>8, <1>10 DEF Clean

\* When the ground begins to send, the receiver waits for a first byte, and
\* of the right kind of frame.
LEMMA CanSend ==
  ASSUME TInv, Clean, pc = "modes", wire = <<>>, ~gwait \/ AtRest,
         gstate \in {"off", "starting", "sending", "ending"}
  PROVE  /\ Calm /\ usart.rx_state = "RECEIVING" /\ down = None
         /\ \/ Commanding /\ gstate = "off"
            \/ Transferring /\ gstate \in {"sending", "ending"} /\ ~waiting_tx
<1>1. ~CommandFlies /\ ~PacketFlies
  <2>1. ASSUME CommandFlies \/ PacketFlies PROVE FALSE
    <3>1. gwait /\ rx_circ_buf # <<>>
      BY <2>1, Flies
    <3> QED
      BY <3>1 DEF AtRest
  <2> QED
    BY <2>1
<1>2. Calm
  BY <1>1 DEF Clean, Phases, Commanding, Preparing, Transferring, Finishing
<1>3. waiting_tx => usart.tx_state = "TRANSMITTING"
  BY DEF Clean, Machine
<1>4. AtRest =>
        /\ down = None /\ ~waiting_tx /\ usart.tx_state = "IDLE"
        /\ OTA_REQUESTED => session = "open" /\ s_ota_pkt = NoPkt
  BY <1>3 DEF AtRest
<1>5. \/ /\ Commanding /\ gstate = "off" /\ down = None
         /\ gwait => ~waiting_tx
      \/ /\ Transferring /\ gstate \in {"sending", "ending"}
         /\ ~waiting_tx /\ down = None
  <2>1. CASE Commanding
    BY <1>1, <1>4, <2>1, Apart DEF Commanding
  <2>2. CASE Preparing
    BY <1>4, <2>2 DEF Preparing
  <2>3. CASE Transferring
    BY <1>1, <1>4, <2>3, Apart DEF Transferring, Telling, Told
  <2>4. CASE Finishing
    BY <1>4, <2>4, Apart DEF Finishing
  <2> QED
    BY <2>1, <2>2, <2>3, <2>4 DEF Clean, Phases
<1>6. usart.rx_state = "RECEIVING"
  <2>1. usart.rx_state # "ERROR" /\ (usart.rx_state = "IDLE" => waiting_tx)
    BY DEF Clean, Machine
  <2>2. usart.rx_state \in {"IDLE", "RECEIVING", "ERROR"}
    BY DEF TInv, Fits, Handles
  <2>3. CASE gwait \/ ~waiting_tx
    BY <1>5, <2>1, <2>2, <2>3
  <2>4. CASE ~gwait /\ waiting_tx
    BY <1>1, <1>5, <2>4 DEF Commanding
  <2> QED
    BY <2>3, <2>4
<1> QED
  BY <1>2, <1>5, <1>6

LEMMA SendsClean ==
  ASSUME TInv, Clean, NEW kind, NEW n, Sends(kind, n),
         UNCHANGED <<overrun, torn>>,
         \/ /\ gstate = "off" /\ kind \in {"START", "REQUEST", "END_OTA"}
            /\ n = 0
            /\ gstate' = IF kind = "START" THEN "starting" ELSE "off"
         \/ /\ gstate = "sending" /\ kind = "PKT" /\ n = gseq
            /\ gstate' = gstate
         \/ /\ gstate = "ending" /\ kind = "END" /\ n = 0
            /\ gstate' = gstate
  PROVE  Clean'
<1>1. /\ pc = "modes" /\ wire = <<>> /\ (~gwait \/ AtRest)
      /\ wire' = Frame(kind, n) /\ gwait' = TRUE
      /\ UNCHANGED <<pc, usart, rx_circ_buf, rx_buf, ota_ack_buf, waiting_tx,
                     air, OTA_REQUESTED, ota_data_started, ota_frame_state,
                     session, s_ota_pkt, down>>
  BY DEF Sends, device, ttc, buffers, frame, replies, control
<1>2. /\ Calm /\ usart.rx_state = "RECEIVING" /\ down = None
      /\ \/ Commanding /\ gstate = "off"
         \/ Transferring /\ gstate \in {"sending", "ending"} /\ ~waiting_tx
  BY <1>1, CanSend
<1>3. Machine' /\ ~overrun' /\ ~torn'
  BY <1>1 DEF Clean, Machine
<1>4. Carries(kind, n, 0)'
  BY <1>1, <1>2, FrameIsSent DEF Calm
<1>5. AtStart /\ ota_frame_state = "HUNT_AA"
  BY <1>2 DEF Calm
<1>6. Flying'
  BY <1>1, <1>2 DEF Flying
<1>7. CASE gstate = "off"
  <2>1. /\ Commanding /\ kind \in {"START", "REQUEST", "END_OTA"} /\ n = 0
        /\ gstate' = IF kind = "START" THEN "starting" ELSE "off"
    BY <1>2, <1>7
  <2>2. CommandTaken(kind, 0)'
    <3>1. \A i \in 1..0 : rx_buf'[i] = <<kind, 0, i - 1>>
      OBVIOUS
    <3> QED
      BY <1>1, <1>5, <2>1, <3>1 DEF Commanding, CommandTaken, AtStart
  <2>3. 0 \in 0..(TTC_CMD_LEN - 1)
    BY Numbers, Sizes
  <2>4. CommandFlies'
    BY <1>4, <1>6, <2>1, <2>2, <2>3 DEF CommandFlies
  <2>5. Commanding'
    BY <1>1, <2>1, <2>4 DEF Commanding, Silent
  <2> QED
    BY <1>3, <2>5 DEF Clean, Phases
<1>8. CASE gstate \in {"sending", "ending"}
  <2>1. /\ Transferring /\ ~waiting_tx /\ kind \in {"PKT", "END"}
        /\ gstate' = gstate /\ (kind = "PKT" <=> gstate = "sending")
    BY <1>2, <1>8
  <2>2. n \in 0..(Pages - 1)
    <3>1. gstate = "sending" => gseq < Pages
      BY DEF TInv, DataTypeOK, GroundInStep
    <3> QED
      BY <1>8, <3>1, Numbers DEF TInv, DataTypeOK, GroundTypeOK
  <2>3. PacketTaken(kind, n, 0)'
    BY <1>1, <1>5, <2>1 DEF Transferring, PacketTaken, AtStart
  <2>4. 0 \in 0..(OTA_FULL_PACKET - 1)
    BY Sizes
  <2>5. PacketFlies'
    BY <1>4, <1>6, <1>8, <2>1, <2>2, <2>3, <2>4 DEF PacketFlies
  <2>6. Transferring'
    BY <1>1, <2>1, <2>5 DEF Transferring
  <2> QED
    BY <1>3, <2>6 DEF Clean, Phases
<1> QED
  BY <1>7, <1>8

LEMMA GroundClean ==
  ASSUME TInv, Clean,
         GroundStart \/ GroundCommand \/ GroundSend \/ GroundHear \/ GroundLeaves
  PROVE  Clean'
<1>1. CASE GroundStart
  BY <1>1, SendsClean DEF GroundStart
<1>2. CASE GroundCommand
  <2>1. PICK kind \in {"REQUEST", "END_OTA"} : Sends(kind, 0)
    BY <1>2 DEF GroundCommand
  <2>2. gstate = "off" /\ gstate' = gstate /\ UNCHANGED <<overrun, torn>>
    BY <1>2 DEF GroundCommand, history
  <2> QED
    BY <2>1, <2>2, SendsClean
<1>3. CASE GroundSend
  <2>1. \/ gstate = "starting" /\ Sends("START", 0)
        \/ gstate = "sending" /\ Sends("PKT", gseq)
        \/ gstate = "ending" /\ Sends("END", 0)
    BY <1>3 DEF GroundSend
  <2>2. gstate' = gstate /\ UNCHANGED <<overrun, torn>>
    BY <1>3 DEF GroundSend, history
  <2>3. gstate # "starting"
    BY <2>1, CanSend DEF Sends
  <2> QED
    BY <2>1, <2>2, <2>3, SendsClean
<1>4. CASE GroundHear
  <2>1. /\ pc = "modes" /\ down # None /\ down' = None
        /\ UNCHANGED <<pc, usart, rx_circ_buf, rx_buf, ota_ack_buf, waiting_tx,
                       wire, air, OTA_REQUESTED, ota_data_started,
                       ota_frame_state, session, s_ota_pkt, overrun, torn>>
    BY <1>4 DEF GroundHear, device, ttc, buffers, frame, replies, control,
                history
  <2>2. \/ /\ gstate = "starting" /\ down.kind = "READY"
           /\ gstate' = "sending" /\ gwait' = FALSE
        \/ /\ gstate = "sending" /\ gwait' = FALSE
           /\ gstate' \in {"sending", "ending"}
        \/ /\ gstate = "ending" /\ down = Ack(END)
           /\ gstate' = "off" /\ gwait' = gwait
        \/ /\ ~(gstate = "starting" /\ down.kind = "READY")
           /\ ~(gstate = "ending" /\ down = Ack(END))
           /\ UNCHANGED <<gstate, gwait>>
    BY <1>4 DEF GroundHear
  <2>3. Unmoved
    BY <2>1 DEF Unmoved
  <2>4. Calm => Calm'
    BY <2>3, UnmovedStays
  <2>5. Machine'
    BY <2>1 DEF Clean, Machine
  <2>6. ~CommandFlies /\ ~PacketFlies
    BY <2>1, Flies
  <2>7. usart.tx_state \in {"IDLE", "TRANSMITTING"}
    BY DEF Clean, Machine, TInv, Fits, Handles
  <2>8. waiting_tx => usart.tx_state = "TRANSMITTING"
    BY <2>1 DEF Clean, Machine
  <2>9. Phases'
    <3> USE DEF Silent, Telling, Told
    <3>1. CASE Commanding
      <4>1. /\ Calm /\ gwait /\ gstate \in {"off", "ending"}
            /\ gstate = "ending" => down = Ack(END)
        BY <2>1, <2>6, <3>1 DEF Commanding
      <4>2. gstate' = "off" /\ gwait' = gwait
        BY <2>2, <4>1
      <4>3. Commanding'
        BY <2>1, <2>4, <3>1, <4>1, <4>2 DEF Commanding
      <4> QED
        BY <4>3 DEF Phases
    <3>2. CASE Preparing
      BY <2>1, <3>2 DEF Preparing
    <3>3. CASE Transferring
      <4>1. /\ Calm /\ gwait /\ gstate \in {"starting", "sending"}
            /\ usart.tx_state = "IDLE"
            /\ gstate = "starting" => down = READY
        BY <2>1, <2>6, <3>3 DEF Transferring
      <4>2. ~waiting_tx
        BY <2>8, <4>1
      <4>3. \/ gstate' \in {"sending", "ending"} /\ gwait' = FALSE
            \/ gstate' = "sending" /\ gwait'
        BY <2>2, <4>1, Apart
      <4>4. Transferring'
        BY <2>1, <2>4, <3>3, <4>1, <4>2, <4>3 DEF Transferring
      <4> QED
        BY <4>4 DEF Phases
    <3>4. CASE Finishing
      <4>1. /\ Calm' /\ gwait'
            /\ gstate' = "off"
        BY <2>1, <2>2, <2>4, <3>4, Apart DEF Finishing
      <4>2. Finishing'
        BY <2>1, <3>4, <4>1 DEF Finishing
      <4> QED
        BY <4>2 DEF Phases
    <3> QED
      BY <3>1, <3>2, <3>3, <3>4 DEF Clean, Phases
  <2> QED
    BY <2>1, <2>5, <2>9 DEF Clean
<1>5. CASE GroundLeaves
  <2>1. /\ gstate = "ending" /\ gwait /\ gstate' = "off"
        /\ UNCHANGED <<pc, usart, rx_circ_buf, rx_buf, ota_ack_buf, waiting_tx,
                       wire, air, down, gwait, OTA_REQUESTED, ota_data_started,
                       ota_frame_state, session, s_ota_pkt, overrun, torn>>
    BY <1>5 DEF GroundLeaves, device, ttc, buffers, frame, replies, control,
                sky, history
  <2>2. Unmoved
    BY <2>1 DEF Unmoved
  <2>3. Calm => Calm'
    BY <2>2, UnmovedStays
  <2>4. Machine'
    BY <2>1 DEF Clean, Machine
  <2>5. Phases'
    <3> USE DEF Silent, Telling, Told
    <3>1. CASE Commanding
      <4>1. Calm
        BY <2>1, <3>1 DEF Commanding, CommandFlies
      <4>2. Commanding'
        BY <2>1, <2>3, <3>1, <4>1 DEF Commanding
      <4> QED
        BY <4>2 DEF Phases
    <3>2. CASE Preparing
      BY <2>1, <3>2 DEF Preparing
    <3>3. CASE Transferring
      <4>1. ~waiting_tx /\ PacketFlies
        BY <2>1, <3>3 DEF Transferring
      <4>2. PICK kind \in {"PKT", "END"}, n \in 0..(Pages - 1),
                 p \in 0..(OTA_FULL_PACKET - 1) :
              /\ Carries(kind, n, p) /\ PacketTaken(kind, n, p)
              /\ IF kind = "PKT" THEN gstate = "sending"
                                 ELSE gstate \in {"ending", "off"}
        BY <4>1 DEF PacketFlies
      <4>3. Carries(kind, n, p)' /\ PacketTaken(kind, n, p)'
        BY <2>1, <4>2 DEF Carries, PacketTaken, Code
      <4>4. kind = "END"
        BY <2>1, <4>2
      <4>5. PacketFlies'
        BY <2>1, <4>1, <4>3, <4>4 DEF PacketFlies, Flying
      <4>6. Transferring'
        BY <2>1, <3>3, <4>1, <4>5 DEF Transferring
      <4> QED
        BY <4>6 DEF Phases
    <3>4. CASE Finishing
      <4>1. Finishing'
        BY <2>1, <2>3, <3>4 DEF Finishing
      <4> QED
        BY <4>1 DEF Phases
    <3> QED
      BY <3>1, <3>2, <3>3, <3>4 DEF Clean, Phases
  <2> QED
    BY <2>1, <2>4, <2>5 DEF Clean
<1> QED
  BY <1>1, <1>2, <1>3, <1>4, <1>5

\* Nobody is silent as long as nothing is lost.
LEMMA SilenceClean == ASSUME TInv, Clean, Silence PROVE FALSE
<1>1. /\ session = "open" /\ s_ota_pkt = NoPkt
      /\ gstate \notin {"sending", "ending"} /\ wire = <<>> /\ AtRest
  BY DEF Silence
<1>2. ~PacketFlies
  BY <1>1, Flies DEF AtRest
<1>3. CASE Transferring
  BY <1>1, <1>2, <1>3, Apart DEF Transferring, Telling, Told, AtRest
<1>4. CASE Finishing
  BY <1>1, <1>4, Apart DEF Finishing
<1> QED
  BY <1>1, <1>3, <1>4 DEF Clean, Phases, Commanding, Preparing

----------------------------------------------------------------------------
(* The invariant, and what it says.                                        *)

LEMMA InitClean == Init => Clean
<1> SUFFICES ASSUME Init PROVE Clean
  OBVIOUS
<1>1. /\ usart.rx_state = "RECEIVING" /\ usart.rx_target = "cmd"
      /\ usart.rx_len = TTC_CMD_LEN /\ usart.rx_index = 0
      /\ usart.tx_state = "IDLE"
  BY DEF Init, Listening
<1>2. Machine /\ Silent
  BY <1>1 DEF Init, Machine, Silent
<1>3. Calm
  BY <1>1 DEF Init, Calm, AtStart
<1>4. Commanding
  BY <1>1, <1>2, <1>3 DEF Init, Commanding
<1> QED
  BY <1>2, <1>4 DEF Init, Clean, Phases

\* A fault is counted, and only a fault is.
LEMMA FaultsCount ==
  ASSUME [Next]_vars PROVE faults' = faults \/ (Fault /\ faults' = faults + 1)
<1>1. CASE Modes
  BY <1>1 DEF Modes, ModeTelemetry, ModeReady, ModeTake, ModeGivesUp,
              ModeAbort, ModeRestart, ModeNothing, Elsewhere
<1>2. CASE UsartTxTick
  BY <1>2 DEF UsartTxTick, TxIdle, TxByte, TxBusy, TxStalls, TxError,
              Elsewhere, Fault
<1>3. CASE UsartRxTick
  BY <1>3 DEF UsartRxTick, RxIdle, RxMore, RxFrame, RxScan, RxWaits,
              RxError, RxNothing, Elsewhere
<1>4. CASE TickEnd \/ MemoryDone \/ Silence \/ USART0_Handler \/ UNCHANGED vars
  BY <1>4 DEF TickEnd, MemoryDone, Silence, USART0_Handler, Elsewhere, vars
<1>5. CASE LoseByte \/ LoseReply
  BY <1>5 DEF LoseByte, LoseReply, Fault
<1>6. CASE GroundStart \/ GroundCommand \/ GroundSend \/ GroundHear
           \/ GroundLeaves
  BY <1>6 DEF GroundStart, GroundCommand, GroundSend, GroundHear,
              GroundLeaves, Sends
<1> QED
  BY <1>1, <1>2, <1>3, <1>4, <1>5, <1>6 DEF Next, Turn

LEMMA NextClean ==
  ASSUME TInv, CleanUnlessFaults, [Next]_vars
  PROVE  CleanUnlessFaults'
<1> SUFFICES ASSUME faults' = 0 PROVE Clean'
  BY DEF CleanUnlessFaults
<1>1. faults \in Nat
  BY Numbers DEF TInv, DataTypeOK, GroundTypeOK
<1>2. ~Fault /\ Clean
  BY <1>1, FaultsCount DEF Fault, CleanUnlessFaults
<1>3. CASE Turn
  BY <1>2, <1>3, ModesClean, TxClean, RxClean, TickEndClean
     DEF Turn, UsartTxTick, TxStalls
<1>4. CASE MemoryDone \/ Silence \/ USART0_Handler
  BY <1>2, <1>4, MemoryClean, SilenceClean, HandlerClean
<1>5. CASE LoseByte \/ LoseReply
  BY <1>2, <1>5 DEF LoseByte, LoseReply
<1>6. CASE GroundStart \/ GroundCommand \/ GroundSend \/ GroundHear
           \/ GroundLeaves
  BY <1>2, <1>6, GroundClean
<1>7. CASE UNCHANGED vars
  <2>1. Unmoved /\ SameSender /\ SameControl /\ UNCHANGED <<pc, overrun, torn>>
    BY <1>7 DEF vars, Unmoved, SameSender, SameControl, device, ttc, buffers,
                frame, replies, control, sky, ground, history
  <2> QED
    BY <1>2, <2>1, NothingHappens
<1> QED
  BY <1>3, <1>4, <1>5, <1>6, <1>7 DEF Next

\* As long as nothing is lost, every frame that is sent arrives, however the
\* super-loop and the interrupt handler take turns, for a ring buffer that has
\* room for one packet and no more: no byte finds it full, and every frame that
\* is parsed is one that was sent.
THEOREM FramesArriveWhole == Spec => []FramesAreWhole
<1>1. Init => CleanUnlessFaults
  BY InitClean DEF CleanUnlessFaults
<1>2. TInv /\ CleanUnlessFaults /\ [Next]_vars => CleanUnlessFaults'
  BY NextClean
<1>3. TInv /\ CleanUnlessFaults => FramesAreWhole
  <2>1. TInv => faults \in Nat
    BY Numbers DEF TInv, DataTypeOK, GroundTypeOK
  <2> QED
    BY <2>1 DEF CleanUnlessFaults, Clean, FramesAreWhole
<1> QED
  BY <1>1, <1>2, <1>3, InitTyped, NextTyped, PTL DEF Spec

----------------------------------------------------------------------------
(* Acknowledgements.  As long as nothing is lost, every acknowledgement on *)
(* its way to the ground is of a packet that was received whole.           *)

OnTheAir(m) ==
  usart.tx_state = "TRANSMITTING" /\ usart.tx_buf # "tx_buf" /\ ota_ack_buf = m

Backed ==
  gstate \in {"sending", "ending"} =>
    /\ 0..(gseq - 1) \subseteq whole
    /\ \A n \in Seqs : down = Ack(n) \/ OnTheAir(Ack(n)) => n \in whole

BackedUnlessFaults == faults = 0 => Backed

\* The transmitter goes on with what it has, or has nothing of this kind.
LEMMA NothingNew ==
  ASSUME Backed, UNCHANGED <<gstate, gseq, whole>>,
         \A n \in Seqs : down' = Ack(n) => down = Ack(n) \/ OnTheAir(Ack(n)),
         \A n \in Seqs : OnTheAir(Ack(n))' => OnTheAir(Ack(n))
  PROVE  Backed'
BY DEF Backed

LEMMA SameAir ==
  ASSUME Backed, UNCHANGED <<gstate, gseq, whole, down, ota_ack_buf>>,
         usart'.tx_state = usart.tx_state, usart'.tx_buf = usart.tx_buf
  PROVE  Backed'
BY NothingNew DEF OnTheAir

\* A packet is acknowledged as it is staged, and only if it is staged.
LEMMA FrameBacked ==
  ASSUME TInv, TInv', Clean, Clean', Backed, RxFrame
  PROVE  Backed'
<1> SUFFICES ASSUME gstate' \in {"sending", "ending"} PROVE Backed'
  BY DEF Backed
<1> DEFINE u == [Taken EXCEPT !.rx_state = "IDLE"]
<1>1. PICK b \in Byte :
        Receiving(b) /\ OnTtcDone(u, rx_buf') /\ Witness(rx_buf') /\ Elsewhere
  BY DEF RxFrame
<1>2. UNCHANGED <<down, gstate, gseq>>
  BY <1>1 DEF Elsewhere, ground
<1>3. /\ u \in Handles /\ u.rx_state = "IDLE"
      /\ u.tx_state = usart.tx_state /\ u.tx_buf = usart.tx_buf
  BY TakenParts
<1> HIDE DEF u
<1>4. Transferring /\ ota_data_started
  <2>1. ~CommandFlies
    BY <1>2 DEF CommandFlies
  <2> QED
    BY <1>1, <2>1, TakenFromFrame DEF Transferring
<1>5. s_ota_pkt.seq # END
  BY <1>4 DEF Transferring
<1>6. IsWhole(rx_buf')
  BY <1>1 DEF Witness, Clean
<1>7. /\ s_ota_pkt' # s_ota_pkt => whole' = whole \cup {SeqOf(rx_buf')}
      /\ s_ota_pkt' = s_ota_pkt => whole' = whole
  BY <1>1, <1>4, <1>6 DEF Witness
<1>8. ttc_parse_ota(u, rx_buf')
  BY <1>1, <1>4 DEF OnTtcDone
<1>9. ASSUME NEW k, ota_ack_buf' = Ack(k), k \in whole'
      PROVE  Backed'
  <2>1. whole \subseteq whole'
    BY <1>7
  <2>2. \A n : OnTheAir(Ack(n))' => n = k
    BY <1>9 DEF OnTheAir, Ack
  <2> QED
    BY <1>2, <1>9, <2>1, <2>2 DEF Backed
<1>10. CASE OtaBadSync(u)
  <2>1. ota_ack_buf'.kind = "NACK" /\ s_ota_pkt' = s_ota_pkt
    BY <1>10 DEF OtaBadSync, SendReply
  <2>2. \A n : ~OnTheAir(Ack(n))'
    BY <2>1 DEF OnTheAir, Ack
  <2> QED
    BY <1>2, <1>7, <2>1, <2>2, NothingNew
<1>11. CASE OtaEnd(u, rx_buf') /\ SeqOf(rx_buf') = END
  <2>1. s_ota_pkt'.seq = END /\ ota_ack_buf' = Ack(END)
    BY <1>11 DEF OtaEnd, SendReply
  <2>2. END \in whole'
    BY <1>5, <1>7, <1>11, <2>1
  <2> QED
    BY <1>9, <2>1, <2>2
<1>12. CASE OtaData(u, rx_buf')
  <2>1. /\ s_ota_pkt = NoPkt /\ s_ota_pkt'.buf = rx_buf'
        /\ ota_ack_buf' = Ack(SeqOf(rx_buf'))
    BY <1>12 DEF OtaData, SendReply
  <2>2. rx_buf' # <<>>
    <3>1. rx_buf' \in [1..OTA_FULL_PACKET -> Byte]
      BY DEF TInv, DataTypeOK
    <3>2. 1 \in DOMAIN rx_buf'
      BY <3>1, Sizes
    <3> QED
      BY <3>2
  <2>3. s_ota_pkt' # s_ota_pkt
    BY <2>1, <2>2 DEF NoPkt
  <2>4. SeqOf(rx_buf') \in whole'
    BY <1>7, <2>3
  <2> QED
    BY <1>9, <2>1, <2>4
<1>13. CASE OtaDrop(u)
  <2>1. /\ NoReply(u, ota_data_started, "HUNT_AA") /\ s_ota_pkt' = s_ota_pkt
        /\ ota_data_started \in BOOLEAN
    BY <1>13 DEF OtaDrop, TInv, DataTypeOK, TtcTypeOK
  <2>2. /\ usart'.tx_state = u.tx_state /\ usart'.tx_buf = u.tx_buf
        /\ ota_ack_buf' = ota_ack_buf
    BY <1>3, <2>1, NoReplyParts
  <2> QED
    BY <1>2, <1>3, <1>7, <2>1, <2>2, SameAir
<1> QED
  BY <1>8, <1>10, <1>11, <1>12, <1>13 DEF ttc_parse_ota

LEMMA ScanBacked ==
  ASSUME TInv, Backed, RxScan PROVE Backed'
<1> DEFINE u == [Taken EXCEPT !.rx_state = "IDLE"]
<1>1. /\ u \in Handles /\ u.rx_state = "IDLE"
      /\ u.tx_state = usart.tx_state /\ u.tx_buf = usart.tx_buf
  BY TakenParts
<1>2. /\ \/ usart' = RecvAsync(u, "packet")
         \/ usart' = u
         \/ /\ usart' = ReadAsync(u, ota_data_started, ota_frame_state')
            /\ ota_frame_state' # "FOUND"
      /\ UNCHANGED <<down, gstate, gseq, whole, ota_ack_buf>>
  BY DEF RxScan, Elsewhere, ground, history, replies
<1> HIDE DEF u
<1>3. "packet" \in Targets /\ ota_data_started \in BOOLEAN
  BY DEF Targets, TInv, DataTypeOK, TtcTypeOK
<1>4. usart'.tx_state = u.tx_state /\ usart'.tx_buf = u.tx_buf
  BY <1>1, <1>2, <1>3, RecvParts, ReadParts
<1> QED
  BY <1>1, <1>2, <1>4, SameAir

LEMMA RxBacked ==
  ASSUME TInv, TInv', Clean, Clean', Backed, UsartRxTick
  PROVE  Backed'
<1>1. CASE RxIdle \/ RxWaits \/ RxNothing
  <2>1. usart'.tx_state = usart.tx_state /\ usart'.tx_buf = usart.tx_buf
    BY <1>1 DEF RxIdle, RxWaits, RxNothing, device, TInv, Fits, Handles
  <2>2. UNCHANGED <<down, gstate, gseq, whole, ota_ack_buf>>
    BY <1>1 DEF RxIdle, RxWaits, RxNothing, Elsewhere, ground, history, ttc, replies
  <2> QED
    BY <2>1, <2>2, SameAir
<1>2. CASE RxMore
  <2>1. usart' = Taken /\ UNCHANGED <<down, gstate, gseq, whole, ota_ack_buf>>
    BY <1>2 DEF RxMore, Elsewhere, ground, history, replies
  <2> QED
    BY <2>1, TakenParts, SameAir
<1>3. CASE RxError
  BY <1>3 DEF RxError, Clean, Machine
<1> QED
  BY <1>1, <1>2, <1>3, FrameBacked, ScanBacked DEF UsartRxTick

\* What comes down is what went out.
LEMMA TxByteBacked ==
  ASSUME TInv, Clean, Backed, TxByte PROVE Backed'
<1> DEFINE m == IF usart.tx_buf = "tx_buf" THEN None ELSE ota_ack_buf
<1>1. /\ usart.tx_state = "TRANSMITTING"
      /\ air' = Append(air, m)
      /\ down' = down \/ down' = air'[1]
      /\ UNCHANGED <<gstate, gseq, whole, ota_ack_buf>>
  BY DEF TxByte, ttc, replies, ground, history
<1>2. usart'.tx_buf = usart.tx_buf
  BY DEF TxByte, TInv, Fits, Handles
<1>3. \A i \in 1..Len(air) : air[i] = m
  BY <1>1 DEF Clean, Machine
<1>4. air \in Seq(Replies) /\ m \in Replies
  BY DEF TInv, Sized, DataTypeOK, TtcTypeOK, Replies
<1> HIDE DEF m
<1>5. air'[1] = m
  <2>1. Len(air) \in Nat
    BY <1>4
  <2>2. CASE Len(air) = 0
    BY <1>1, <1>4, <2>2
  <2>3. CASE Len(air) > 0
    <3>1. 1 \in 1..Len(air)
      BY <2>1, <2>3
    <3>2. air'[1] = air[1]
      BY <1>1, <1>4, <3>1
    <3> QED
      BY <1>3, <3>1, <3>2
  <2> QED
    BY <2>1, <2>2, <2>3
<1>6. \A n \in Seqs : down' = Ack(n) => down = Ack(n) \/ OnTheAir(Ack(n))
  BY <1>1, <1>5, Apart DEF m, OnTheAir
<1>7. \A n \in Seqs : OnTheAir(Ack(n))' => OnTheAir(Ack(n))
  BY <1>1, <1>2 DEF OnTheAir
<1> QED
  BY <1>1, <1>6, <1>7, NothingNew

LEMMA TurnBacked ==
  ASSUME TInv, TInv', Clean, Clean', Backed, Turn, ~Fault
  PROVE  Backed'
<1>1. CASE ModeTelemetry
  <2>1. /\ usart' = SendAsync(usart, "tx_buf")
        /\ UNCHANGED <<down, gstate, gseq, whole, ota_ack_buf>>
    BY <1>1 DEF ModeTelemetry, SendTelemetry, history
  <2>2. usart \in Handles
    BY DEF TInv, Fits
  <2>3. \/ usart'.tx_buf = "tx_buf"
        \/ usart' = usart
    BY <2>1, <2>2, SendParts
  <2> QED
    BY <2>1, <2>3, NothingNew DEF OnTheAir
<1>2. CASE ModeReady
  <2>1. ota_ack_buf'.kind = "READY" /\ UNCHANGED <<down, gstate, gseq, whole>>
    BY <1>2 DEF ModeReady, SendReply, Elsewhere, ground, history
  <2>2. \A n : ~OnTheAir(Ack(n))'
    BY <2>1 DEF OnTheAir, Ack
  <2> QED
    BY <2>1, <2>2, NothingNew
<1>3. CASE ModeRestart
  <2>1. usart'.tx_state = "IDLE" /\ UNCHANGED <<down, gstate, gseq, whole>>
    BY <1>3 DEF ModeRestart, Listening, ground, history
  <2> QED
    BY <2>1, NothingNew DEF OnTheAir
<1>4. CASE ModeTake \/ ModeGivesUp \/ ModeAbort \/ ModeNothing \/ TxIdle
  BY <1>4, SameAir
     DEF ModeTake, ModeGivesUp, ModeAbort, ModeNothing, TxIdle, Elsewhere,
         device, ttc, replies, ground, history
<1>5. CASE TxBusy
  <2>1. usart'.tx_state = usart.tx_state /\ usart'.tx_buf = usart.tx_buf
    BY <1>5 DEF TxBusy, TInv, Fits, Handles
  <2> QED
    BY <1>5, <2>1, SameAir DEF TxBusy, Elsewhere, ttc, replies, ground, history
<1>6. CASE TickEnd
  <2>1. usart'.tx_state = usart.tx_state /\ usart'.tx_buf = usart.tx_buf
    <3>1. usart' = usart \/ usart' = ReadAsync(usart, ota_data_started, ota_frame_state)
      BY <1>6 DEF TickEnd
    <3>2. \A target : /\ RecvAsync(usart, target).tx_state = usart.tx_state
                      /\ RecvAsync(usart, target).tx_buf = usart.tx_buf
      BY DEF RecvAsync, TInv, Fits, Handles
    <3> QED
      BY <3>1, <3>2 DEF ReadAsync
  <2> QED
    BY <1>6, <2>1, SameAir DEF TickEnd, Elsewhere, replies, ground, history
<1>7. ~TxStalls /\ ~TxError
  BY DEF TxStalls, TxError, Clean, Machine
<1> QED
  BY <1>1, <1>2, <1>3, <1>4, <1>5, <1>6, <1>7, TxByteBacked, RxBacked
     DEF Turn, Modes, UsartTxTick

LEMMA GroundBacked ==
  ASSUME TInv, Clean, Backed,
         GroundStart \/ GroundCommand \/ GroundSend \/ GroundHear \/ GroundLeaves
  PROVE  Backed'
<1>1. CASE GroundStart \/ GroundLeaves
  BY <1>1 DEF GroundStart, GroundLeaves, Backed
<1>2. CASE GroundCommand \/ GroundSend
  BY <1>2, SameAir DEF GroundCommand, GroundSend, Sends, device, ttc, replies, history
<1>3. CASE GroundHear
  <2>1. /\ down' = None /\ down # None
        /\ UNCHANGED <<usart, ota_ack_buf, whole>>
    BY <1>3 DEF GroundHear, device, ttc, replies, history
  <2>2. \A n : down' # Ack(n)
    BY <2>1, Apart
  <2>3. \A n : OnTheAir(Ack(n))' => OnTheAir(Ack(n))
    BY <2>1 DEF OnTheAir
  <2>4. CASE gstate = "starting" /\ gseq' = gseq
    <3>1. usart.tx_state = "IDLE"
      BY <2>1, <2>4, Flies DEF Clean, Phases, Commanding, Preparing,
         Transferring, Finishing, Telling, Told
    <3>2. \A n : ~OnTheAir(Ack(n))'
      BY <2>1, <3>1 DEF OnTheAir
    <3>3. 0..(gseq' - 1) = {}
      BY <2>4 DEF TInv, DataTypeOK, GroundInStep
    <3> QED
      BY <2>2, <3>2, <3>3 DEF Backed
  <2>5. CASE /\ gstate = "sending" /\ down = Ack(gseq) /\ gseq' = gseq + 1
    <3>1. gseq \in Seqs /\ gseq \in Nat
      BY Numbers DEF TInv, DataTypeOK, GroundTypeOK, Seqs
    <3>2. gseq \in whole /\ 0..(gseq - 1) \subseteq whole
      BY <2>5, <3>1 DEF Backed
    <3>3. 0..(gseq' - 1) \subseteq whole'
      BY <2>1, <2>5, <3>1, <3>2
    <3> QED
      BY <2>1, <2>2, <2>3, <2>5, <3>3 DEF Backed
  <2>6. CASE gseq' = gseq /\ (gstate' = "off" \/ gstate' = gstate)
    BY <2>1, <2>2, <2>3, <2>6 DEF Backed
  <2> QED
    BY <1>3, <2>4, <2>5, <2>6 DEF GroundHear
<1> QED
  BY <1>1, <1>2, <1>3

LEMMA NextBacked ==
  ASSUME TInv, TInv', CleanUnlessFaults, CleanUnlessFaults',
         BackedUnlessFaults, [Next]_vars
  PROVE  BackedUnlessFaults'
<1> SUFFICES ASSUME faults' = 0 PROVE Backed'
  BY DEF BackedUnlessFaults
<1>1. Clean'
  BY DEF CleanUnlessFaults
<1>2. ~Fault /\ faults = 0
  <2>1. faults \in Nat
    BY Numbers DEF TInv, DataTypeOK, GroundTypeOK
  <2>2. faults' = faults \/ faults' = faults + 1
    BY FaultsCount
  <2> QED
    BY <2>1, <2>2 DEF Fault
<1>3. Clean /\ Backed
  BY <1>2 DEF CleanUnlessFaults, BackedUnlessFaults
<1>4. CASE Turn
  BY <1>1, <1>2, <1>3, <1>4, TurnBacked
<1>5. CASE MemoryDone \/ Silence \/ USART0_Handler
  BY <1>3, <1>5, SameAir
     DEF MemoryDone, Silence, USART0_Handler, device, ttc, replies, sky,
         ground, history
<1>6. CASE LoseByte \/ LoseReply
  BY <1>2, <1>6 DEF LoseByte, LoseReply
<1>7. CASE GroundStart \/ GroundCommand \/ GroundSend \/ GroundHear
           \/ GroundLeaves
  BY <1>3, <1>7, GroundBacked
<1>8. CASE UNCHANGED vars
  BY <1>3, <1>8, SameAir DEF vars, device, ttc, replies, sky, ground, history
<1> QED
  BY <1>4, <1>5, <1>6, <1>7, <1>8 DEF Next

\* What an acknowledgement is worth (ttc.c:26), where a run shows that one
\* byte lost takes the worth away: as long as nothing is lost and nothing
\* stalls, every packet that the ground counts as delivered was received from
\* its first byte to its last, and staged, in this session.
THEOREM AcksAreTrue == Spec => [](faults = 0 => AckMeansWhole)
<1> DEFINE Worth == faults = 0 => AckMeansWhole
<1>1. Init => BackedUnlessFaults
  BY DEF Init, BackedUnlessFaults, Backed
<1>2. TInv /\ TInv' /\ CleanUnlessFaults /\ CleanUnlessFaults'
        /\ BackedUnlessFaults /\ [Next]_vars => BackedUnlessFaults'
  BY NextBacked
<1>3. BackedUnlessFaults => Worth
  BY DEF BackedUnlessFaults, Backed, AckMeansWhole
<1>4. Init => CleanUnlessFaults
  BY InitClean DEF CleanUnlessFaults
<1>5. TInv /\ CleanUnlessFaults /\ [Next]_vars => CleanUnlessFaults'
  BY NextClean
<1> HIDE DEF Worth
<1>6. Spec => []Worth
  BY <1>1, <1>2, <1>3, <1>4, <1>5, InitTyped, NextTyped, PTL DEF Spec
<1> QED
  BY <1>6 DEF Worth
=============================================================================
