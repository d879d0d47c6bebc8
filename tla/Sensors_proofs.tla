---------------------------- MODULE Sensors_proofs ---------------------------
(***************************************************************************)
(* Proofs about the propulsor and the SPI driver, for any length of a      *)
(* transfer, any timeout and any commands: the propulsor hears only the    *)
(* command that was asked for, from its beginning, and its telemetry is    *)
(* one answer with every byte in its place.                                *)
(*                                                                         *)
(* The argument: while the chip select is low, the controller holds the    *)
(* byte that the driver has given it, or its answer, or has lost it; and   *)
(* what a transfer that timed out has left behind is gone when the next    *)
(* one begins.                                                             *)
(*                                                                         *)
(* And proofs about the I2C sensors but the IMU: whatever they measure is  *)
(* published as it was measured.  The parsers undo what the sensors did to *)
(* their values byte by byte, and every read asks for as many bytes as its *)
(* parser takes.                                                           *)
(***************************************************************************)
EXTENDS Sensors, TLAPS

Exchange == {"TRANSFER", "WAIT_TX", "WAIT_RX"}

SpiOK ==
  spi \in [state : SpiStates, index : 0..(Last + 1),
           timeout : 0..SPI_TIMEOUT_MAX]

DataOK ==
  /\ tx_buf \in [Index -> 0..LO]
  /\ rx_buf \in [Index -> Answer \cup {NoByte}]
  /\ asked \in PropCommands
  /\ propulsor \in [1..Last -> Answer \cup {NoByte}]
  /\ heard \in Seq(0..LO) /\ Len(heard) <= Last + 1
  /\ tdr \in 0..Empty
  /\ rdr \in Answer \cup {NoByte}

Select ==
  /\ selected \in BOOLEAN
  /\ selected <=> spi.state \in Exchange \cup {"CS_HIGH"}

\* Where the byte in question is: in neither register, in the controller's,
\* in the receive register, or lost.
Registers ==
  /\ spi.state = "CS_LOW" => tdr = Empty /\ spi.index = 0
  /\ spi.state = "CS_HIGH" => tdr = Empty
  /\ spi.state \in Exchange => spi.index \in Index
  /\ spi.state = "TRANSFER" =>
       tdr = Empty /\ rdr = NoByte /\ Len(heard) = spi.index
  /\ spi.state \in {"WAIT_TX", "WAIT_RX"} =>
       \/ tdr = tx_buf[spi.index] /\ rdr = NoByte /\ Len(heard) = spi.index
       \/ tdr = Empty /\ rdr = NoByte /\ Len(heard) = spi.index
       \/ /\ tdr = Empty /\ rdr = <<"now", spi.index>>
          /\ Len(heard) = spi.index + 1

\* What has been said, and what has been answered.
Said ==
  /\ spi.state # "IDLE" => tx_buf = Frame(asked)
  /\ selected => \A i \in 1..Len(heard) : heard[i] = tx_buf[i - 1]

Answered ==
  /\ spi.state \in Exchange =>
       \A k \in Index : k < spi.index => rx_buf[k] = <<"now", k>>
  /\ spi.state \in {"CS_HIGH", "STOP"} =>
       \A k \in Index : rx_buf[k] = <<"now", k>>

IInv ==
  SpiOK /\ DataOK /\ Select /\ Registers /\ Said /\ Answered /\ TelemetryIsOneFrame

----------------------------------------------------------------------------

LEMMA Numbers ==
  /\ SPI_TIMEOUT_MAX \in Nat
  /\ Last \in Nat /\ Last > 0
  /\ Index = 0..Last
  /\ Commands \subseteq PropCommands /\ "READ" \in Commands
BY SensorsAssumption DEF Last, Index

LEMMA NoTime == 0 \in 0..SPI_TIMEOUT_MAX
BY Numbers

LEMMA FrameType == \A cmd \in PropCommands : Frame(cmd) \in [Index -> 0..LO]
<1> SUFFICES ASSUME NEW cmd \in PropCommands, NEW k \in Index
             PROVE  Frame(cmd)[k] \in 0..LO
  BY DEF Frame
<1> QED
  BY Numbers DEF Frame, PropCommands, HI, LO

LEMMA InitIInv == Init => IInv
<1> SUFFICES ASSUME Init PROVE IInv
  OBVIOUS
<1>1. SpiOK /\ DataOK
  <2>1. /\ spi \in [state : SpiStates, index : 0..(Last + 1),
                    timeout : 0..SPI_TIMEOUT_MAX]
        /\ asked \in PropCommands
        /\ tdr \in 0..Empty
    BY Numbers DEF Init, SpiStates, PropCommands, Empty
  <2>2. heard \in Seq(0..LO) /\ Len(heard) <= Last + 1
    BY Numbers DEF Init
  <2>3. tx_buf \in [Index -> 0..LO]
    BY DEF Init, LO
  <2>4. /\ rx_buf \in [Index -> Answer \cup {NoByte}]
        /\ propulsor \in [1..Last -> Answer \cup {NoByte}]
        /\ rdr \in Answer \cup {NoByte}
    BY DEF Init
  <2> QED
    BY <2>1, <2>2, <2>3, <2>4 DEF SpiOK, DataOK
<1>2. Select
  BY DEF Init, Select, Exchange
<1>3. Registers /\ Said /\ Answered
  BY DEF Init, Registers, Said, Answered, Exchange
<1>4. TelemetryIsOneFrame
  BY DEF Init, TelemetryIsOneFrame
<1> QED
  BY <1>1, <1>2, <1>3, <1>4 DEF IInv

\* A call that finds the handle idle begins a transfer; nothing of the last
\* one is left in the controller's transmit register.
LEMMA BeginIInv ==
  ASSUME IInv, NEW cmd \in PropCommands, Begin(cmd), ControllerFree
  PROVE  IInv'
<1>1. CASE spi.state # "IDLE"
  <2>1. UNCHANGED <<driver, controller>>
    BY <1>1 DEF Begin
  <2> QED
    BY <2>1 DEF driver, controller, IInv, SpiOK, DataOK, Select, Registers, Said,
                Answered, TelemetryIsOneFrame
<1>2. CASE spi.state = "IDLE"
  <2>1. /\ tx_buf' = Frame(cmd)
        /\ spi' = [state |-> "CS_LOW", index |-> 0, timeout |-> 0]
        /\ rx_buf' = [k \in Index |-> Aged(rx_buf[k])]
        /\ rdr' = Aged(rdr)
        /\ asked' = cmd
        /\ UNCHANGED <<propulsor, selected, heard, tdr>>
    BY <1>2 DEF Begin
  <2>2. SpiOK' /\ DataOK'
    <3>1. \A b \in Answer \cup {NoByte} : Aged(b) \in Answer \cup {NoByte}
      BY DEF Aged, Answer, NoByte
    <3>2. rx_buf' \in [Index -> Answer \cup {NoByte}]
      BY <2>1, <3>1 DEF IInv, SpiOK, DataOK
    <3>3. rdr' \in Answer \cup {NoByte}
      BY <2>1, <3>1 DEF IInv, SpiOK, DataOK
    <3>4. /\ spi' \in [state : SpiStates, index : 0..(Last + 1),
                       timeout : 0..SPI_TIMEOUT_MAX]
          /\ tx_buf' \in [Index -> 0..LO]
      BY <2>1, Numbers, FrameType DEF SpiStates
    <3> QED
      BY <2>1, <3>2, <3>3, <3>4 DEF IInv, SpiOK, DataOK
  <2>3. ~selected /\ selected' = selected
    BY <1>2, <2>1 DEF IInv, Select, Exchange
  <2>4. Select'
    <3>1. spi'.state \notin Exchange \cup {"CS_HIGH"}
      BY <2>1 DEF Exchange
    <3>2. selected \in BOOLEAN
      BY DEF IInv, Select
    <3> QED
      BY <2>3, <3>1, <3>2, Zenon DEF Select
  <2>5. tdr = Empty
    BY <1>2 DEF ControllerFree
  <2>6. Registers' /\ Said' /\ Answered'
    BY <2>1, <2>3, <2>5 DEF Registers, Said, Answered, Exchange
  <2>7. TelemetryIsOneFrame'
    BY <2>1 DEF IInv, TelemetryIsOneFrame
  <2> QED
    BY <2>2, <2>4, <2>6, <2>7 DEF IInv
<1> QED
  BY <1>1, <1>2

\* The transfer is given up, or waits: the rest of the state is as it was.
LEMMA NotReadyIInv ==
  ASSUME IInv, spi.state \in {"WAIT_TX", "WAIT_RX"}, NotReady,
         UNCHANGED <<tx_buf, rx_buf, asked, propulsor, heard, tdr, rdr>>
  PROVE  IInv'
<1>1. CASE spi.timeout + 1 > SPI_TIMEOUT_MAX
  <2>1. spi' = [spi EXCEPT !.state = "IDLE", !.timeout = 0] /\ selected' = FALSE
    BY <1>1 DEF NotReady
  <2>2. spi'.state = "IDLE" /\ ~selected'
    BY <2>1 DEF IInv, SpiOK, DataOK
  <2>3. SpiOK' /\ DataOK'
    <3>1. SpiOK'
      BY <2>1, NoTime DEF IInv, SpiOK, SpiStates
    <3> QED
      BY <3>1 DEF IInv, DataOK
  <2>4. Select'
    <3>1. spi'.state \notin Exchange \cup {"CS_HIGH"}
      BY <2>2 DEF Exchange
    <3> QED
      BY <2>1, <3>1, Zenon DEF Select
  <2>5. Registers' /\ Said' /\ Answered'
    BY <2>2 DEF Registers, Said, Answered, Exchange
  <2>6. TelemetryIsOneFrame'
    BY DEF IInv, TelemetryIsOneFrame
  <2> QED
    BY <2>3, <2>4, <2>5, <2>6 DEF IInv
<1>2. CASE ~(spi.timeout + 1 > SPI_TIMEOUT_MAX)
  <2>1. spi' = [spi EXCEPT !.timeout = @ + 1] /\ UNCHANGED selected
    BY <1>2 DEF NotReady
  <2>2. spi'.state = spi.state /\ spi'.index = spi.index
    BY <2>1 DEF IInv, SpiOK, DataOK
  <2>3. SpiOK' /\ DataOK'
    <3>1. SpiOK'
      BY <1>2, <2>1, Numbers DEF IInv, SpiOK
    <3> QED
      BY <3>1 DEF IInv, DataOK
  <2>4. Select'
    BY <2>1, <2>2, Zenon DEF IInv, Select
  <2>5. Registers' /\ Said' /\ Answered'
    BY <2>1, <2>2 DEF IInv, Registers, Said, Answered
  <2>6. TelemetryIsOneFrame'
    BY DEF IInv, TelemetryIsOneFrame
  <2> QED
    BY <2>3, <2>4, <2>5, <2>6 DEF IInv
<1> QED
  BY <1>1, <1>2

----------------------------------------------------------------------------
(* One tick of the driver: a lemma for each state.                         *)

LEMMA CsLowIInv == IInv /\ CsLow => IInv'
<1> SUFFICES ASSUME IInv, CsLow PROVE IInv'
  OBVIOUS
<1>1. /\ spi.state = "CS_LOW" /\ ~selected
      /\ spi' = [spi EXCEPT !.state = "TRANSFER"]
      /\ rdr' = NoByte /\ selected' = TRUE
      /\ UNCHANGED <<tx_buf, rx_buf, asked, propulsor, tdr>>
  BY DEF CsLow, In, IInv, Select, Exchange
<1>2. heard' = <<>>
  BY <1>1 DEF CsLow
<1>3. spi'.state = "TRANSFER" /\ spi'.index = 0
  BY <1>1 DEF IInv, SpiOK, Registers
<1>4. SpiOK' /\ DataOK'
  <2>1. SpiOK'
    BY <1>1 DEF IInv, SpiOK, SpiStates
  <2>2. heard' \in Seq(0..LO) /\ Len(heard') <= Last + 1
    BY <1>2, Numbers
  <2> QED
    BY <1>1, <2>1, <2>2 DEF IInv, DataOK
<1>5. Select'
  BY <1>1, <1>3, Zenon DEF Select, Exchange
<1>6. Registers'
  BY <1>1, <1>2, <1>3, Numbers DEF IInv, Registers, Exchange
<1>7. Said'
  BY <1>1, <1>2, <1>3 DEF IInv, Said
<1>8. Answered'
  BY <1>3, Numbers DEF Answered, Exchange
<1>9. TelemetryIsOneFrame'
  BY <1>1 DEF IInv, TelemetryIsOneFrame
<1> QED
  BY <1>4, <1>5, <1>6, <1>7, <1>8, <1>9 DEF IInv

LEMMA TransferIInv == IInv /\ Transfer => IInv'
<1> SUFFICES ASSUME IInv, Transfer PROVE IInv'
  OBVIOUS
<1>1. /\ spi.state = "TRANSFER" /\ spi.index \in Index
      /\ spi' = [spi EXCEPT !.state = "WAIT_TX"]
      /\ tdr' = tx_buf[spi.index]
      /\ UNCHANGED <<tx_buf, rx_buf, asked, propulsor, selected, heard, rdr>>
  BY DEF Transfer, In, IInv, Registers, Exchange
<1>2. spi'.state = "WAIT_TX" /\ spi'.index = spi.index
  BY <1>1 DEF IInv, SpiOK, DataOK
<1>3. SpiOK' /\ DataOK'
  <2>1. SpiOK'
    BY <1>1 DEF IInv, SpiOK, SpiStates
  <2>2. tx_buf[spi.index] \in 0..LO
    BY <1>1 DEF IInv, DataOK
  <2>3. tdr' \in 0..Empty
    BY <1>1, <2>2 DEF LO, Empty
  <2> QED
    BY <1>1, <2>1, <2>3 DEF IInv, DataOK
<1>4. Select'
  BY <1>1, <1>2, Zenon DEF IInv, Select, Exchange
<1>5. Registers'
  BY <1>1, <1>2 DEF IInv, Registers, Exchange
<1>6. Said' /\ Answered'
  BY <1>1, <1>2 DEF IInv, Said, Answered, Exchange
<1>7. TelemetryIsOneFrame'
  BY <1>1 DEF IInv, TelemetryIsOneFrame
<1> QED
  BY <1>3, <1>4, <1>5, <1>6, <1>7 DEF IInv

LEMMA WaitTxIInv == IInv /\ WaitTx => IInv'
<1> SUFFICES ASSUME IInv, WaitTx PROVE IInv'
  OBVIOUS
<1>1. /\ spi.state = "WAIT_TX"
      /\ UNCHANGED <<tx_buf, rx_buf, asked, propulsor, heard, tdr, rdr>>
  BY DEF WaitTx, In
<1>2. CASE NotReady
  BY <1>1, <1>2, NotReadyIInv
<1>3. CASE spi' = [spi EXCEPT !.state = "WAIT_RX", !.timeout = 0]
           /\ UNCHANGED selected
  <2>1. spi'.state = "WAIT_RX" /\ spi'.index = spi.index
    BY <1>3 DEF IInv, SpiOK, DataOK
  <2>2. SpiOK' /\ DataOK'
    <3>1. SpiOK'
      BY <1>3, NoTime DEF IInv, SpiOK, SpiStates
    <3> QED
      BY <1>1, <3>1 DEF IInv, DataOK
  <2>3. Select'
    BY <1>1, <1>3, <2>1, Zenon DEF IInv, Select, Exchange
  <2>4. Registers'
    BY <1>1, <1>3, <2>1 DEF IInv, Registers, Exchange
  <2>5. Said' /\ Answered'
    BY <1>1, <1>3, <2>1 DEF IInv, Said, Answered, Exchange
  <2>6. TelemetryIsOneFrame'
    BY <1>1 DEF IInv, TelemetryIsOneFrame
  <2> QED
    BY <2>2, <2>3, <2>4, <2>5, <2>6 DEF IInv
<1> QED
  BY <1>2, <1>3 DEF WaitTx

LEMMA WaitRxIInv == IInv /\ WaitRx => IInv'
<1> SUFFICES ASSUME IInv, WaitRx PROVE IInv'
  OBVIOUS
<1>1. /\ spi.state = "WAIT_RX" /\ spi.index \in Index
      /\ UNCHANGED <<tx_buf, asked, propulsor, heard, tdr>>
  BY DEF WaitRx, In, IInv, Registers, Exchange
<1>2. CASE rdr = NoByte
  BY <1>1, <1>2, NotReadyIInv DEF WaitRx
<1>3. CASE rdr # NoByte
  <2> DEFINE s == IF spi.index + 1 >= 1 + PROPULSOR_BUF_LEN
                  THEN "CS_HIGH" ELSE "TRANSFER"
  <2>1. /\ rx_buf' = [rx_buf EXCEPT ![spi.index] = rdr]
        /\ rdr' = NoByte
        /\ spi' = [state |-> s, index |-> spi.index + 1, timeout |-> 0]
        /\ UNCHANGED selected
    BY <1>3 DEF WaitRx
  <2>2. /\ tdr = Empty /\ rdr = <<"now", spi.index>>
        /\ Len(heard) = spi.index + 1
    BY <1>1, <1>3 DEF IInv, Registers
  <2>3. /\ spi'.state = s /\ spi'.index = spi.index + 1
        /\ s = "CS_HIGH" \/ s = "TRANSFER"
    BY <2>1
  <2>4. SpiOK' /\ DataOK'
    <3>1. spi.index + 1 \in 0..(Last + 1) /\ s \in SpiStates
      BY <1>1, Numbers DEF SpiStates
    <3>2. SpiOK'
      BY <2>1, <3>1, NoTime DEF SpiOK
    <3>3. rx_buf' \in [Index -> Answer \cup {NoByte}]
      BY <1>1, <2>1 DEF IInv, DataOK
    <3> QED
      BY <1>1, <2>1, <3>2, <3>3 DEF IInv, DataOK
  <2>5. Select'
    BY <1>1, <2>1, <2>3, Zenon DEF IInv, Select, Exchange
  <2>6. s = "TRANSFER" => spi.index + 1 \in Index
    BY <1>1, Numbers DEF Last
  <2>7. Registers'
    BY <1>1, <2>1, <2>2, <2>3, <2>6 DEF Registers, Exchange
  <2>8. Said'
    BY <1>1, <2>1 DEF IInv, Said
  <2>9. Answered'
    <3>1. \A k \in Index : k < spi.index + 1 => rx_buf'[k] = <<"now", k>>
      <4> SUFFICES ASSUME NEW k \in Index, k < spi.index + 1
                   PROVE  rx_buf'[k] = <<"now", k>>
        OBVIOUS
      <4>1. CASE k = spi.index
        BY <1>1, <2>1, <2>2, <4>1 DEF IInv, DataOK
      <4>2. CASE k # spi.index
        <5>1. k < spi.index
          BY <1>1, <4>2, Numbers
        <5>2. rx_buf[k] = <<"now", k>>
          BY <1>1, <5>1 DEF IInv, Answered, Exchange
        <5> QED
          BY <1>1, <2>1, <4>2, <5>2 DEF IInv, DataOK
      <4> QED
        BY <4>1, <4>2
    <3>2. s = "CS_HIGH" => \A k \in Index : k < spi.index + 1
      BY <1>1, Numbers DEF Last
    <3> QED
      BY <2>3, <3>1, <3>2 DEF Answered, Exchange
  <2>10. TelemetryIsOneFrame'
    BY <1>1 DEF IInv, TelemetryIsOneFrame
  <2> QED
    BY <2>4, <2>5, <2>7, <2>8, <2>9, <2>10 DEF IInv
<1> QED
  BY <1>2, <1>3

LEMMA CsHighIInv == IInv /\ CsHigh => IInv'
<1> SUFFICES ASSUME IInv, CsHigh PROVE IInv'
  OBVIOUS
<1>1. /\ spi.state = "CS_HIGH"
      /\ spi' = [spi EXCEPT !.state = "STOP"]
      /\ selected' = FALSE
      /\ UNCHANGED <<tx_buf, rx_buf, asked, propulsor, heard, tdr, rdr>>
  BY DEF CsHigh, In
<1>2. spi'.state = "STOP"
  BY <1>1 DEF IInv, SpiOK
<1>3. SpiOK' /\ DataOK'
  <2>1. SpiOK'
    BY <1>1 DEF IInv, SpiOK, SpiStates
  <2> QED
    BY <1>1, <2>1 DEF IInv, DataOK
<1>4. Select'
  BY <1>1, <1>2, Zenon DEF Select, Exchange
<1>5. Registers'
  BY <1>2 DEF Registers, Exchange
<1>6. Said' /\ Answered'
  BY <1>1, <1>2 DEF IInv, Said, Answered, Exchange
<1>7. TelemetryIsOneFrame'
  BY <1>1 DEF IInv, TelemetryIsOneFrame
<1> QED
  BY <1>3, <1>4, <1>5, <1>6, <1>7 DEF IInv

LEMMA StopIInv == IInv /\ Stop => IInv'
<1> SUFFICES ASSUME IInv, Stop PROVE IInv'
  OBVIOUS
<1>1. /\ spi.state = "STOP"
      /\ spi' = [spi EXCEPT !.state = "IDLE"]
      /\ Parse
      /\ UNCHANGED <<tx_buf, rx_buf, asked, selected, heard, tdr, rdr>>
  BY DEF Stop, In, controller
<1>2. spi'.state = "IDLE"
  BY <1>1 DEF IInv, SpiOK
<1>3. propulsor' = propulsor \/ propulsor' = [k \in 1..Last |-> <<"now", k>>]
  <2>1. \A k \in 1..Last : rx_buf[k] = <<"now", k>>
    BY <1>1, Numbers DEF IInv, Answered
  <2> QED
    BY <1>1, <2>1 DEF Parse
<1>4. SpiOK' /\ DataOK'
  <2>1. SpiOK'
    BY <1>1 DEF IInv, SpiOK, SpiStates
  <2>2. propulsor' \in [1..Last -> Answer \cup {NoByte}]
    BY <1>3, Numbers DEF IInv, DataOK, Answer
  <2> QED
    BY <1>1, <2>1, <2>2 DEF IInv, DataOK
<1>5. Select'
  BY <1>1, <1>2, Zenon DEF IInv, Select, Exchange
<1>6. Registers' /\ Answered'
  BY <1>2 DEF Registers, Answered, Exchange
<1>7. Said'
  BY <1>1, <1>2 DEF IInv, Said
<1>8. TelemetryIsOneFrame'
  BY <1>3 DEF IInv, TelemetryIsOneFrame
<1> QED
  BY <1>4, <1>5, <1>6, <1>7, <1>8 DEF IInv

----------------------------------------------------------------------------
(* The controller.                                                         *)

\* A byte still to be shifted is the one of the exchange under way, or no
\* exchange is under way at all.
LEMMA WhoseByte ==
  ASSUME IInv, tdr # Empty
  PROVE  \/ /\ spi.state \in {"WAIT_TX", "WAIT_RX"} /\ selected
            /\ spi.index \in Index
            /\ tdr = tx_buf[spi.index] /\ rdr = NoByte
            /\ Len(heard) = spi.index
         \/ spi.state \in {"IDLE", "STOP"} /\ ~selected
<1>1. spi.state \in SpiStates
  BY DEF IInv, SpiOK
<1> QED
  BY <1>1 DEF IInv, Select, Registers, Exchange, SpiStates

LEMMA ShiftIInv == IInv /\ Shift => IInv'
<1> SUFFICES ASSUME IInv, Shift PROVE IInv'
  OBVIOUS
<1>1. /\ tdr # Empty /\ tdr' = Empty
      /\ UNCHANGED <<spi, tx_buf, rx_buf, asked, propulsor, selected>>
  BY DEF Shift, driver
<1>2. SpiOK' /\ Select' /\ TelemetryIsOneFrame'
  <2>1. SpiOK'
    BY <1>1 DEF IInv, SpiOK
  <2>2. Select'
    BY <1>1, Zenon DEF IInv, Select
  <2>3. TelemetryIsOneFrame'
    BY <1>1 DEF IInv, TelemetryIsOneFrame
  <2> QED
    BY <2>1, <2>2, <2>3
<1>3. Answered'
  BY <1>1 DEF IInv, Answered
<1>4. tdr' \in 0..Empty
  BY <1>1 DEF Empty
<1>5. CASE spi.state \in {"IDLE", "STOP"} /\ ~selected
  <2>1. heard' = heard /\ rdr' = <<"old", 0>>
    BY <1>5 DEF Shift
  <2>2. <<"old", 0>> \in Answer
    BY Numbers DEF Answer
  <2>3. DataOK'
    BY <1>1, <1>4, <2>1, <2>2 DEF IInv, DataOK
  <2>4. Registers' /\ Said'
    BY <1>1, <1>5, <2>1 DEF IInv, Registers, Said, Exchange
  <2> QED
    BY <1>2, <1>3, <2>3, <2>4 DEF IInv
<1>6. CASE /\ spi.state \in {"WAIT_TX", "WAIT_RX"} /\ selected
           /\ spi.index \in Index
           /\ tdr = tx_buf[spi.index] /\ rdr = NoByte
           /\ Len(heard) = spi.index
  <2>1. heard' = Append(heard, tdr) /\ rdr' = <<"now", spi.index>>
    BY <1>6, Numbers DEF Shift
  <2>2. tdr \in 0..LO
    BY <1>6 DEF IInv, DataOK
  <2>3. /\ heard' \in Seq(0..LO) /\ Len(heard') = spi.index + 1
        /\ heard'[spi.index + 1] = tdr
        /\ \A i \in 1..Len(heard) : heard'[i] = heard[i]
    BY <1>6, <2>1, <2>2 DEF IInv, DataOK
  <2>4. DataOK'
    <3>1. Len(heard') <= Last + 1 /\ rdr' \in Answer
      BY <1>6, <2>1, <2>3, Numbers DEF Answer
    <3> QED
      BY <1>1, <1>4, <2>3, <3>1 DEF IInv, DataOK
  <2>5. Registers'
    BY <1>1, <1>6, <2>1, <2>3 DEF Registers, Exchange
  <2>6. Said'
    <3>1. \A i \in 1..Len(heard') : heard'[i] = tx_buf[i - 1]
      <4> SUFFICES ASSUME NEW i \in 1..Len(heard')
                   PROVE  heard'[i] = tx_buf[i - 1]
        OBVIOUS
      <4>1. CASE i = spi.index + 1
        <5>1. i - 1 = spi.index
          BY <1>6, <4>1, Numbers
        <5> QED
          BY <1>6, <2>3, <4>1, <5>1
      <4>2. CASE i # spi.index + 1
        <5>1. i \in 1..Len(heard)
          BY <1>6, <2>3, <4>2, Numbers
        <5> QED
          BY <1>6, <2>3, <5>1 DEF IInv, Said
      <4> QED
        BY <4>1, <4>2
    <3> QED
      BY <1>1, <3>1 DEF IInv, Said
  <2> QED
    BY <1>2, <1>3, <2>4, <2>5, <2>6 DEF IInv
<1> QED
  BY <1>1, <1>5, <1>6, WhoseByte

LEMMA ShiftLostIInv == IInv /\ ShiftLost => IInv'
<1> SUFFICES ASSUME IInv, ShiftLost PROVE IInv'
  OBVIOUS
<1>1. /\ tdr # Empty /\ tdr' = Empty
      /\ UNCHANGED <<spi, tx_buf, rx_buf, asked, propulsor, selected, heard,
                     rdr>>
  BY DEF ShiftLost, driver
<1>2. SpiOK' /\ DataOK'
  BY <1>1 DEF IInv, SpiOK, DataOK, Empty
<1>3. Select'
  BY <1>1, Zenon DEF IInv, Select
<1>4. Registers'
  BY <1>1 DEF IInv, Registers
<1>5. Said' /\ Answered' /\ TelemetryIsOneFrame'
  BY <1>1 DEF IInv, Said, Answered, TelemetryIsOneFrame
<1> QED
  BY <1>2, <1>3, <1>4, <1>5 DEF IInv

----------------------------------------------------------------------------

LEMMA Untouched == IInv /\ UNCHANGED <<driver, controller>> => IInv'
BY DEF driver, controller, IInv, SpiOK, DataOK, Select, Registers, Said,
       Answered, TelemetryIsOneFrame

LEMMA NextIInv == IInv /\ [Next]_vars => IInv'
<1> SUFFICES ASSUME IInv, [Next]_vars PROVE IInv'
  OBVIOUS
<1>1. CASE ReadAll
  <2>1. CASE ControllerFree /\ Begin("READ")
    BY <2>1, BeginIInv DEF PropCommands
  <2>2. CASE UNCHANGED <<driver, controller>>
    BY <2>2, Untouched
  <2> QED
    BY <1>1, <2>1, <2>2 DEF ReadAll, ReadPropulsor, ReadI2cSensors
<1>2. CASE Order
  BY <1>2, BeginIInv, Numbers DEF Order
<1>3. CASE SpiTick
  BY <1>3, CsLowIInv, TransferIInv, WaitTxIInv, WaitRxIInv, CsHighIInv,
     StopIInv DEF SpiTick
<1>4. CASE Shift \/ ShiftLost
  BY <1>4, ShiftIInv, ShiftLostIInv
<1>5. CASE ModeChange \/ \E s \in I2cSensors : ReadOk(s) \/ ReadFails(s)
  <2>1. UNCHANGED <<driver, controller>>
    BY <1>5 DEF ReadOk, ReadFails, ModeChange
  <2> QED
    BY <2>1, Untouched
<1>6. CASE UNCHANGED vars
  BY <1>6, Untouched DEF vars
<1> QED
  BY <1>1, <1>2, <1>3, <1>4, <1>5, <1>6 DEF Next

THEOREM Invariance == Spec => []IInv
BY InitIInv, NextIInv, PTL DEF Spec

\* The propulsor hears the beginning of the command that was asked for and
\* nothing else, whatever is asked meanwhile and however transfers end.
THEOREM CommandsAreWhole == Spec => []CommandIsWhole
<1>1. IInv => CommandIsWhole
  <2> SUFFICES ASSUME IInv, selected,
                      NEW i \in 1..Len(heard)
               PROVE  heard[i] = Frame(asked)[i - 1]
    BY DEF CommandIsWhole
  <2>1. spi.state # "IDLE"
    BY DEF IInv, Select, Exchange
  <2> QED
    BY <2>1 DEF IInv, Said
<1> QED
  BY <1>1, Invariance, PTL

\* The telemetry of the propulsor is never pieced together from two answers
\* or shifted by a byte.
THEOREM TelemetryIsAFrame == Spec => []TelemetryIsOneFrame
<1>1. IInv => TelemetryIsOneFrame
  BY DEF IInv
<1> QED
  BY <1>1, Invariance, PTL

----------------------------------------------------------------------------
(* The polls.                                                              *)

PollsOK ==
  /\ polling \in BOOLEAN
  /\ spi_turn \in BOOLEAN
  /\ reading \in [I2cSensors -> 0..GNSS_BUF_LEN]
  /\ DOMAIN telemetry = I2cSensors
  /\ orders \in 0..MaxOrders

LEMMA Names ==
  /\ I2cSensors \subseteq {"eps", "gnss", "imu", "pressure", "temperature"}
  /\ MaxOrders \in Nat
BY SensorsAssumption

LEMMA StartedOK ==
  ASSUME PollsOK, NEW s \in I2cSensors, NEW len \in 0..GNSS_BUF_LEN
  PROVE  Started(s, len) \in 0..GNSS_BUF_LEN
BY DEF PollsOK, Started

LEMMA ReadAllPolls == PollsOK /\ ReadAll => PollsOK'
<1> SUFFICES ASSUME PollsOK, ReadAll PROVE PollsOK'
  OBVIOUS
<1>1. CASE spi_turn' = FALSE /\ UNCHANGED <<polling, reading, telemetry, orders>>
  BY <1>1 DEF PollsOK
<1>2. CASE /\ ~spi_turn /\ spi_turn' = TRUE
           /\ ReadI2cSensors
           /\ UNCHANGED <<polling, telemetry, orders>>
  <2> DEFINE next(s) == CASE s = "eps"         -> EpsReadAsync
                          [] s = "gnss"        -> GnssReadAsync
                          [] s = "imu"         -> ImuReadAsync
                          [] s = "pressure"    -> PressureReadAsync
                          [] s = "temperature" -> TemperatureReadAsync
  <2>1. ASSUME NEW s \in I2cSensors PROVE next(s) \in 0..GNSS_BUF_LEN
    <3>1. /\ EPS_BUF_LEN \in 0..GNSS_BUF_LEN /\ GNSS_BUF_LEN \in 0..GNSS_BUF_LEN
          /\ 6 \in 0..GNSS_BUF_LEN /\ PRES_BUF_LEN \in 0..GNSS_BUF_LEN
          /\ TEMP_BUF_LEN \in 0..GNSS_BUF_LEN
      BY DEF EPS_BUF_LEN, GNSS_BUF_LEN, PRES_BUF_LEN, TEMP_BUF_LEN
    <3>2. CASE s = "eps"
      BY <3>1, <3>2, StartedOK DEF EpsReadAsync
    <3>3. CASE s = "gnss"
      BY <3>1, <3>3, StartedOK DEF GnssReadAsync
    <3>4. CASE s = "imu"
      BY <3>1, <3>4, StartedOK DEF ImuReadAsync
    <3>5. CASE s = "pressure"
      BY <3>1, <3>5, StartedOK DEF PressureReadAsync
    <3>6. CASE s = "temperature"
      BY <3>1, <3>6, StartedOK DEF TemperatureReadAsync
    <3> QED
      BY <3>2, <3>3, <3>4, <3>5, <3>6, Names
  <2>2. reading' = [s \in I2cSensors |-> next(s)]
    BY <1>2 DEF ReadI2cSensors
  <2> HIDE DEF next
  <2>3. reading' \in [I2cSensors -> 0..GNSS_BUF_LEN]
    BY <2>1, <2>2
  <2> QED
    BY <1>2, <2>3 DEF PollsOK
<1> QED
  BY <1>1, <1>2 DEF ReadAll, ReadPropulsor, ReadI2cSensors

LEMMA NextPolls == PollsOK /\ [Next]_vars => PollsOK'
<1> SUFFICES ASSUME PollsOK, [Next]_vars PROVE PollsOK'
  OBVIOUS
<1>1. CASE ReadAll
  BY <1>1, ReadAllPolls
<1>2. CASE Order
  BY <1>2, Names DEF Order, PollsOK
<1>3. CASE ModeChange
  <2>1. polling' \in BOOLEAN
    BY <1>3, Zenon DEF ModeChange
  <2> QED
    BY <1>3, <2>1 DEF ModeChange, PollsOK
<1>4. CASE SpiTick \/ Shift \/ ShiftLost \/ UNCHANGED vars
  <2>1. UNCHANGED polls
    BY <1>4 DEF SpiTick, CsLow, Transfer, WaitTx, WaitRx, CsHigh, Stop, In,
                Shift, ShiftLost, vars
  <2> QED
    BY <2>1 DEF PollsOK, polls
<1>5. ASSUME NEW s \in I2cSensors, ReadOk(s) \/ ReadFails(s)
      PROVE  PollsOK'
  <2>1. /\ UNCHANGED <<polling, spi_turn, orders>>
        /\ reading' = [reading EXCEPT ![s] = 0]
    BY <1>5 DEF ReadOk, ReadFails
  <2>2. reading' \in [I2cSensors -> 0..GNSS_BUF_LEN]
    BY <2>1 DEF PollsOK, GNSS_BUF_LEN
  <2>3. DOMAIN telemetry' = DOMAIN telemetry
    BY <1>5 DEF ReadOk, ReadFails
  <2> QED
    BY <2>1, <2>2, <2>3 DEF PollsOK
<1> QED
  BY <1>1, <1>2, <1>3, <1>4, <1>5 DEF Next

LEMMA InitPolls == Init => PollsOK
<1> SUFFICES ASSUME Init PROVE PollsOK
  OBVIOUS
<1>1. spi_turn = FALSE /\ polling = TRUE /\ orders = 0
      /\ telemetry = [s \in I2cSensors |-> Zeroed(s)]
      /\ reading = [s \in I2cSensors |-> 0]
  BY DEF Init
<1>2. spi_turn \in BOOLEAN /\ polling \in BOOLEAN
  BY <1>1, Zenon
<1>3. reading \in [I2cSensors -> 0..GNSS_BUF_LEN]
  BY <1>1 DEF GNSS_BUF_LEN
<1>4. DOMAIN telemetry = I2cSensors /\ orders \in 0..MaxOrders
  BY <1>1, Names
<1> QED
  BY <1>2, <1>3, <1>4 DEF PollsOK

\* Type correctness of the driver, the propulsor and the polls.
THEOREM TypeCorrect == Spec => []TypeOK
<1>1. IInv /\ PollsOK => TypeOK
  BY DEF IInv, SpiOK, DataOK, Select, PollsOK, TypeOK
<1> QED
  BY <1>1, InitPolls, NextPolls, Invariance, PTL DEF Spec


----------------------------------------------------------------------------
(* What the parsers make of the bytes of a sensor.                         *)

\* The bytes that the driver of a sensor asks for.
Asked(s) == CASE s = "eps" -> EPS_BUF_LEN [] s = "gnss" -> GNSS_BUF_LEN
              [] s = "imu" -> 6 [] s = "pressure" -> PRES_BUF_LEN
              [] s = "temperature" -> TEMP_BUF_LEN

LEMMA Measurements == \A s \in I2cSensors : Measured[s] \subseteq Measurable(s)
BY MeasuredAssumption

LEMMA Halfwords == \A n \in Nat : n < 65536 => n \in Halfword
BY DEF Halfword

\* Two bytes are a number, and the number its two bytes.
LEMMA WordOfBytes ==
  ASSUME NEW w \in Halfword
  PROVE  Word(Bytes(w)) = w
<1>0. w \in Nat
  BY DEF Halfword
<1>1. Bytes(w)[1] = w \div 256 /\ Bytes(w)[2] = w % 256
  BY DEF Bytes
<1>2. w = (w \div 256) * 256 + (w % 256)
  BY <1>0
<1> QED
  BY <1>1, <1>2 DEF Word

LEMMA EpsTrue ==
  ASSUME NEW v \in Measurable("eps")
  PROVE  Published("eps", Buffer("eps", 2, v)) = v
<1> DEFINE b == Buffer("eps", 2, v)
<1>1. v \in [1..2 -> Octet]
  BY DEF Measurable
<1>2. b[1] = v[1] /\ b[2] = v[2]
  BY DEF Buffer, Sent
<1> HIDE DEF b
<1>3. Published("eps", b) = <<v[1], v[2]>>
  BY <1>2 DEF Published, OnEpsDone, EpsParse
<1>4. <<v[1], v[2]>> = v
  BY <1>1
<1> QED
  BY <1>3, <1>4 DEF b

LEMMA PressureTrue ==
  ASSUME NEW v \in Measurable("pressure")
  PROVE  Published("pressure", Buffer("pressure", 2, v)) = v
<1> DEFINE b == Buffer("pressure", 2, v)
<1>1. v \in Halfword
  BY DEF Measurable
<1>2. b[1] = Bytes(v)[1] /\ b[2] = Bytes(v)[2]
  BY DEF Buffer, Sent
<1> HIDE DEF b
<1>3. Word(b) = Word(Bytes(v))
  BY <1>2 DEF Word
<1> QED
  BY <1>1, <1>3, WordOfBytes DEF Published, OnPressureDone, PressureParse, b

\* The sign comes back, too.
LEMMA TemperatureTrue ==
  ASSUME NEW v \in Measurable("temperature")
  PROVE  Published("temperature", Buffer("temperature", 2, v)) = v
<1> DEFINE w == (v * 16) % 65536
<1> DEFINE b == Buffer("temperature", 2, v)
<1>1. v \in Int /\ v >= -2048 /\ v <= 2047
  <2>1. v \in Degrees
    BY DEF Measurable
  <2> QED
    BY <2>1 DEF Degrees
<1>2. w = IF v >= 0 THEN v * 16 ELSE v * 16 + 65536
  BY <1>1
<1>3. b[1] = Bytes(w)[1] /\ b[2] = Bytes(w)[2]
  BY DEF Buffer, Sent
<1> HIDE DEF b, w
<1>4. w \in Halfword
  <2>1. CASE v >= 0
    <3>1. w = v * 16
      BY <1>2, <2>1
    <3>2. w \in Nat /\ w < 65536
      BY <1>1, <2>1, <3>1
    <3> QED
      BY <3>2, Halfwords
  <2>2. CASE v < 0
    <3>1. w = v * 16 + 65536
      BY <1>1, <1>2, <2>2
    <3>2. w \in Nat /\ w < 65536
      BY <1>1, <2>2, <3>1
    <3> QED
      BY <3>2, Halfwords
  <2> QED
    BY <1>1, <2>1, <2>2
<1>5. Word(b) = w
  <2>1. Word(b) = Word(Bytes(w))
    BY <1>3 DEF Word
  <2> QED
    BY <1>4, <2>1, WordOfBytes
<1>6. Signed(w) = v * 16
  BY <1>1, <1>2 DEF Signed
<1>7. (v * 16) \div 16 = v
  BY <1>1
<1> QED
  BY <1>5, <1>6, <1>7 DEF Published, OnTempDone, TemperatureParse, b

\* Four floats of four bytes, each turned round twice.
LEMMA GnssTrue ==
  ASSUME NEW v \in Measurable("gnss")
  PROVE  Published("gnss", Buffer("gnss", 18, v)) = v
<1> DEFINE b == Buffer("gnss", 18, v)
<1>1. v \in [1..4 -> [1..4 -> Octet]]
  BY DEF Measurable
<1>2. /\ DOMAIN b = 1..18
      /\ \A j \in 1..16 : b[j] = v[(j + 3) \div 4][4 - ((j - 1) % 4)]
      /\ b[17] = 0 /\ b[18] = 0
  BY DEF Buffer, Sent
<1>3. b = [i \in 1..18 |-> b[i]]
  BY DEF Buffer
<1> HIDE DEF b
<1>4. \A j \in 1..18 : b[j] \in Octet
  <2> TAKE j \in 1..18
  <2>1. CASE j \in 1..16
    <3>1. (j + 3) \div 4 \in 1..4 /\ 4 - ((j - 1) % 4) \in 1..4
      BY <2>1
    <3> QED
      BY <1>1, <1>2, <2>1, <3>1
  <2>2. CASE j \in {17, 18}
    BY <1>2, <2>2 DEF Octet
  <2> QED
    BY <2>1, <2>2
<1>5. b \in Seq(Octet) /\ Len(b) = 18
  BY <1>2, <1>3, <1>4
<1>6. ASSUME NEW i \in 1..4
      PROVE  BytesToFloat(SubSeq(b, 4 * i - 3, 4 * i)) = v[i]
  <2> DEFINE c == SubSeq(b, 4 * i - 3, 4 * i)
  <2>1. c[1] = b[4 * i - 3] /\ c[2] = b[4 * i - 2] /\ c[3] = b[4 * i - 1]
        /\ c[4] = b[4 * i]
    BY <1>5
  <2>2. /\ b[4 * i - 3] = v[i][4] /\ b[4 * i - 2] = v[i][3]
        /\ b[4 * i - 1] = v[i][2] /\ b[4 * i] = v[i][1]
    <3>1. /\ ((4 * i - 3) + 3) \div 4 = i /\ ((4 * i - 2) + 3) \div 4 = i
          /\ ((4 * i - 1) + 3) \div 4 = i /\ (4 * i + 3) \div 4 = i
          /\ ((4 * i - 3) - 1) % 4 = 0 /\ ((4 * i - 2) - 1) % 4 = 1
          /\ ((4 * i - 1) - 1) % 4 = 2 /\ (4 * i - 1) % 4 = 3
      OBVIOUS
    <3>2. /\ 4 * i - 3 \in 1..16 /\ 4 * i - 2 \in 1..16
          /\ 4 * i - 1 \in 1..16 /\ 4 * i \in 1..16
          /\ 4 - 0 = 4 /\ 4 - 1 = 3 /\ 4 - 2 = 2 /\ 4 - 3 = 1
      OBVIOUS
    <3> QED
      BY <1>2, <3>1, <3>2
  <2> HIDE DEF c
  <2>3. BytesToFloat(c) = <<v[i][1], v[i][2], v[i][3], v[i][4]>>
    BY <2>1, <2>2 DEF BytesToFloat
  <2>4. v[i] = <<v[i][1], v[i][2], v[i][3], v[i][4]>>
    BY <1>1
  <2> QED
    BY <2>3, <2>4 DEF c
<1>7. GnssParse(b) = [i \in 1..4 |-> v[i]]
  BY <1>6 DEF GnssParse
<1> QED
  BY <1>1, <1>7 DEF Published, OnGnssDone, b

\* What is published after a read of all the bytes that are asked for.
LEMMA PublishedTrue ==
  ASSUME NEW s \in I2cSensors \ {"imu"}, NEW v \in Measured[s]
  PROVE  Published(s, Buffer(s, Asked(s), v)) = v
<1>1. v \in Measurable(s)
  BY Measurements
<1>2. CASE s = "eps"
  BY <1>1, <1>2, EpsTrue DEF Asked, EPS_BUF_LEN
<1>3. CASE s = "gnss"
  BY <1>1, <1>3, GnssTrue DEF Asked, GNSS_BUF_LEN
<1>4. CASE s = "pressure"
  BY <1>1, <1>4, PressureTrue DEF Asked, PRES_BUF_LEN
<1>5. CASE s = "temperature"
  BY <1>1, <1>5, TemperatureTrue DEF Asked, TEMP_BUF_LEN
<1> QED
  BY <1>2, <1>3, <1>4, <1>5, Names

\* A read under way is one of all the bytes that its parser needs.
ReadsAreWhole == \A s \in I2cSensors : reading[s] \in {0, Asked(s)}

TrueInv == PollsOK /\ ReadsAreWhole /\ TelemetryIsTrue

LEMMA PolledTrue == TrueInv /\ ReadAll => TrueInv'
<1> SUFFICES ASSUME TrueInv, ReadAll PROVE TrueInv'
  OBVIOUS
<1>1. PollsOK' /\ telemetry' = telemetry
  BY ReadAllPolls DEF TrueInv, ReadAll, ReadPropulsor, ReadI2cSensors
<1>2. TelemetryIsTrue'
  BY <1>1 DEF TrueInv, TelemetryIsTrue
<1>3. ReadsAreWhole'
  <2>1. CASE UNCHANGED reading
    BY <2>1 DEF TrueInv, ReadsAreWhole
  <2>2. CASE ReadI2cSensors
    <3> SUFFICES ASSUME NEW s \in I2cSensors
                 PROVE  reading'[s] \in {0, Asked(s)}
      BY DEF ReadsAreWhole
    <3>1. reading[s] \in {0, Asked(s)}
      BY DEF TrueInv, ReadsAreWhole
    <3>2. Started(s, Asked(s)) = Asked(s)
      BY <3>1 DEF Started
    <3>3. reading'[s] = CASE s = "eps"         -> EpsReadAsync
                          [] s = "gnss"        -> GnssReadAsync
                          [] s = "imu"         -> ImuReadAsync
                          [] s = "pressure"    -> PressureReadAsync
                          [] s = "temperature" -> TemperatureReadAsync
      BY <2>2 DEF ReadI2cSensors
    <3>4. reading'[s] = Started(s, Asked(s))
      BY <3>3, Names
         DEF Asked, EpsReadAsync, GnssReadAsync, ImuReadAsync,
             PressureReadAsync, TemperatureReadAsync
    <3> QED
      BY <3>2, <3>4
  <2> QED
    BY <2>1, <2>2 DEF ReadAll, ReadPropulsor
<1> QED
  BY <1>1, <1>2, <1>3 DEF TrueInv

LEMMA ReadTrue ==
  ASSUME TrueInv, NEW s \in I2cSensors, ReadOk(s)
  PROVE  TelemetryIsTrue'
<1>1. PICK v \in Measured[s] :
        telemetry' = [telemetry EXCEPT
                        ![s] = Published(s, Buffer(s, reading[s], v))]
  BY DEF ReadOk
<1>2. reading[s] = Asked(s)
  BY DEF TrueInv, ReadsAreWhole, ReadOk
<1>3. s # "imu" => telemetry'[s] = v
  <2>1. telemetry'[s] = Published(s, Buffer(s, Asked(s), v))
    BY <1>1, <1>2 DEF TrueInv, PollsOK
  <2> QED
    BY <2>1, PublishedTrue
<1>4. \A t \in I2cSensors : t # s => telemetry'[t] = telemetry[t]
  BY <1>1 DEF TrueInv, PollsOK
<1> SUFFICES ASSUME NEW t \in I2cSensors \ {"imu"}
             PROVE  telemetry'[t] = Zeroed(t) \/ telemetry'[t] \in Measured[t]
  BY DEF TelemetryIsTrue
<1>5. CASE t = s
  BY <1>3, <1>5
<1>6. CASE t # s
  BY <1>4, <1>6 DEF TrueInv, TelemetryIsTrue
<1> QED
  BY <1>5, <1>6

LEMMA NextTrue == TrueInv /\ [Next]_vars => TrueInv'
<1> SUFFICES ASSUME TrueInv, [Next]_vars PROVE TrueInv'
  OBVIOUS
<1>1. PollsOK'
  BY NextPolls DEF TrueInv
<1>2. CASE ReadAll
  BY <1>2, PolledTrue
<1>3. CASE Order \/ ModeChange \/ SpiTick \/ Shift \/ ShiftLost \/ UNCHANGED vars
  <2>1. UNCHANGED <<reading, telemetry>>
    BY <1>3 DEF Order, ModeChange, SpiTick, CsLow, Transfer, WaitTx, WaitRx, CsHigh, Stop,
                In, Shift, ShiftLost, vars, polls
  <2> QED
    BY <1>1, <2>1 DEF TrueInv, ReadsAreWhole, TelemetryIsTrue
<1>4. ASSUME NEW s \in I2cSensors, ReadOk(s) \/ ReadFails(s)
      PROVE  TrueInv'
  <2>1. reading' = [reading EXCEPT ![s] = 0]
    BY <1>4 DEF ReadOk, ReadFails
  <2>2. ReadsAreWhole'
    BY <2>1 DEF TrueInv, PollsOK, ReadsAreWhole
  <2>3. TelemetryIsTrue'
    <3>1. CASE ReadOk(s)
      BY <3>1, ReadTrue
    <3>2. CASE ReadFails(s)
      BY <3>2 DEF ReadFails, TrueInv, TelemetryIsTrue
    <3> QED
      BY <1>4, <3>1, <3>2
  <2> QED
    BY <1>1, <2>2, <2>3 DEF TrueInv
<1> QED
  BY <1>2, <1>3, <1>4 DEF Next

\* What is published of a sensor other than the IMU is what it measured, for
\* every value that fits its bytes: the bytes asked for suffice for the parser,
\* and its byte order and sign are those of the sensor.
THEOREM TelemetryIsMeasured == Spec => []TelemetryIsTrue
<1>1. Init => TrueInv
  <2> SUFFICES ASSUME Init PROVE TrueInv
    OBVIOUS
  <2>1. PollsOK
    BY InitPolls
  <2>2. ReadsAreWhole
    BY DEF Init, ReadsAreWhole
  <2>3. TelemetryIsTrue
    BY DEF Init, TelemetryIsTrue
  <2> QED
    BY <2>1, <2>2, <2>3 DEF TrueInv
<1>2. TrueInv => TelemetryIsTrue
  BY DEF TrueInv
<1> QED
  BY <1>1, <1>2, NextTrue, PTL DEF Spec
=============================================================================
