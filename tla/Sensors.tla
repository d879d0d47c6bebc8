------------------------------- MODULE Sensors -------------------------------
(***************************************************************************)
(* The polls of the sensors (sensors.c), the SPI driver (spi_driver.c) and *)
(* the propulsor that is read and commanded through it (propulsor.c), and  *)
(* what the five I2C sensors make of the bytes they have read.  How those  *)
(* bytes come over the bus is I2cBus; here a read of theirs ends when it   *)
(* likes, with data or without.                                            *)
(*                                                                         *)
(* The propulsor answers while it listens: with the byte of its frame that *)
(* belongs to the number of bytes it has been sent since its chip select   *)
(* fell.  A byte of an answer is <<transfer, k>>; it is "now" if it was    *)
(* sent in the present transfer, "old" if it was left over from an earlier *)
(* one.  The SPI controller takes its time, and may lose a byte.           *)
(***************************************************************************)
EXTENDS Integers, Sequences, FiniteSets

CONSTANTS
  SPI_TIMEOUT_MAX,    \* ticks the driver waits for the controller
  PROPULSOR_BUF_LEN,  \* bytes after the first of a transfer
  Commands,           \* what is asked of the propulsor
  I2cSensors,         \* the sensors on the I2C bus
  Measured,           \* Measured[s]: values that sensor s may measure
  MaxOrders           \* bound: commands other than READ

PropCommands == {"READ", "VALVE_OPEN", "VALVE_CLOSE", "SET_THRUST"}

ASSUME SensorsAssumption ==
  /\ SPI_TIMEOUT_MAX \in Nat
  /\ PROPULSOR_BUF_LEN \in Nat \ {0}
  /\ Commands \subseteq PropCommands /\ "READ" \in Commands
  /\ I2cSensors \subseteq
       {"eps", "gnss", "imu", "pressure", "temperature"}
  /\ MaxOrders \in Nat

VARIABLES
  spi,          \* the handle: state, index, timeout
  tx_buf, rx_buf,
  asked,        \* history: the command of the present transfer
  propulsor,    \* the telemetry: the bytes it was made of
  selected,     \* the chip select of the propulsor is low
  heard,        \* bytes that the propulsor has taken since it was selected
  tdr,          \* the byte that the controller has to shift, or Empty
  rdr,          \* its receive register: an answer, or NoByte
  polling,      \* the present mode polls: it is nominal or safe
  spi_turn,     \* the next poll is for the propulsor
  reading,      \* reading[s]: bytes of the read under way, 0 if there is none
  telemetry,    \* telemetry[s] of each I2C sensor
  orders        \* counter for the bound

driver     == <<spi, tx_buf, rx_buf, asked, propulsor>>
controller == <<selected, heard, tdr, rdr>>
polls      == <<polling, spi_turn, reading, telemetry, orders>>
vars       == <<driver, controller, polls>>

Index == 0..PROPULSOR_BUF_LEN
Last  == PROPULSOR_BUF_LEN

NoByte == <<"none", 0>>
Answer == {"now", "old"} \X Index

SpiStates == {"IDLE", "CS_LOW", "TRANSFER", "WAIT_TX", "WAIT_RX", "CS_HIGH",
              "STOP"}

----------------------------------------------------------------------------
(* propulsor.c.                                                            *)

HI == 256      \* the two bytes of a thrust set point
LO == 257
Empty == 258   \* no byte

\* What the commands put into tx_buf.
Frame(cmd) ==
  [k \in Index |->
     CASE cmd = "READ"        -> IF k = 0 THEN 1 ELSE 0
       [] cmd = "VALVE_OPEN"  -> IF k = 0 THEN 2 ELSE 255
       [] cmd = "VALVE_CLOSE" -> IF k = 0 THEN 3 ELSE 255
       [] cmd = "SET_THRUST"  -> CASE k = 0 -> 4 [] k = 1 -> HI [] k = 2 -> LO
                                   [] OTHER -> 255]

Aged(b) == IF b = NoByte THEN b ELSE <<"old", b[2]>>

\* A variant that fills tx_buf before it looks at the handle.
BeginAtOnce(cmd) ==
  /\ tx_buf' = Frame(cmd)
  /\ IF spi.state = "IDLE"
     THEN /\ spi' = [state |-> "CS_LOW", index |-> 0, timeout |-> 0]
          /\ rx_buf' = [k \in Index |-> Aged(rx_buf[k])]
          /\ rdr' = Aged(rdr)
          /\ asked' = cmd
     ELSE UNCHANGED <<spi, rx_buf, rdr, asked>>
  /\ UNCHANGED <<propulsor, selected, heard, tdr>>

\* A call that finds the handle busy does nothing; otherwise the transfer of
\* 1 + PROPULSOR_BUF_LEN bytes begins (spi_transfer_async).
Begin(cmd) ==
  IF spi.state # "IDLE" THEN UNCHANGED <<driver, controller>>
  ELSE /\ tx_buf' = Frame(cmd)
       /\ spi' = [state |-> "CS_LOW", index |-> 0, timeout |-> 0]
       /\ rx_buf' = [k \in Index |-> Aged(rx_buf[k])]
       /\ rdr' = Aged(rdr)
       /\ asked' = cmd
       /\ UNCHANGED <<propulsor, selected, heard, tdr>>

\* A byte that has outlasted the timeout is gone, or lost, long before the
\* next transfer begins.
ControllerFree == spi.state = "IDLE" => tdr = Empty

\* propulsor_valve_open, propulsor_valve_close, propulsor_set_thrust.
Order ==
  /\ orders < MaxOrders /\ orders' = orders + 1
  /\ \E cmd \in Commands \ {"READ"} : Begin(cmd)
  /\ ControllerFree
  /\ UNCHANGED <<polling, spi_turn, reading, telemetry>>

\* on_propulsor_done(0): the bytes after the first are the telemetry if their
\* checksum is right.  It is compared with the byte behind rx_buf, which may
\* be anything.
Parse ==
  \/ propulsor' = [k \in 1..Last |-> rx_buf[k]]
  \/ UNCHANGED propulsor

----------------------------------------------------------------------------
(* spi_driver.c: one action for each state of the handle.                  *)

In(s) == spi.state = s /\ UNCHANGED <<tx_buf, asked, polls>>

\* A variant that leaves the receive register as it is.
CsLowUnprepared ==
  /\ In("CS_LOW")
  /\ selected' = TRUE /\ heard' = <<>>
  /\ spi' = [spi EXCEPT !.state = "TRANSFER"]
  /\ UNCHANGED <<rx_buf, propulsor, tdr, rdr>>

\* hal_spi_cs_low empties the receive register first.
CsLow ==
  /\ In("CS_LOW")
  /\ rdr' = NoByte
  /\ selected' = TRUE
  /\ heard' = IF selected THEN heard ELSE <<>>
  /\ spi' = [spi EXCEPT !.state = "TRANSFER"]
  /\ UNCHANGED <<rx_buf, propulsor, tdr>>

Transfer ==
  /\ In("TRANSFER")
  /\ tdr' = tx_buf[spi.index]
  /\ spi' = [spi EXCEPT !.state = "WAIT_TX"]
  /\ UNCHANGED <<rx_buf, propulsor, selected, heard, rdr>>

NotReadyForever == UNCHANGED <<spi, selected>>

\* Not ready: one more tick, or the end of the transfer (callback(-1)).
NotReady ==
  IF spi.timeout + 1 > SPI_TIMEOUT_MAX
  THEN /\ spi' = [spi EXCEPT !.state = "IDLE", !.timeout = 0]
       /\ selected' = FALSE
  ELSE /\ spi' = [spi EXCEPT !.timeout = @ + 1]
       /\ UNCHANGED selected

\* The transmit register is free as soon as its byte is being shifted.
WaitTx ==
  /\ In("WAIT_TX")
  /\ \/ spi' = [spi EXCEPT !.state = "WAIT_RX", !.timeout = 0]
        /\ UNCHANGED selected
     \/ tdr # Empty /\ NotReady
  /\ UNCHANGED <<rx_buf, propulsor, heard, tdr, rdr>>

WaitRx ==
  /\ In("WAIT_RX")
  /\ IF rdr = NoByte
     THEN NotReady /\ UNCHANGED <<rx_buf, rdr>>
     ELSE /\ rx_buf' = [rx_buf EXCEPT ![spi.index] = rdr]
          /\ rdr' = NoByte
          /\ spi' = [state |-> IF spi.index + 1 >= 1 + PROPULSOR_BUF_LEN
                               THEN "CS_HIGH" ELSE "TRANSFER",
                     index |-> spi.index + 1, timeout |-> 0]
          /\ UNCHANGED selected
  /\ UNCHANGED <<propulsor, heard, tdr>>

CsHigh ==
  /\ In("CS_HIGH")
  /\ selected' = FALSE
  /\ spi' = [spi EXCEPT !.state = "STOP"]
  /\ UNCHANGED <<rx_buf, propulsor, heard, tdr, rdr>>

Stop ==
  /\ In("STOP")
  /\ Parse
  /\ spi' = [spi EXCEPT !.state = "IDLE"]
  /\ UNCHANGED <<rx_buf, controller>>

\* A tick of an idle handle does nothing.
SpiTick == CsLow \/ Transfer \/ WaitTx \/ WaitRx \/ CsHigh \/ Stop

----------------------------------------------------------------------------
(* The controller and the propulsor.                                       *)

\* A byte goes out and one comes in, over one that was not read.
Shift ==
  /\ tdr # Empty
  /\ tdr' = Empty
  /\ IF selected /\ Len(heard) <= Last
     THEN /\ heard' = Append(heard, tdr)
          /\ rdr' = <<"now", Len(heard)>>
     ELSE heard' = heard /\ rdr' = <<"old", 0>>     \* nobody answers
  /\ UNCHANGED <<driver, selected, polls>>

\* The controller loses the byte.
ShiftLost ==
  /\ tdr # Empty
  /\ tdr' = Empty
  /\ UNCHANGED <<driver, selected, heard, rdr, polls>>

----------------------------------------------------------------------------
(* The I2C sensors.  Their handles are I2cBus's: all that is kept here is   *)
(* whether one is busy, and how many bytes it reads.                       *)

EPS_BUF_LEN == 2
GNSS_BUF_LEN == 18
IMU_BUF_LEN == 18
PRES_BUF_LEN == 2
TEMP_BUF_LEN == 2

\* A call that finds the handle busy does nothing.
Started(s, len) == IF reading[s] # 0 THEN reading[s] ELSE len

EpsReadAsync         == Started("eps", EPS_BUF_LEN)
GnssReadAsync        == Started("gnss", GNSS_BUF_LEN)
ImuReadAsync         == Started("imu", 6)
PressureReadAsync    == Started("pressure", PRES_BUF_LEN)
TemperatureReadAsync == Started("temperature", TEMP_BUF_LEN)

\* A 16-bit number, and the same as the processor sees it in an int16_t.
Word(b)   == b[1] * 256 + b[2]
Signed(w) == IF w >= 32768 THEN w - 65536 ELSE w

\* Volts times 10 and amperes times 100.
EpsParse(b) == <<b[1], b[2]>>

\* Four floats; a float is its four bytes as they lie in memory.
BytesToFloat(b) == <<b[4], b[3], b[2], b[1]>>
GnssParse(b) ==
  [i \in 1..4 |-> BytesToFloat(SubSeq(b, 4 * i - 3, 4 * i))]

\* Accelerometer, gyroscope and magnetometer, times 100: a byte for each axis.
ImuParse(b) == SubSeq(b, 1, 9)

PressureParse(b) == Word(b)

\* Variant: the sign is lost.
TemperatureParseUnsigned(b) == Word(b) \div 16

\* Sixteenths of a degree: an arithmetic shift (\div rounds downwards).
TemperatureParse(b) == Signed(Word(b)) \div 16

\* The end of a read without an error.
OnEpsDone(b)      == EpsParse(b)
OnGnssDone(b)     == GnssParse(b)
OnImuDone(b)      == ImuParse(b)
OnPressureDone(b) == PressureParse(b)
OnTempDone(b)     == TemperatureParse(b)

Published(s, b) ==
  CASE s = "eps"         -> OnEpsDone(b)
    [] s = "gnss"        -> OnGnssDone(b)
    [] s = "imu"         -> OnImuDone(b)
    [] s = "pressure"    -> OnPressureDone(b)
    [] s = "temperature" -> OnTempDone(b)

\* How a sensor sends what it has measured.  The IMU has two bytes for each
\* axis, in two's complement; the three of its accelerometer come first.
Bytes(w) == <<w \div 256, w % 256>>
Sent(s, v) ==
  CASE s = "eps"         -> v
    [] s = "gnss"        -> [i \in 1..18 |->
                               IF i > 16 THEN 0
                               ELSE v[(i + 3) \div 4][4 - ((i - 1) % 4)]]
    [] s = "imu"         -> [i \in 1..6 |->
                               Bytes(v[(i + 1) \div 2] % 65536)[2 - (i % 2)]]
    [] s = "pressure"    -> Bytes(v)
    [] s = "temperature" -> Bytes((v * 16) % 65536)

\* What fits the bytes of a sensor: the temperature has 12 bits.
Octet    == 0..255
Halfword == {w \in Nat : w < 65536}
Short    == {v \in Int : -32768 <= v /\ v < 32768}
Degrees  == {v \in Int : -2048 <= v /\ v < 2048}
Measurable(s) ==
  CASE s = "eps"         -> [1..2 -> Octet]
    [] s = "gnss"        -> [1..4 -> [1..4 -> Octet]]
    [] s = "imu"         -> [1..3 -> Short]
    [] s = "pressure"    -> Halfword
    [] s = "temperature" -> Degrees

ASSUME MeasuredAssumption ==
  \A s \in I2cSensors : Measured[s] \subseteq Measurable(s)

\* The receive buffer of sensor s, in which nothing but n bytes is ever
\* written: it is 0 behind them.
Buffer(s, n, v) == [i \in 1..18 |-> IF i <= n THEN Sent(s, v)[i] ELSE 0]

\* The structure before the first read.
Zeroed(s) == Published(s, [i \in 1..18 |-> 0])

ReadOk(s) ==
  /\ reading[s] # 0
  /\ reading' = [reading EXCEPT ![s] = 0]
  /\ \E v \in Measured[s] :
       telemetry' = [telemetry EXCEPT
                       ![s] = Published(s, Buffer(s, reading[s], v))]
  /\ UNCHANGED <<driver, controller, polling, spi_turn, orders>>

ReadFails(s) ==
  /\ reading[s] # 0
  /\ reading' = [reading EXCEPT ![s] = 0]
  /\ UNCHANGED <<driver, controller, polling, spi_turn, telemetry, orders>>

----------------------------------------------------------------------------
(* sensors_read_all, the modes that call it, and the whole.                *)

ReadPropulsor ==
  /\ spi_turn
  /\ ControllerFree
  /\ Begin("READ")
  /\ spi_turn' = FALSE
  /\ UNCHANGED <<polling, reading, telemetry, orders>>

ReadI2cSensors ==
  /\ ~spi_turn
  /\ reading' = [s \in I2cSensors |->
                   CASE s = "eps"         -> EpsReadAsync
                     [] s = "gnss"        -> GnssReadAsync
                     [] s = "imu"         -> ImuReadAsync
                     [] s = "pressure"    -> PressureReadAsync
                     [] s = "temperature" -> TemperatureReadAsync]
  /\ spi_turn' = TRUE
  /\ UNCHANGED <<driver, controller, polling, telemetry, orders>>

ReadAll == polling /\ (ReadPropulsor \/ ReadI2cSensors)

\* A turn ends in another mode (getMode).  Communication, OTA and ultra low
\* power mode go on ticking, but poll nothing, for as long as they last.
ModeChange ==
  /\ polling' = ~polling
  /\ UNCHANGED <<driver, controller, spi_turn, reading, telemetry, orders>>

Init ==
  /\ spi = [state |-> "IDLE", index |-> 0, timeout |-> 0]
  /\ tx_buf = [k \in Index |-> 0]
  /\ rx_buf = [k \in Index |-> NoByte]
  /\ asked = "READ"
  /\ propulsor = [k \in 1..Last |-> NoByte]
  /\ selected = FALSE /\ heard = <<>> /\ tdr = Empty /\ rdr = NoByte
  /\ polling = TRUE /\ spi_turn = FALSE
  /\ reading = [s \in I2cSensors |-> 0]
  /\ telemetry = [s \in I2cSensors |-> Zeroed(s)]
  /\ orders = 0

Next ==
  \/ ReadAll \/ ModeChange \/ Order
  \/ SpiTick
  \/ Shift \/ ShiftLost
  \/ \E s \in I2cSensors : ReadOk(s) \/ ReadFails(s)

Spec == Init /\ [][Next]_vars

\* The super-loop turns: every mode that lasts ticks the driver, and a polling
\* one that lasts polls again.  Nothing makes the mode change.
Fairness == WF_vars(SpiTick) /\ WF_vars(ReadAll) /\ WF_vars(Shift \/ ShiftLost)

FairSpec == Spec /\ Fairness

----------------------------------------------------------------------------
(* Properties.                                                             *)

TypeOK ==
  /\ spi.state \in SpiStates /\ spi.index \in 0..(Last + 1)
  /\ spi.timeout \in 0..SPI_TIMEOUT_MAX
  /\ tx_buf \in [Index -> 0..LO]
  /\ rx_buf \in [Index -> Answer \cup {NoByte}]
  /\ asked \in PropCommands
  /\ propulsor \in [1..Last -> Answer \cup {NoByte}]
  /\ selected \in BOOLEAN
  /\ heard \in Seq(0..LO) /\ Len(heard) <= Last + 1
  /\ tdr \in 0..Empty
  /\ rdr \in Answer \cup {NoByte}
  /\ polling \in BOOLEAN /\ spi_turn \in BOOLEAN
  /\ reading \in [I2cSensors -> 0..GNSS_BUF_LEN]
  /\ DOMAIN telemetry = I2cSensors
  /\ orders \in 0..MaxOrders

\* The telemetry of the propulsor is one answer of it, every byte in its
\* place, although bytes get lost and late ones stay in the controller.
TelemetryIsOneFrame ==
  \/ propulsor = [k \in 1..Last |-> NoByte]
  \/ propulsor = [k \in 1..Last |-> <<"now", k>>]

\* What the propulsor has heard since it was selected is the beginning of the
\* command that was asked for, whatever else is asked meanwhile.
CommandIsWhole ==
  selected => \A i \in 1..Len(heard) : heard[i] = Frame(asked)[i - 1]

\* What is published of a sensor is what it measured: the bytes that the read
\* asks for suffice for what the parser takes out of them, in its byte order
\* and sign.  Not of the IMU: it sends two signed bytes for each axis of the
\* accelerometer, and imu_parse takes each byte for an unsigned axis, the
\* last three for the gyroscope's, and bytes nobody asked for for the
\* magnetometer's.
TelemetryIsTrue ==
  \A s \in I2cSensors \ {"imu"} :
    telemetry[s] = Zeroed(s) \/ telemetry[s] \in Measured[s]

\* As long as a polling mode lasts, propulsor and I2C sensors are read again
\* and again: a poll that comes too early, and a controller that has lost a
\* byte, silence neither for good.  Other modes poll nothing, and communication
\* mode may last for ever (once set, COMM_WINDOW_OPEN stays set).
EverySensorIsPolled ==
  <>[]polling =>
    /\ []<>(spi.state = "CS_LOW" /\ asked = "READ")
    /\ \A s \in I2cSensors : []<>(reading[s] # 0)
=============================================================================
