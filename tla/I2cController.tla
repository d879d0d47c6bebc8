---------------------------- MODULE I2cController ----------------------------
(***************************************************************************)
(* The I2C driver (I2cBus) on its controller (hal_i2c.c): the receive      *)
(* register between the bus and the driver, the stop condition, and what   *)
(* hal_i2c_bus_recovery does for a bus that a slave holds down.            *)
(*                                                                         *)
(* Every step of the driver is a step of I2cBus.  Once a read has been     *)
(* started the controller takes byte after byte, one ahead of the driver,  *)
(* and waits while the register is full.  The driver commands the stop     *)
(* after the last byte, so that one byte too many comes in.                *)
(*                                                                         *)
(* A slave that is cut off in the middle of a byte still has bits to send, *)
(* and holds SDA low if the present one is 0.  It moves on with each clock *)
(* and gives up at a start or a stop condition, and at the end of the byte,*)
(* which nobody acknowledges.  While SDA is low there is no start.         *)
(***************************************************************************)
EXTENDS I2cBus

CONSTANTS
  BITS,       \* bits of a byte
  CLOCKS,     \* clocks of hal_i2c_bus_recovery
  MaxFaults   \* bound: how often a slave is cut off

ASSUME ControllerAssumption ==
  /\ BITS \in Nat \ {0}
  /\ CLOCKS \in Nat /\ CLOCKS > BITS
  /\ MaxFaults \in Nat

VARIABLES
  polling,    \* the present mode polls: it is nominal or safe
  rxrdy,      \* the register holds a byte that has not been read
  rhr,        \* which one: its number in the present read, or Stale
  sent,       \* bytes that the slave has sent in the present read
  receiving,  \* the controller takes in bytes
  slave,      \* of a slave that was cut off: bits left to send, SDA held low
  misplaced,  \* history: a byte was stored in a place not its own
  faults

register   == <<rxrdy, rhr, sent, receiving>>
controller == <<register, slave, misplaced, faults>>
cvars      == <<vars, polling, controller>>

Stale == 0
Free  == [left |-> 0, low |-> FALSE]

ControllerTypeOK ==
  /\ TypeOK
  /\ polling \in BOOLEAN
  /\ rxrdy \in BOOLEAN /\ rhr \in Nat /\ sent \in Nat
  /\ receiving \in BOOLEAN
  /\ slave \in [left : 0..BITS, low : BOOLEAN]
  /\ slave.left = 0 => ~slave.low
  /\ misplaced \in BOOLEAN
  /\ faults \in 0..MaxFaults

ControllerInit ==
  /\ Init
  /\ polling = TRUE
  /\ rxrdy = FALSE /\ rhr = Stale /\ sent = 0 /\ receiving = FALSE
  /\ slave = Free
  /\ misplaced = FALSE
  /\ faults = 0

----------------------------------------------------------------------------
(* hal_i2c.c.                                                              *)

\* A variant that leaves a byte of an earlier read in the register.
RhrKept == UNCHANGED rxrdy

\* hal_i2c_start and hal_i2c_restart_read read RHR.
RhrCleared == rxrdy' = FALSE

\* A start condition, unless SDA is low.
Start == slave' = IF slave.low THEN slave ELSE Free

\* The slave after hal_i2c_stop.  The controller stops, or is reset because it
\* has not done so in time; the slave may then be left in the middle of a byte.
Stopped ==
  {slave} \cup (IF receiving /\ slave = Free /\ faults < MaxFaults
                THEN [left : 1..BITS, low : BOOLEAN] ELSE {})

Counted(s) == faults' = IF s = slave THEN faults ELSE faults + 1

\* hal_i2c_stop.
StopCondition ==
  /\ receiving' = FALSE
  /\ rhr' = Stale
  /\ slave' \in Stopped
  /\ rxrdy' = FALSE \/ UNCHANGED <<rxrdy, slave>>
  /\ Counted(slave')
  /\ UNCHANGED <<sent, misplaced>>

\* After the clocks: SDA is high, which ends them early, or they were all
\* there are.
AfterClocks(before) ==
  {s \in [left : 0..BITS, low : BOOLEAN] :
     IF before.left = 0 THEN s = Free
     ELSE /\ s.left < before.left /\ before.left - s.left <= CLOCKS
          /\ s.low => before.left - s.left = CLOCKS /\ s.left > 0}

\* The stop by hand begins with another falling clock: the slave goes on to
\* its next bit, and if that is 0 SDA does not rise.
AfterStop(s) ==
  {Free} \cup (IF s.left > 1 THEN {[left |-> s.left - 1, low |-> TRUE]} ELSE {})

\* A variant that resets the controller only.
RecoveryByReset ==
  /\ rxrdy' = FALSE /\ rhr' = Stale /\ receiving' = FALSE
  /\ slave' \in Stopped /\ Counted(slave')
  /\ UNCHANGED <<sent, misplaced>>

\* The third failure in a row: hal_i2c_stop, then hal_i2c_bus_recovery.
Recovery ==
  /\ rxrdy' = FALSE /\ rhr' = Stale /\ receiving' = FALSE
  /\ \E before \in Stopped :
       /\ \E s \in AfterClocks(before) : slave' \in AfterStop(s)
       /\ Counted(before)
  /\ UNCHANGED <<sent, misplaced>>

----------------------------------------------------------------------------
(* The driver on the controller.                                           *)

\* sensors_read_all, in a mode that calls it.
Poll == polling /\ ReadAll /\ UNCHANGED <<polling, controller>>

\* A turn ends in another mode (getMode).  Communication, OTA and ultra low
\* power mode go on ticking, but poll nothing, for as long as they last.
ModeChange ==
  /\ turn = 1
  /\ polling' = ~polling
  /\ UNCHANGED <<vars, controller>>

Quiet(i) ==
  /\ Idle(i) \/ Blocked(i) \/ Read(i)
  /\ UNCHANGED controller

Begins(i) ==
  /\ Acquire(i)
  /\ RhrCleared
  /\ UNCHANGED <<rhr, sent, receiving, slave, misplaced, faults>>

Addresses(i) ==
  /\ SelectMode(i)
  /\ state'[i] = "RESTART"
  /\ Start
  /\ UNCHANGED <<register, misplaced, faults>>

\* hal_i2c_restart_read.
Restarts(i) ==
  /\ Restart(i)
  /\ state'[i] = "WAIT_RESTART"
  /\ RhrCleared
  /\ Start
  /\ receiving' = ~slave.low
  /\ sent' = 0
  /\ UNCHANGED <<rhr, misplaced, faults>>

Turns(i) ==
  /\ WaitRestart(i)
  /\ state'[i] = "READ"
  /\ UNCHANGED controller

Waits(i) ==
  /\ \/ Restart(i)
     \/ WaitRx(i) /\ ~rxrdy
  /\ state'[i] = state[i]
  /\ UNCHANGED controller

\* hal_i2c_read_byte.
Takes(i) ==
  /\ rxrdy
  /\ WaitRx(i)
  /\ state'[i] \in {"READ", "STOP"}
  /\ rxrdy' = FALSE
  /\ misplaced' = (misplaced \/ rhr # index[i] + 1)
  /\ UNCHANGED <<rhr, sent, receiving, slave, faults>>

Fails(i) ==
  /\ \/ SelectMode(i) \/ Restart(i) \/ WaitRestart(i)
     \/ WaitRx(i) /\ ~rxrdy
  /\ state'[i] = "IDLE"
  /\ IF error_count[i] = 2 THEN Recovery ELSE StopCondition

Ends(i) == Stop(i) /\ StopCondition

\* The next byte, when there is room for it.
ByteArrives ==
  /\ receiving /\ ~rxrdy
  /\ rxrdy' = TRUE
  /\ sent' = sent + 1
  /\ rhr' = sent + 1
  /\ UNCHANGED <<vars, polling, receiving, slave, misplaced, faults>>

ControlledTick(i) ==
  \/ Quiet(i) \/ Begins(i) \/ Addresses(i) \/ Restarts(i) \/ Turns(i)
  \/ Waits(i) \/ Takes(i) \/ Fails(i) \/ Ends(i)

TickAll == UNCHANGED polling /\ \E i \in Handle : ControlledTick(i)

ControllerNext == Poll \/ ModeChange \/ TickAll \/ ByteArrives

ControllerSpec == ControllerInit /\ [][ControllerNext]_cvars

\* The super-loop ticks the handles in every mode, and polls again and again
\* while a polling mode lasts: between two turns (turn = 1), so that a poll is
\* not enabled all the time.  Nothing makes the mode change.
FairControllerSpec == ControllerSpec /\ WF_cvars(TickAll) /\ SF_cvars(Poll)

----------------------------------------------------------------------------
(* Properties.                                                             *)

\* Every byte is stored in its place, although each read leaves a byte too
\* many in the register, and a failed one may leave its last.
BytesInPlace == ~misplaced

\* A bus that a slave holds down gets free again, if a polling mode lasts.  One
\* recovery may not be enough: it ends its clocks at the first bit that is 1,
\* and the stop that follows does not come about if the next one is 0.  Only a
\* read that fails recovers the bus: in communication mode, which may last for
\* ever (once set, COMM_WINDOW_OPEN stays set), it stays as it is.
StuckBusIsFreed == <>[]polling => (slave.low ~> ~slave.low)
=============================================================================
