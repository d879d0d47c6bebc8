------------------------------- MODULE I2cBus -------------------------------
(***************************************************************************)
(* The I2C bus shared by the five sensors (EPS, GNSS, IMU, pressure,       *)
(* temperature): i2c_driver.c with one handle per sensor.  sensors_tick    *)
(* ticks the handles in a fixed order, once in each turn of the            *)
(* super-loop; sensors_read_all, which runs between two turns, asks every  *)
(* idle handle for a register read.  bus_locked is the only thing that     *)
(* keeps two transfers apart.                                              *)
(*                                                                         *)
(* Whether the device acknowledges and whether the controller is ready are *)
(* free choices at every tick.  All sensors do register reads (use_reg =   *)
(* rw = 1), so the write states of the driver are never entered.           *)
(***************************************************************************)
EXTENDS Naturals

CONSTANTS
  N,               \* number of handles; handle i is the i-th to be ticked
  Len,             \* Len[i]: the bytes that handle i reads
  I2C_TIMEOUT_MAX  \* ticks the driver waits for the controller

Handle == 1..N

ASSUME BusAssumption ==
  /\ N \in Nat \ {0}
  /\ Len \in [Handle -> Nat \ {0}]
  /\ I2C_TIMEOUT_MAX \in Nat

VARIABLES
  turn,         \* the handle that is ticked next
  state, index, timeout, error_count,  \* fields of each handle
  bus_locked,   \* the driver's lock
  bus_free,     \* what hal_i2c_bus_free answers
  active_addr,  \* the device that was addressed last, 0 after a stop
  held,         \* history: ticks for which the present transfer has run
  passed        \* history: passed[i] have had the bus while i waits for it

hvars == <<state, index, timeout, error_count>>
bus   == <<bus_locked, bus_free, active_addr, held, passed>>
vars  == <<turn, hvars, bus>>

InTransfer == {"SELECT_MODE", "RESTART", "WAIT_RESTART", "READ", "WAIT_RX",
               "STOP"}

\* The longest transfer: the restart and each byte just escape the timeout.
MaxHold(i) ==
  4 + I2C_TIMEOUT_MAX + Len[i] * (I2C_TIMEOUT_MAX + 2)

TypeOK ==
  /\ turn \in Handle
  /\ state \in [Handle -> InTransfer \cup {"IDLE", "STARTING"}]
  /\ index \in [Handle -> Nat]
  /\ \A i \in Handle : index[i] <= Len[i]
  /\ timeout \in [Handle -> 0..I2C_TIMEOUT_MAX]
  /\ error_count \in [Handle -> 0..2]
  /\ bus_locked \in BOOLEAN
  /\ bus_free \in BOOLEAN
  /\ active_addr \in Handle \cup {0}
  /\ held \in Nat
  /\ passed \in [Handle -> SUBSET Handle]

Init ==
  /\ turn = 1
  /\ state = [i \in Handle |-> "IDLE"]
  /\ index = [i \in Handle |-> 0]
  /\ timeout = [i \in Handle |-> 0]
  /\ error_count = [i \in Handle |-> 0]
  /\ bus_locked = FALSE
  /\ bus_free = TRUE
  /\ active_addr = 0
  /\ held = 0
  /\ passed = [i \in Handle |-> {}]

----------------------------------------------------------------------------
(* The sensors ask for their reads; a sensor that is not idle returns.     *)

ReadAll ==
  /\ turn = 1
  /\ state' = [i \in Handle |-> IF state[i] = "IDLE" THEN "STARTING"
                                ELSE state[i]]
  /\ index' = [i \in Handle |-> IF state[i] = "IDLE" THEN 0 ELSE index[i]]
  /\ timeout' = [i \in Handle |-> IF state[i] = "IDLE" THEN 0
                                  ELSE timeout[i]]
  /\ UNCHANGED <<turn, error_count, bus>>

----------------------------------------------------------------------------
(* i2c_tick of handle i: one action per state of the handle.               *)

\* The handle that is ticked after i: the order of sensors_tick.
After(i) == IF i = N THEN 1 ELSE i + 1

\* A variant that starts the round again at the end of each transfer.
TickedFromFirst(i, s) ==
  /\ turn = i /\ state[i] = s
  /\ turn' = IF s = "STOP" THEN 1 ELSE After(i)

\* Handle i is the one to be ticked, and the next one follows.
Ticked(i, s) ==
  /\ turn = i /\ state[i] = s
  /\ turn' = After(i)

Goto(i, s) == state' = [state EXCEPT ![i] = s]

\* The transfer goes on for another tick.
KeepBus ==
  /\ held' = held + 1
  /\ UNCHANGED <<bus_locked, bus_free, active_addr, passed>>

\* hal_i2c_stop and the release of the lock.
ReleaseBus ==
  /\ bus_locked' = FALSE
  /\ bus_free' = TRUE
  /\ active_addr' = 0
  /\ held' = 0
  /\ UNCHANGED passed

\* Two variants of i2c_fail: the count is not reset, the lock is kept.
FailCounting(i) ==
  /\ Goto(i, "IDLE")
  /\ timeout' = [timeout EXCEPT ![i] = 0]
  /\ error_count' = [error_count EXCEPT ![i] = @ + 1]
  /\ UNCHANGED index
  /\ ReleaseBus

FailLocked(i) ==
  /\ Goto(i, "IDLE")
  /\ timeout' = [timeout EXCEPT ![i] = 0]
  /\ error_count' = [error_count EXCEPT ![i] = (@ + 1) % 3]
  /\ bus_free' = TRUE /\ active_addr' = 0 /\ held' = 0
  /\ UNCHANGED <<index, bus_locked, passed>>

\* i2c_fail.  The third failure in a row makes the driver reset the bus,
\* which only the owner of the bus can reach.
Fail(i) ==
  /\ Goto(i, "IDLE")
  /\ timeout' = [timeout EXCEPT ![i] = 0]
  /\ error_count' = [error_count EXCEPT ![i] = (@ + 1) % 3]
  /\ UNCHANGED index
  /\ ReleaseBus

\* A variant without a timeout.
NotReadyForever(i) ==
  /\ UNCHANGED hvars
  /\ KeepBus

\* The controller is not ready: one more tick, or one too many.
NotReady(i) ==
  IF timeout[i] + 1 > I2C_TIMEOUT_MAX
  THEN Fail(i)
  ELSE /\ timeout' = [timeout EXCEPT ![i] = @ + 1]
       /\ UNCHANGED <<state, index, error_count>>
       /\ KeepBus

Idle(i) ==
  /\ Ticked(i, "IDLE")
  /\ UNCHANGED <<hvars, bus>>

Blocked(i) ==
  /\ Ticked(i, "STARTING")
  /\ ~bus_free \/ bus_locked
  /\ UNCHANGED <<hvars, bus>>

\* A variant that does not look at the lock.
AcquireUnlocked(i) ==
  /\ Ticked(i, "STARTING")
  /\ bus_locked' = TRUE /\ bus_free' = FALSE
  /\ active_addr' = i
  /\ held' = 1
  /\ Goto(i, "SELECT_MODE")
  /\ UNCHANGED <<index, timeout, error_count, passed>>

Acquire(i) ==
  /\ Ticked(i, "STARTING")
  /\ bus_free /\ ~bus_locked
  /\ bus_locked' = TRUE
  /\ bus_free' = FALSE
  /\ active_addr' = i
  /\ held' = 1
  /\ passed' = [j \in Handle |->
                  IF j # i /\ state[j] = "STARTING" THEN passed[j] \cup {i}
                  ELSE {}]
  /\ Goto(i, "SELECT_MODE")
  /\ UNCHANGED <<index, timeout, error_count>>

SelectMode(i) ==
  /\ Ticked(i, "SELECT_MODE")
  /\ \/ Fail(i)                               \* no acknowledge
     \/ /\ index' = [index EXCEPT ![i] = 0]
        /\ Goto(i, "RESTART")
        /\ UNCHANGED <<timeout, error_count>>
        /\ KeepBus

Restart(i) ==
  /\ Ticked(i, "RESTART")
  /\ \/ NotReady(i)
     \/ Fail(i)                               \* no acknowledge
     \/ /\ timeout' = [timeout EXCEPT ![i] = 0]
        /\ Goto(i, "WAIT_RESTART")
        /\ active_addr' = i                   \* hal_i2c_restart_read
        /\ held' = held + 1
        /\ UNCHANGED <<index, error_count, bus_locked, bus_free, passed>>

WaitRestart(i) ==
  /\ Ticked(i, "WAIT_RESTART")
  /\ \/ Fail(i)                               \* no acknowledge
     \/ /\ index' = [index EXCEPT ![i] = 0]
        /\ Goto(i, "READ")
        /\ UNCHANGED <<timeout, error_count>>
        /\ KeepBus

Read(i) ==
  /\ Ticked(i, "READ")
  /\ Goto(i, "WAIT_RX")
  /\ UNCHANGED <<index, timeout, error_count>>
  /\ KeepBus

WaitRx(i) ==
  /\ Ticked(i, "WAIT_RX")
  /\ \/ NotReady(i)
     \/ /\ timeout' = [timeout EXCEPT ![i] = 0]
        /\ index' = [index EXCEPT ![i] = @ + 1]
        /\ Goto(i, IF index[i] + 1 = Len[i] THEN "STOP" ELSE "READ")
        /\ UNCHANGED error_count
        /\ KeepBus

\* i2c_success: the callback parses the bytes.
Stop(i) ==
  /\ Ticked(i, "STOP")
  /\ Goto(i, "IDLE")
  /\ error_count' = [error_count EXCEPT ![i] = 0]
  /\ UNCHANGED <<index, timeout>>
  /\ ReleaseBus

Tick(i) ==
  \/ Idle(i) \/ Blocked(i) \/ Acquire(i) \/ SelectMode(i) \/ Restart(i)
  \/ WaitRestart(i) \/ Read(i) \/ WaitRx(i) \/ Stop(i)

SensorsTick == \E i \in Handle : Tick(i)

Next == ReadAll \/ SensorsTick

Spec == Init /\ [][Next]_vars

\* The super-loop never stops ticking the handles.
FairSpec == Spec /\ WF_vars(SensorsTick)

----------------------------------------------------------------------------
(* Properties.                                                             *)

\* Two transfers never mix: a handle in a transfer is talking to its own
\* device, so bytes never come from, and a stop never cuts off, another's.
NoCrossTalk ==
  \A i \in Handle : state[i] \in InTransfer => active_addr = i

\* The lock is taken exactly while some transfer runs.  A lock that outlives
\* its transfer would silence all five sensors for good.
LockHasOwner ==
  /\ bus_locked <=> \E i \in Handle : state[i] \in InTransfer
  /\ bus_free <=> ~bus_locked

\* Bytes are parsed only when all of them have been read: a transfer that
\* stops with success has filled the buffer.
WholeBuffer ==
  \A i \in Handle : state[i] = "STOP" => index[i] = Len[i]

\* No transfer holds the bus for longer than MaxHold ticks, however slow the
\* device: the timeout starts again with each byte, so that is a sum.
HoldIsBounded ==
  \A i \in Handle : state[i] \in InTransfer => held <= MaxHold(i)

\* While a handle waits for the bus, no other handle gets it twice: the
\* fixed order of the ticks makes the lock fair.
NoOvertaking ==
  [][\A i, j \in Handle :
        Acquire(i) /\ j # i /\ state[j] = "STARTING" => i \notin passed[j]]_vars

\* Every read that is asked for ends, with data or with a failure.
EveryReadEnds ==
  \A i \in Handle : state[i] = "STARTING" ~> state[i] = "IDLE"
=============================================================================
