----------------------------- MODULE ExtMemory -----------------------------
(***************************************************************************)
(* The external memory as the firmware drives it: the client interface of  *)
(* ext_memory.c, the state machine of qspi_driver.c that ExtMem_Tick pumps *)
(* once per turn of the super-loop, and the W25Q chip behind it.           *)
(*                                                                         *)
(* The chip runs by itself: it may finish an operation at any moment, or   *)
(* take longer than the driver is willing to wait.  It takes a write       *)
(* enable only when it is not busy, and carries out a command only when    *)
(* write enable is latched, it is not busy and it is not protected.        *)
(* The caller's buffer is a value here; that nobody changes it while the   *)
(* write is pending is checked of its owner in OtaSession.                 *)
(***************************************************************************)
EXTENDS NorFlash

CONSTANTS
  QSPI_RETRY_MAX,    \* write-enable attempts before the driver gives up
  QSPI_TIMEOUT_MAX,  \* ticks it waits for the chip to become ready
  LogsStart,         \* first page of the telemetry region
  NoReq              \* the chip is not busy, there is no expectation

ASSUME DriverAssumption ==
  /\ QSPI_RETRY_MAX \in Nat \ {0}
  /\ QSPI_TIMEOUT_MAX \in Nat \ {0}
  /\ LogsStart \in Page
  /\ Data # {}
  /\ NoReq \notin [Page -> Content]

VARIABLES
  state,           \* state of qspi_handle, the driver's state machine
  op, at, buf,     \* its operation, address and data
  retry, timeout, error_code,
  current_status,  \* what ExtMem_GetStatus returns
  telemetry_write_ptr,
  cells,           \* contents of the chip
  running,         \* NoReq, or the contents the operation in progress leaves
  wel,             \* write enable latch of the chip
  wp,              \* block-protect bits: the chip ignores erase and program
  expected         \* history: what success of the outstanding request means

request == <<op, at, buf>>
client  == <<current_status, telemetry_write_ptr>>
chip    == <<cells, running, wel, wp>>
vars    == <<state, request, retry, timeout, error_code, client, chip, expected>>

DriverStates == {"IDLE", "WRITE_ENABLE", "CHECK_WEL", "SEND_COMMAND",
                 "WAIT_BUSY", "ERROR"}

TypeOK ==
  /\ state \in DriverStates
  /\ op \in {"erase", "write"} /\ at \in Page /\ buf \in Data
  /\ retry \in 0..QSPI_RETRY_MAX
  /\ timeout \in 0..QSPI_TIMEOUT_MAX
  /\ error_code \in {0, 1, 5}
  /\ current_status \in {"idle", "busy", "error"}
  /\ telemetry_write_ptr \in Nat
  /\ cells \in [Page -> Content]
  /\ running \in [Page -> Content] \cup {NoReq}
  /\ wel \in BOOLEAN
  /\ wp \in BOOLEAN
  /\ expected \in [Page -> Content] \cup {NoReq}

Request == [op |-> op, at |-> at]

----------------------------------------------------------------------------
(* Client calls.  Each returns silently unless the memory is idle.         *)

Init ==
  /\ state = "IDLE"
  /\ op = "erase" /\ at = LogsStart /\ buf \in Data
  /\ retry = 0 /\ timeout = 0 /\ error_code = 0
  /\ current_status = "idle"
  /\ telemetry_write_ptr = LogsStart
  /\ cells = [p \in Page |-> Blank]
  /\ running = NoReq
  /\ wel = FALSE
  /\ wp \in BOOLEAN
  /\ expected = NoReq

\* qspi_write_async and qspi_erase_sector_async: ignored unless idle.
StartOperation(o, a, d) ==
  \/ /\ state = "IDLE"
     /\ state' = "WRITE_ENABLE"
     /\ op' = o /\ at' = a /\ buf' = d
     /\ retry' = 0 /\ timeout' = 0 /\ error_code' = 0
  \/ /\ state # "IDLE"
     /\ UNCHANGED <<state, request, retry, timeout, error_code>>

\* The memory takes a request: the status goes busy, the driver is called.
\* What the caller may count on after success is noted in expected.
Accept(o, a, d) ==
  /\ current_status = "idle"
  /\ current_status' = "busy"
  /\ StartOperation(o, a, d)
  /\ expected' = IF running = NoReq /\ ~wp
                 THEN Result(cells, [op |-> o, at |-> a], d)
                 ELSE NoReq
  /\ UNCHANGED chip

EraseSectorAsync(a) ==
  /\ Accept("erase", a, buf)    \* an erase has no data
  /\ UNCHANGED telemetry_write_ptr

OtaWriteAsync(a, d) ==
  /\ Accept("write", a, d)
  /\ UNCHANGED telemetry_write_ptr

\* A telemetry record goes to the next free place of the log; the pointer
\* advances without any check against the end of the log region.
SaveTelemetryAsync(d) ==
  /\ telemetry_write_ptr \in Page
  /\ Accept("write", telemetry_write_ptr, d)
  /\ telemetry_write_ptr' = telemetry_write_ptr + 1

\* A write of no bytes, or of more than a page, only sets the error status.
RefuseLength ==
  /\ current_status = "idle"
  /\ current_status' = "error"
  /\ UNCHANGED <<state, request, retry, timeout, error_code,
                 telemetry_write_ptr, chip, expected>>

\* hal_qspi_clear_write_protection sends write enable and the new status
\* register, and waits until the chip is ready or its patience ends.  Nobody
\* looks whether the chip, which may be busy or miss the first command, has
\* done anything.  A chip that writes its register for longer than that takes
\* no command meanwhile, so that the bits may count as cleared at once.
ClearWriteProtection ==
  /\ current_status = "idle"
  /\ \/ /\ running = NoReq
        /\ \/ wp' = FALSE
              /\ \/ running' = NoReq /\ wel' = FALSE
                 \/ running' = cells /\ wel' = TRUE
           \/ ~wel /\ UNCHANGED <<wp, running, wel>>
        /\ UNCHANGED cells
     \/ /\ running # NoReq
        /\ \/ cells' = running /\ running' = NoReq /\ wel' = FALSE
           \/ UNCHANGED <<cells, running, wel>>
        /\ UNCHANGED wp
  /\ UNCHANGED <<state, request, retry, timeout, error_code, client, expected>>

----------------------------------------------------------------------------
(* qspi_tick: one action per driver state.                                 *)

WriteEnable ==
  /\ state = "WRITE_ENABLE"
  /\ state' = "CHECK_WEL"
  /\ timeout' = 0
  /\ wel' \in {wel, wel \/ running = NoReq}    \* the chip may miss it
  /\ UNCHANGED <<request, retry, error_code, client, cells, running, wp,
                 expected>>

CheckWel ==
  /\ state = "CHECK_WEL"
  /\ \/ /\ wel
        /\ state' = "SEND_COMMAND"
        /\ timeout' = 0
        /\ UNCHANGED <<retry, error_code>>
     \/ /\ ~wel
        /\ retry' = retry + 1
        /\ IF retry' >= QSPI_RETRY_MAX
           THEN state' = "ERROR" /\ error_code' = 1
           ELSE state' = "WRITE_ENABLE" /\ UNCHANGED error_code
        /\ UNCHANGED timeout
  /\ UNCHANGED <<request, client, chip, expected>>

\* The command goes to the chip, which carries it out or ignores it.
SendCommand ==
  /\ state = "SEND_COMMAND"
  /\ state' = "WAIT_BUSY"
  /\ timeout' = 0
  /\ IF running = NoReq /\ wel /\ ~wp
     THEN /\ running' = Result(cells, Request, buf)
          /\ cells' = InFlux(cells, Request)
     ELSE UNCHANGED <<running, cells>>
  /\ UNCHANGED <<request, retry, error_code, client, wel, wp, expected>>

\* A variant that does not ask whether the chip is ready.
WaitBusyDoneUnread ==
  /\ state = "WAIT_BUSY"
  /\ state' = "IDLE"
  /\ current_status' = "idle"
  /\ UNCHANGED <<request, retry, timeout, error_code, telemetry_write_ptr,
                 chip, expected>>

\* The chip is ready: the driver goes idle and reports success.
WaitBusyDone ==
  /\ state = "WAIT_BUSY"
  /\ running = NoReq
  /\ state' = "IDLE"
  /\ current_status' = "idle"
  /\ UNCHANGED <<request, retry, timeout, error_code, telemetry_write_ptr,
                 chip, expected>>

\* Two variants: one tick too many, and no limit at all.
WaitBusyTimeoutLate ==
  /\ state = "WAIT_BUSY"
  /\ running # NoReq
  /\ timeout' = timeout + 1
  /\ IF timeout' > QSPI_TIMEOUT_MAX
     THEN state' = "ERROR" /\ error_code' = 5
     ELSE UNCHANGED <<state, error_code>>
  /\ UNCHANGED <<request, retry, client, chip, expected>>

WaitBusyForever ==
  /\ state = "WAIT_BUSY"
  /\ running # NoReq
  /\ UNCHANGED vars

WaitBusyTimeout ==
  /\ state = "WAIT_BUSY"
  /\ running # NoReq
  /\ timeout' = timeout + 1
  /\ IF timeout' >= QSPI_TIMEOUT_MAX
     THEN state' = "ERROR" /\ error_code' = 5
     ELSE UNCHANGED <<state, error_code>>
  /\ UNCHANGED <<request, retry, client, chip, expected>>

HandleErrorAsSuccess ==
  /\ state = "ERROR"
  /\ current_status' = "idle"
  /\ state' = "IDLE"
  /\ retry' = 0
  /\ timeout' = 0
  /\ UNCHANGED <<request, error_code, telemetry_write_ptr, chip, expected>>

\* The failure is reported first, then the handle is cleared.
HandleError ==
  /\ state = "ERROR"
  /\ current_status' = "error"
  /\ state' = "IDLE"
  /\ retry' = 0
  /\ timeout' = 0
  /\ UNCHANGED <<request, error_code, telemetry_write_ptr, chip, expected>>

Tick == WriteEnable \/ CheckWel \/ SendCommand \/ WaitBusyDone
        \/ WaitBusyTimeout \/ HandleError

----------------------------------------------------------------------------
(* The chip and the processor.                                             *)

ChipFinish ==
  /\ running # NoReq
  /\ cells' = running
  /\ running' = NoReq
  /\ wel' = FALSE
  /\ UNCHANGED <<state, request, retry, timeout, error_code, client, wp,
                 expected>>

\* A restart of the processor, then ExtMem_Init.  hal_qspi_init resets the
\* controller, not the chip, and protection may come back on.
Restart ==
  /\ state' = "IDLE"
  /\ retry' = 0 /\ timeout' = 0 /\ error_code' = 0
  /\ current_status' = "idle"
  /\ telemetry_write_ptr' = LogsStart
  /\ wp' \in {wp, TRUE}
  /\ expected' = NoReq
  /\ UNCHANGED <<request, cells, running, wel>>

Next ==
  \/ \E p \in Page : EraseSectorAsync(p)
  \/ \E p \in Page, d \in Data : OtaWriteAsync(p, d)
  \/ \E d \in Data : SaveTelemetryAsync(d)
  \/ RefuseLength
  \/ ClearWriteProtection
  \/ Tick
  \/ ChipFinish
  \/ Restart

Spec == Init /\ [][Next]_vars

\* The super-loop never stops ticking; nothing is promised of the chip.
FairSpec == Spec /\ WF_vars(Tick)

----------------------------------------------------------------------------
(* Properties.                                                             *)

\* The status the client sees and the driver never drift apart: the status
\* is busy exactly while the driver works on the request.  A request that
\* the driver ignored while the status went busy would block the memory for
\* ever (ext_memory.c sets the status before it calls the driver).
StatusAgrees == current_status = "busy" <=> state # "IDLE"

\* What makes success trustworthy: from the request on, the operation is on
\* course to leave exactly the expected contents, at each driver state.
OnCourse ==
  current_status = "busy" /\ expected # NoReq =>
    /\ ~wp
    /\ state \in {"WRITE_ENABLE", "CHECK_WEL", "SEND_COMMAND"} =>
         /\ running = NoReq
         /\ expected = Result(cells, Request, buf)
         /\ state = "SEND_COMMAND" => wel
    /\ state = "WAIT_BUSY" =>
         expected = IF running = NoReq THEN cells ELSE running

\* A write or erase that is reported as done has been done, byte for byte,
\* when the chip was ready and unprotected at the time of the request.
DoneIsDone ==
  [][WaitBusyDone /\ expected # NoReq => cells = expected]_vars

\* Every request is answered, with success or with an error, however the
\* chip behaves: the retry and the timeout bound each wait.
RequestAnswered == current_status = "busy" ~> current_status # "busy"

\* The driver implements the promise that its clients build on.
Abstract == INSTANCE FlashService WITH
  status  <- current_status,
  req     <- IF current_status = "busy" THEN Request ELSE NoReq,
  stage   <- IF current_status # "busy" THEN "none"
             ELSE IF state = "WAIT_BUSY" \/ error_code = 5 THEN "issued"
             ELSE "queued",
  able    <- expected # NoReq

ImplementsFlashService == Abstract!Spec
=============================================================================
