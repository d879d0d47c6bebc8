-------------------------- MODULE ExtMemory_proofs --------------------------
(***************************************************************************)
(* Proofs about ExtMemory, for every flash geometry and every bound on the *)
(* retries and the timeout: types, agreement of the status with the        *)
(* driver, that a reported success is the success the client expects, and  *)
(* that the driver implements FlashService.                                *)
(***************************************************************************)
EXTENDS ExtMemory, TLAPS

\* What an operation leaves on the flash, at its end and meanwhile, is a
\* content for every page, whatever the request is.
LEMMA ResultType ==
  ASSUME NEW c \in [Page -> Content], NEW r, NEW d \in Data
  PROVE  /\ Result(c, r, d) \in [Page -> Content]
         /\ InFlux(c, r) \in [Page -> Content]
BY DEF Result, InFlux, Programmed, Content

\* While the driver works, no error is recorded and each counter is below
\* its bound, so that the next increment stays within it.
Waits ==
  state \in {"WRITE_ENABLE", "CHECK_WEL", "SEND_COMMAND", "WAIT_BUSY"} =>
    error_code = 0 /\ retry < QSPI_RETRY_MAX /\ timeout < QSPI_TIMEOUT_MAX

IInv == TypeOK /\ Waits /\ StatusAgrees /\ OnCourse

\* What is assumed of the constants.
LEMMA Bounds ==
  /\ Page \subseteq Nat /\ LogsStart \in Page
  /\ QSPI_RETRY_MAX \in Nat \ {0} /\ QSPI_TIMEOUT_MAX \in Nat \ {0}
  /\ NoReq \notin [Page -> Content]
BY FlashAssumption, DriverAssumption DEF FlashAssumption, DriverAssumption

LEMMA InitIInv == Init => IInv
<1> SUFFICES ASSUME Init PROVE IInv
  OBVIOUS
<1>1. TypeOK
  <2>1. cells \in [Page -> Content]
    BY DEF Init, Content
  <2>2. state \in DriverStates /\ op \in {"erase", "write"} /\ at \in Page
        /\ buf \in Data /\ telemetry_write_ptr \in Nat
    BY Bounds DEF Init, DriverStates
  <2>3. /\ retry \in 0..QSPI_RETRY_MAX /\ timeout \in 0..QSPI_TIMEOUT_MAX
        /\ error_code \in {0, 1, 5}
        /\ current_status \in {"idle", "busy", "error"}
    BY Bounds DEF Init
  <2>4. running \in [Page -> Content] \cup {NoReq}
        /\ expected \in [Page -> Content] \cup {NoReq}
    BY DEF Init
  <2>5. wel \in BOOLEAN /\ wp \in BOOLEAN
    BY Zenon DEF Init
  <2>6. QED
    BY <2>1, <2>2, <2>3, <2>4, <2>5 DEF TypeOK
<1>2. Waits
  BY Bounds DEF Init, Waits
<1>3. StatusAgrees
  BY DEF Init, StatusAgrees
<1>4. OnCourse
  BY DEF Init, OnCourse
<1>5. QED
  BY <1>1, <1>2, <1>3, <1>4 DEF IInv

\* A client call keeps the invariant.
LEMMA AcceptIInv ==
  ASSUME IInv, NEW o \in {"erase", "write"}, NEW a \in Page, NEW d \in Data,
         Accept(o, a, d), telemetry_write_ptr' \in Nat
  PROVE  IInv'
<1> USE DEF IInv, Accept, StartOperation, request, chip
<1>1. state = "IDLE"
  BY DEF StatusAgrees
<1>2. expected' \in [Page -> Content] \cup {NoReq}
  BY ResultType DEF TypeOK
<1>3. TypeOK'
  BY <1>1, <1>2, Bounds DEF TypeOK, DriverStates
<1>4. Waits' /\ StatusAgrees'
  BY <1>1, Bounds DEF Waits, StatusAgrees
<1>5. OnCourse'
  BY <1>1 DEF OnCourse, Request
<1>6. QED
  BY <1>3, <1>4, <1>5

\* A tick of the driver keeps the invariant: one step for each driver state.
LEMMA TickIInv == IInv /\ Tick => IInv'
<1> SUFFICES ASSUME IInv, Tick PROVE IInv'
  OBVIOUS
<1> USE DEF IInv, request, client, chip
<1>1. CASE WriteEnable
  <2>1. wel' \in BOOLEAN
    BY <1>1, Zenon DEF WriteEnable, TypeOK
  <2>2. TypeOK'
    BY <1>1, <2>1, Bounds DEF WriteEnable, TypeOK, DriverStates
  <2>3. Waits' /\ StatusAgrees'
    BY <1>1, Bounds DEF WriteEnable, Waits, StatusAgrees
  <2>4. OnCourse'
    BY <1>1 DEF WriteEnable, OnCourse, Request
  <2>5. QED
    BY <2>2, <2>3, <2>4
<1>2. CASE CheckWel
  <2>1. retry' \in 0..QSPI_RETRY_MAX /\ timeout' \in 0..QSPI_TIMEOUT_MAX
    BY <1>2, Bounds DEF CheckWel, TypeOK, Waits
  <2>2. TypeOK'
    BY <1>2, <2>1 DEF CheckWel, TypeOK, DriverStates
  <2>3. Waits' /\ StatusAgrees'
    BY <1>2, <2>1, Bounds DEF CheckWel, Waits, StatusAgrees
  <2>4. OnCourse'
    BY <1>2 DEF CheckWel, OnCourse, Request
  <2>5. QED
    BY <2>2, <2>3, <2>4
<1>3. CASE SendCommand
  <2>1. /\ running' \in [Page -> Content] \cup {NoReq}
        /\ cells' \in [Page -> Content]
    BY <1>3, ResultType DEF SendCommand, TypeOK
  <2>2. TypeOK'
    BY <1>3, <2>1, Bounds DEF SendCommand, TypeOK, DriverStates
  <2>3. Waits' /\ StatusAgrees'
    BY <1>3, Bounds DEF SendCommand, Waits, StatusAgrees
  <2>4. OnCourse'
    <3>1. Result(cells, Request, buf) \in [Page -> Content]
      BY ResultType DEF TypeOK
    <3>2. QED
      BY <1>3, <3>1, Bounds DEF SendCommand, OnCourse, Request
  <2>5. QED
    BY <2>2, <2>3, <2>4
<1>4. CASE WaitBusyDone
  <2>1. TypeOK' /\ Waits'
    BY <1>4 DEF WaitBusyDone, TypeOK, Waits, DriverStates
  <2>2. StatusAgrees' /\ OnCourse'
    BY <1>4 DEF WaitBusyDone, StatusAgrees, OnCourse
  <2>3. QED
    BY <2>1, <2>2
<1>5. CASE WaitBusyTimeout
  <2>1. timeout' \in 0..QSPI_TIMEOUT_MAX
    BY <1>5, Bounds DEF WaitBusyTimeout, TypeOK, Waits
  <2>2. TypeOK'
    BY <1>5, <2>1 DEF WaitBusyTimeout, TypeOK, DriverStates
  <2>3. Waits' /\ StatusAgrees'
    BY <1>5, <2>1, Bounds DEF WaitBusyTimeout, Waits, StatusAgrees
  <2>4. OnCourse'
    BY <1>5 DEF WaitBusyTimeout, OnCourse
  <2>5. QED
    BY <2>2, <2>3, <2>4
<1>6. CASE HandleError
  <2>1. TypeOK' /\ Waits'
    BY <1>6, Bounds DEF HandleError, TypeOK, Waits, DriverStates
  <2>2. StatusAgrees' /\ OnCourse'
    BY <1>6 DEF HandleError, StatusAgrees, OnCourse
  <2>3. QED
    BY <2>1, <2>2
<1>7. QED
  BY <1>1, <1>2, <1>3, <1>4, <1>5, <1>6 DEF Tick

\* The chip and the processor keep it too.
LEMMA EnvironmentIInv ==
  IInv /\ (RefuseLength \/ ClearWriteProtection \/ ChipFinish \/ Restart) => IInv'
<1> SUFFICES ASSUME IInv,
                    RefuseLength \/ ClearWriteProtection \/ ChipFinish \/ Restart
             PROVE  IInv'
  OBVIOUS
<1> USE DEF IInv, request, client, chip
<1>1. CASE RefuseLength
  <2>1. TypeOK'
    BY <1>1 DEF RefuseLength, TypeOK
  <2>2. Waits' /\ StatusAgrees' /\ OnCourse'
    BY <1>1 DEF RefuseLength, Waits, StatusAgrees, OnCourse
  <2>3. QED
    BY <2>1, <2>2
<1>2. CASE ClearWriteProtection
  <2>1. /\ cells' \in [Page -> Content]
        /\ running' \in [Page -> Content] \cup {NoReq}
    BY <1>2 DEF ClearWriteProtection, TypeOK
  <2>2. wp' \in BOOLEAN /\ wel' \in BOOLEAN
    BY <1>2, Zenon DEF ClearWriteProtection, TypeOK
  <2>3. TypeOK'
    BY <1>2, <2>1, <2>2 DEF ClearWriteProtection, TypeOK
  <2>4. Waits' /\ StatusAgrees' /\ OnCourse'
    BY <1>2 DEF ClearWriteProtection, Waits, StatusAgrees, OnCourse, Request
  <2>5. QED
    BY <2>3, <2>4
<1>3. CASE ChipFinish
  <2>1. cells' \in [Page -> Content] /\ running' \in {NoReq}
    BY <1>3 DEF ChipFinish, TypeOK
  <2>2. TypeOK'
    BY <1>3, <2>1 DEF ChipFinish, TypeOK
  <2>3. Waits' /\ StatusAgrees'
    BY <1>3 DEF ChipFinish, Waits, StatusAgrees
  <2>4. OnCourse'
    BY <1>3 DEF ChipFinish, OnCourse
  <2>5. QED
    BY <2>2, <2>3, <2>4
<1>4. CASE Restart
  <2>1. wp' \in BOOLEAN
    BY <1>4, Zenon DEF Restart, TypeOK
  <2>2. TypeOK'
    BY <1>4, <2>1, Bounds DEF Restart, TypeOK, DriverStates
  <2>3. Waits' /\ StatusAgrees' /\ OnCourse'
    BY <1>4 DEF Restart, Waits, StatusAgrees, OnCourse
  <2>4. QED
    BY <2>2, <2>3
<1>5. QED
  BY <1>1, <1>2, <1>3, <1>4

\* Every step of the specification keeps the invariant.
LEMMA NextIInv == IInv /\ [Next]_vars => IInv'
<1> SUFFICES ASSUME IInv, [Next]_vars PROVE IInv'
  OBVIOUS
<1>1. ASSUME NEW p \in Page, EraseSectorAsync(p) PROVE IInv'
  BY <1>1, AcceptIInv DEF EraseSectorAsync, IInv, TypeOK
<1>2. ASSUME NEW p \in Page, NEW d \in Data, OtaWriteAsync(p, d) PROVE IInv'
  BY <1>2, AcceptIInv DEF OtaWriteAsync, IInv, TypeOK
<1>3. ASSUME NEW d \in Data, SaveTelemetryAsync(d) PROVE IInv'
  BY <1>3, AcceptIInv, Bounds DEF SaveTelemetryAsync, IInv, TypeOK
<1>4. CASE UNCHANGED vars
  BY <1>4 DEF vars, request, client, chip, IInv, TypeOK, Waits, StatusAgrees,
              OnCourse, Request
<1>5. QED
  BY <1>1, <1>2, <1>3, <1>4, TickIInv, EnvironmentIInv DEF Next

\* The invariant holds throughout.
THEOREM Invariance == Spec => []IInv
BY InitIInv, NextIInv, PTL DEF Spec

\* Every variable keeps its type; above all the counters of retries and of
\* ticks stay within the bounds at which the driver gives up.
THEOREM TypeCorrect == Spec => []TypeOK
<1>1. IInv => TypeOK
  BY DEF IInv
<1>2. QED
  BY Invariance, <1>1, PTL

\* The status the client sees is busy exactly while the driver works.
THEOREM StatusAgreement == Spec => []StatusAgrees
<1>1. IInv => StatusAgrees
  BY DEF IInv
<1>2. QED
  BY Invariance, <1>1, PTL

\* An operation that was asked of a ready, unprotected chip stays on course.
THEOREM CourseKept == Spec => []OnCourse
<1>1. IInv => OnCourse
  BY DEF IInv
<1>2. QED
  BY Invariance, <1>1, PTL

\* A request reported as done has left on the flash what it was to leave.
THEOREM SuccessIsReal == Spec => DoneIsDone
<1>1. IInv /\ [Next]_vars =>
        [WaitBusyDone /\ expected # NoReq => cells = expected]_vars
  BY DEF IInv, WaitBusyDone, StatusAgrees, OnCourse
<1>2. QED
  BY Invariance, <1>1, PTL DEF Spec, DoneIsDone

----------------------------------------------------------------------------
(* Refinement: what the driver does is what FlashService promises.         *)

\* The operators of NorFlash mean the same in both modules.
LEMMA SameFlash ==
  ASSUME NEW c, NEW r, NEW d
  PROVE  /\ Abstract!Result(c, r, d) = Result(c, r, d)
         /\ Abstract!InFlux(c, r) = InFlux(c, r)
BY DEF Abstract!Result, Abstract!InFlux, Abstract!Footprint, Abstract!SectorOf,
       Abstract!Programmed, Result, InFlux, Footprint, SectorOf, Programmed

LEMMA InitRefines == Init => Abstract!Init
BY DEF Init, Abstract!Init, Abstract!Content, Content

\* A request that is accepted is a request submitted.
LEMMA AcceptRefines ==
  ASSUME IInv, NEW o \in {"erase", "write"}, NEW a \in Page, NEW d \in Data,
         Accept(o, a, d)
  PROVE  Abstract!Next
<1> DEFINE r == [op |-> o, at |-> a]
<1>1. state = "IDLE" /\ state' = "WRITE_ENABLE" /\ error_code' = 0
      /\ current_status = "idle" /\ current_status' = "busy"
      /\ op' = o /\ at' = a
  BY DEF IInv, StatusAgrees, Accept, StartOperation
<1>2. (expected' # NoReq) = (running = NoReq /\ ~wp)
  <2>1. Result(cells, r, d) # NoReq
    BY ResultType, Bounds DEF IInv, TypeOK
  <2>2. QED
    BY <2>1 DEF Accept
<1>3. UNCHANGED <<running, cells, wp>>
  BY DEF Accept, chip
<1>4. Abstract!Submit(r)
  BY <1>1, <1>2, <1>3 DEF Abstract!Submit, Request
<1>5. r \in Abstract!Requests
  BY DEF Abstract!Requests
<1>6. QED
  BY <1>4, <1>5 DEF Abstract!Next

\* The driver's ticks are invisible until the command goes to the chip.
LEMMA TickRefines == IInv /\ Tick => [Abstract!Next]_(Abstract!fsvars)
<1> SUFFICES ASSUME IInv, Tick PROVE [Abstract!Next]_(Abstract!fsvars)
  OBVIOUS
<1> USE DEF IInv, request, client, chip
<1>1. CASE WriteEnable
  BY <1>1 DEF WriteEnable, Abstract!fsvars, StatusAgrees, Waits, Request
<1>2. CASE CheckWel
  BY <1>2 DEF CheckWel, Abstract!fsvars, StatusAgrees, Waits, Request
<1>3. CASE SendCommand /\ running = NoReq /\ wel /\ ~wp
  <2>1. /\ current_status = "busy" /\ state' = "WAIT_BUSY"
        /\ state # "WAIT_BUSY" /\ error_code = 0 /\ buf \in Data
        /\ UNCHANGED <<current_status, op, at, wp, expected>>
    BY <1>3 DEF SendCommand, StatusAgrees, Waits, TypeOK
  <2>2. running' = Result(cells, Request, buf) /\ cells' = InFlux(cells, Request)
    BY <1>3 DEF SendCommand
  <2>3. Abstract!Issue(buf)
    BY <1>3, <2>1, <2>2, SameFlash DEF Abstract!Issue, Request
  <2>4. QED
    BY <2>1, <2>3 DEF Abstract!Next
<1>4. CASE SendCommand /\ ~(running = NoReq /\ wel /\ ~wp)
  <2>1. expected = NoReq
    BY <1>4 DEF SendCommand, StatusAgrees, OnCourse
  <2>2. Abstract!Ignored
    BY <1>4, <2>1 DEF SendCommand, StatusAgrees, Waits, Abstract!Ignored, Request
  <2>3. QED
    BY <2>2 DEF Abstract!Next
<1>5. CASE WaitBusyDone
  <2>1. /\ current_status = "busy" /\ current_status' = "idle"
        /\ state = "WAIT_BUSY" /\ running = NoReq
        /\ UNCHANGED <<running, cells, wp, expected>>
    BY <1>5 DEF WaitBusyDone, StatusAgrees
  <2>2. Abstract!Report
    BY <2>1 DEF Abstract!Report, Request
  <2>3. QED
    BY <2>2 DEF Abstract!Next
<1>6. CASE WaitBusyTimeout
  BY <1>6 DEF WaitBusyTimeout, Abstract!fsvars, StatusAgrees, Request
<1>7. CASE HandleError
  <2>1. /\ current_status = "busy" /\ current_status' = "error"
        /\ UNCHANGED <<running, cells, wp, expected>>
    BY <1>7 DEF HandleError, StatusAgrees
  <2>2. Abstract!Fail
    BY <2>1 DEF Abstract!Fail, Request
  <2>3. QED
    BY <2>2 DEF Abstract!Next
<1>8. QED
  BY <1>1, <1>2, <1>3, <1>4, <1>5, <1>6, <1>7 DEF Tick

LEMMA NextRefines == IInv /\ [Next]_vars => [Abstract!Next]_(Abstract!fsvars)
<1> SUFFICES ASSUME IInv, [Next]_vars PROVE [Abstract!Next]_(Abstract!fsvars)
  OBVIOUS
<1> USE DEF request, client, chip
<1>1. ASSUME NEW p \in Page, EraseSectorAsync(p) PROVE Abstract!Next
  BY <1>1, AcceptRefines DEF EraseSectorAsync, IInv, TypeOK
<1>2. ASSUME NEW p \in Page, NEW d \in Data, OtaWriteAsync(p, d)
      PROVE  Abstract!Next
  BY <1>2, AcceptRefines DEF OtaWriteAsync
<1>3. ASSUME NEW d \in Data, SaveTelemetryAsync(d) PROVE Abstract!Next
  BY <1>3, AcceptRefines DEF SaveTelemetryAsync
<1>4. CASE RefuseLength
  BY <1>4 DEF RefuseLength, Abstract!Refuse, Abstract!Next
<1>5. CASE ClearWriteProtection
  <2>1. Abstract!Cleared
    BY <1>5 DEF ClearWriteProtection, Abstract!Cleared
  <2>2. /\ current_status = "idle"
        /\ UNCHANGED <<current_status, op, at, state, error_code, expected>>
    BY <1>5 DEF ClearWriteProtection
  <2>3. Abstract!ClearProtection
    BY <2>1, <2>2 DEF Abstract!ClearProtection, Request
  <2>4. QED
    BY <2>3 DEF Abstract!Next
<1>6. CASE ChipFinish
  BY <1>6 DEF ChipFinish, Abstract!Finish, Abstract!Next, Request
<1>7. CASE Restart
  BY <1>7 DEF Restart, Abstract!Restart, Abstract!Next, Request
<1>8. CASE UNCHANGED vars
  BY <1>8 DEF vars, Abstract!fsvars, Request
<1>9. QED
  BY <1>1, <1>2, <1>3, <1>4, <1>5, <1>6, <1>7, <1>8, TickRefines DEF Next

\* ExtMemory implements FlashService, on which the model of the OTA writer
\* is built.
THEOREM Refinement == Spec => ImplementsFlashService
BY InitRefines, NextRefines, Invariance, PTL
   DEF Spec, ImplementsFlashService, Abstract!Spec
=============================================================================
