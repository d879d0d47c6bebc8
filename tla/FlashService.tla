---------------------------- MODULE FlashService ----------------------------
(***************************************************************************)
(* What the external memory promises to its client (the OTA writer): one   *)
(* request at a time, "busy" while it is outstanding, and "idle" again     *)
(* only when the chip has finished with it.  A failure is reported as      *)
(* "error", and from then on nothing is accepted until the memory is       *)
(* initialised again by a restart of the processor.                        *)
(*                                                                         *)
(* The module is the abstract specification that ExtMemory, the model of   *)
(* ext_memory.c and qspi_driver.c, implements; OtaSession builds on its    *)
(* actions.                                                                *)
(***************************************************************************)
EXTENDS NorFlash

CONSTANT NoReq        \* no request

VARIABLES
  status,   \* "idle", "busy" or "error", as ExtMem_GetStatus returns it
  req,      \* the outstanding request, or NoReq
  stage,    \* "none", "queued" (not yet sent to the chip) or "issued"
  running,  \* what the chip is doing: NoReq, or the contents it will leave
  cells,    \* the contents of the flash
  wp,       \* the chip ignores erase and program commands (BP bits)
  able      \* the chip was ready and unprotected when it was asked

fsvars == <<status, req, stage, running, cells, wp, able>>

Requests == [op : {"erase", "write"}, at : Page]

Init ==
  /\ status = "idle"
  /\ req = NoReq
  /\ stage = "none"
  /\ running = NoReq
  /\ cells \in [Page -> Content]
  /\ wp \in BOOLEAN
  /\ able = FALSE

\* A client asks for an erase or a write; it is heard only when idle.
Submit(r) ==
  /\ status = "idle"
  /\ status' = "busy"
  /\ req' = r
  /\ stage' = "queued"
  /\ able' = (running = NoReq /\ ~wp)
  /\ UNCHANGED <<running, cells, wp>>

\* A request that is refused for its length leaves the error status behind.
Refuse ==
  /\ status = "idle"
  /\ status' = "error"
  /\ UNCHANGED <<req, stage, running, cells, wp, able>>

\* The chip takes the request, with the data d the client's buffer holds now.
Issue(d) ==
  /\ stage = "queued"
  /\ stage' = "issued"
  /\ running = NoReq /\ ~wp
  /\ running' = Result(cells, req, d)
  /\ cells' = InFlux(cells, req)
  /\ UNCHANGED <<status, req, wp, able>>

\* A chip that was still at work when it was asked, or that is protected,
\* ignores the request; the client is not told.
Ignored ==
  /\ stage = "queued"
  /\ ~able
  /\ stage' = "issued"
  /\ UNCHANGED <<status, req, running, cells, wp, able>>

\* The chip completes what it is doing.
Finish ==
  /\ running # NoReq
  /\ cells' = running
  /\ running' = NoReq
  /\ UNCHANGED <<status, req, stage, wp, able>>

\* Success is reported: never before the chip is done.
Report ==
  /\ stage = "issued"
  /\ running = NoReq
  /\ status' = "idle"
  /\ req' = NoReq
  /\ stage' = "none"
  /\ UNCHANGED <<running, cells, wp, able>>

\* The request is given up; what the chip already does goes on.
Fail ==
  /\ status = "busy"
  /\ status' = "error"
  /\ req' = NoReq
  /\ stage' = "none"
  /\ UNCHANGED <<running, cells, wp, able>>

\* The chip is told to clear its write protection, and is waited for.  An idle
\* chip may miss the command, which nobody notices; a busy one ignores it.
\* The wait is bounded: it may end before what the chip is doing does, be that
\* an earlier operation or the clearing itself, which changes no cell.
Cleared ==
  \/ /\ running = NoReq
     /\ \/ wp' = wp /\ running' = NoReq
        \/ wp' = FALSE /\ running' \in {NoReq, cells}
     /\ UNCHANGED cells
  \/ /\ running # NoReq
     /\ \/ cells' = running /\ running' = NoReq
        \/ UNCHANGED <<cells, running>>
     /\ UNCHANGED wp

ClearProtection ==
  /\ status = "idle"
  /\ Cleared
  /\ UNCHANGED <<status, req, stage, able>>

\* ClearProtection and then Submit(r), within one call of the client's.
ClearThenSubmit(r) ==
  /\ status = "idle"
  /\ Cleared
  /\ status' = "busy"
  /\ req' = r
  /\ stage' = "queued"
  /\ able' = (running' = NoReq /\ ~wp')

\* The processor restarts and initialises the memory; the chip, which keeps
\* its power, goes on with what it was doing.
Restart ==
  /\ status' = "idle"
  /\ req' = NoReq
  /\ stage' = "none"
  /\ wp' \in {wp, TRUE}
  /\ able' = FALSE
  /\ UNCHANGED <<running, cells>>

Next ==
  \/ \E r \in Requests : Submit(r)
  \/ \E d \in Data : Issue(d)
  \/ Ignored \/ Refuse \/ Finish \/ Report \/ Fail \/ ClearProtection \/ Restart

Spec == Init /\ [][Next]_fsvars
=============================================================================
