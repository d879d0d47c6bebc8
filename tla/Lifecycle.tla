------------------------------ MODULE Lifecycle -----------------------------
(***************************************************************************)
(* The super-loop of init.c: BOOT, STABILIZE, RECOVERY and MISSION, the    *)
(* mission modes of modeSelecter.c and modes.c inside MISSION, and the     *)
(* triple redundancy of the control variables around each turn.            *)
(*                                                                         *)
(* sensors_tick matters here for two things: it may obey one command of    *)
(* the ground, and it may end a read of the sensors.  The session of       *)
(* ota_mode is OtaSession; here it goes on, fails, or restarts the         *)
(* processor.  The hardware may come up or not, fail and be repaired;      *)
(* radiation may also hit what is not triplicated.                         *)
(***************************************************************************)
EXTENDS Tmr, Naturals

CONSTANTS
  MAX_INIT_RETRIES,
  STABILIZE_TIMEOUT,      \* 0 with FAST_BOOT
  READ_TICKS,             \* turns that a read of the sensors takes
  BATTERY_STATUS,         \* percent; nothing in flight writes it
  MaxUpsets,              \* bound: upsets
  Struck                  \* bound: Struck[r], what an upset may make of r

Subsystems == {"radio", "others"}    \* usart and ttc; the other nine

Sys == {"BOOT", "STABILIZE", "RECOVERY", "MISSION"}

Modes == {"nominal", "communication", "ota", "safe", "ultra_low_power",
          "decommissioning"}

\* The variables that system_lifecycle protects.  MISSION_TIMEOUT and
\* TIME_TO_UPDATE_VALUES are never written and left out.
ControlRegion == {"sys", "reset_count", "gnd", "state", "comm", "ota"}

ControlValue == [r \in ControlRegion |->
  CASE r = "sys"         -> Sys \cup {"invalid"}
    [] r = "reset_count" -> 0..(MAX_INIT_RETRIES + 1)
    [] r = "state"       -> Modes \cup {"invalid"}
    [] OTHER             -> BOOLEAN]

PowerOn == [r \in ControlRegion |->
  CASE r = "sys"         -> "BOOT"
    [] r = "reset_count" -> 0
    [] r = "state"       -> "nominal"
    [] OTHER             -> FALSE]

ASSUME LifecycleAssumption ==
  /\ MAX_INIT_RETRIES \in Nat
  /\ STABILIZE_TIMEOUT \in Nat
  /\ READ_TICKS \in Nat \ {0}
  /\ BATTERY_STATUS \in 0..100
  /\ MaxUpsets \in Nat
  /\ Region = ControlRegion /\ Value = ControlValue /\ Initial = PowerOn
  /\ \A r \in Region : Struck[r] \subseteq Value[r]

VARIABLES
  ran,                    \* the turn has run and is to be committed
  init_status,            \* subsystems that are initialised
  s_reinited,             \* RECOVERY has initialised everything
  left,                   \* time to s_stabilize_deadline
  due,                    \* TIME_TO_UPDATE_VALUES has passed since the last poll
  spi_turn,               \* the next poll is for the propulsor
  reading,                \* turns until the read that is under way ends, or 0
  safe,                   \* isSystemSafe of the values that were read last
  danger,                 \* environment: a read would find an unsafe value
  tested,                 \* history: the last init and self test passed, since BOOT was entered
  asked,                  \* history: the ground wants a reset, and BOOT has not been entered since
  upsets, spoilt          \* upsets so far; one was beyond the redundancy

boot    == <<init_status, s_reinited, left, tested>>
polling == <<due, spi_turn, reading, safe>>
world   == <<danger, upsets, spoilt>>
vars    == <<tmrvars, ran, boot, polling, asked, world>>

TypeOK ==
  /\ TmrTypeOK
  /\ ran \in BOOLEAN
  /\ init_status \subseteq Subsystems
  /\ s_reinited \in BOOLEAN
  /\ left \in 0..STABILIZE_TIMEOUT
  /\ due \in BOOLEAN /\ spi_turn \in BOOLEAN
  /\ reading \in 0..READ_TICKS
  /\ safe \in BOOLEAN
  /\ danger \in BOOLEAN
  /\ tested \in BOOLEAN
  /\ asked \in BOOLEAN
  /\ upsets \in 0..MaxUpsets /\ spoilt \in BOOLEAN

\* The sensor structures start with zeros, which is not a safe voltage.
Init ==
  /\ TmrInit
  /\ ran = FALSE
  /\ init_status = {} /\ s_reinited = FALSE /\ left = 0 /\ tested = FALSE
  /\ due = FALSE /\ spi_turn = FALSE /\ reading = 0 /\ safe = FALSE
  /\ danger \in BOOLEAN
  /\ asked = FALSE
  /\ upsets = 0 /\ spoilt = FALSE

----------------------------------------------------------------------------
(* sensors_tick.                                                           *)

Commands == {"none", "REQUEST_DATA", "START_OTA", "END_OTA", "RESET"}

\* What ttc_parse makes of the control variables.
Obeyed(c) ==
  CASE c = "REQUEST_DATA" -> [live EXCEPT !["comm"] = TRUE]
    [] c = "START_OTA"    -> [live EXCEPT !["comm"] = TRUE, !["ota"] = TRUE]
    [] c = "END_OTA"      -> [live EXCEPT !["ota"] = FALSE]
    [] c = "RESET"        -> [live EXCEPT !["gnd"] = TRUE]
    [] c = "none"         -> live

Hears(c) == asked' = (live'["sys"] # "BOOT" /\ (asked \/ c = "RESET"))

\* The sensors' part of isSystemSafe after the tick: a read that ends
\* replaces the values, one that fails leaves them.
Ticks ==
  safe' \in IF reading = 1 THEN {~danger, safe} ELSE {safe}

\* A variant that counts on when no read is under way.
TicksIdleToo == reading - 1

ReadingAfterTick == IF reading = 0 THEN 0 ELSE reading - 1

\* A turn that ticks and starts no read.
OnlyTicks ==
  /\ Ticks
  /\ reading' = ReadingAfterTick
  /\ UNCHANGED <<due, spi_turn>>

\* A variant in which the propulsor keeps the turn.
PollStuck ==
  /\ Ticks
  /\ due' = FALSE /\ spi_turn' = TRUE
  /\ reading' = IF due /\ ~spi_turn THEN READ_TICKS ELSE ReadingAfterTick

\* sensors_read_all: sensors and propulsor take turns; a sensor that is still
\* being read ignores the call.
Poll ==
  /\ Ticks
  /\ IF due
       THEN /\ due' = FALSE
            /\ spi_turn' = ~spi_turn
            /\ reading' = IF ~spi_turn /\ ReadingAfterTick = 0
                            THEN READ_TICKS ELSE ReadingAfterTick
       ELSE /\ reading' = ReadingAfterTick
            /\ UNCHANGED <<due, spi_turn>>

----------------------------------------------------------------------------
(* BOOT, STABILIZE and RECOVERY.                                           *)

\* A turn of the loop in the state s.
Turn(s) == open /\ ~ran /\ ran' = TRUE /\ live["sys"] = s

KeepBanks == UNCHANGED <<bank_b, bank_c, open, hits>>

\* init_all tries what is not initialised yet; then the self test.
InitAll(done, passes) ==
  /\ init_status' = init_status \cup done
  /\ tested' = (init_status' = Subsystems /\ passes)

BootDone ==
  /\ Turn("BOOT")
  /\ InitAll(Subsystems, TRUE)
  /\ live' = [live EXCEPT !["sys"] = "STABILIZE", !["reset_count"] = 0]
  /\ left' = STABILIZE_TIMEOUT
  /\ KeepBanks /\ UNCHANGED <<s_reinited, polling, asked, world>>

\* The count of failures stops at the first value that RECOVERY answers.
Counted ==
  IF live["reset_count"] > MAX_INIT_RETRIES THEN live["reset_count"]
  ELSE live["reset_count"] + 1

BootFail(done, passes, radio) ==
  /\ Turn("BOOT")
  /\ LET tried == init_status \cup done
         last  == Counted > MAX_INIT_RETRIES
     IN /\ ~(tried = Subsystems /\ passes)
        /\ init_status' = IF last THEN (tried \ {"radio"}) \cup radio ELSE tried
        /\ live' = [live EXCEPT
                      !["sys"] = IF last THEN "RECOVERY" ELSE "BOOT",
                      !["reset_count"] = Counted]
  /\ tested' = FALSE
  /\ KeepBanks /\ UNCHANGED <<s_reinited, left, polling, asked, world>>

Stabilize(c) ==
  /\ Turn("STABILIZE")
  /\ OnlyTicks
  /\ live' = IF init_status # Subsystems
               THEN [Obeyed(c) EXCEPT !["sys"] = "RECOVERY"]
             ELSE IF left = 0 THEN [Obeyed(c) EXCEPT !["sys"] = "MISSION"]
             ELSE Obeyed(c)
  /\ Hears(c) /\ KeepBanks /\ UNCHANGED <<boot, world>>

RecoveryInit(c, done, passes) ==
  /\ Turn("RECOVERY")
  /\ OnlyTicks
  /\ ~s_reinited
  /\ InitAll(done, passes)
  /\ s_reinited' = tested'
  /\ left' = IF tested' THEN STABILIZE_TIMEOUT ELSE left
  /\ live' = Obeyed(c)
  /\ Hears(c) /\ KeepBanks /\ UNCHANGED world

\* A variant that leaves s_reinited set for the next recovery.
RecoveryWaitsKept(c) ==
  /\ Turn("RECOVERY")
  /\ OnlyTicks
  /\ s_reinited
  /\ live' = IF left = 0 THEN [Obeyed(c) EXCEPT !["sys"] = "MISSION"]
             ELSE Obeyed(c)
  /\ Hears(c) /\ KeepBanks /\ UNCHANGED <<boot, world>>

RecoveryWaits(c) ==
  /\ Turn("RECOVERY")
  /\ OnlyTicks
  /\ s_reinited
  /\ s_reinited' = (left > 0)
  /\ live' = IF left = 0 THEN [Obeyed(c) EXCEPT !["sys"] = "MISSION"]
             ELSE Obeyed(c)
  /\ Hears(c) /\ KeepBanks /\ UNCHANGED <<init_status, left, tested, world>>

\* A variant of the switch without a default.
UnknownSysIgnored ==
  /\ Turn("invalid")
  /\ KeepBanks /\ UNCHANGED <<live, boot, polling, asked, world>>

UnknownSys ==
  /\ Turn("invalid")
  /\ live' = [live EXCEPT !["sys"] = "BOOT"]
  /\ Hears("none") /\ KeepBanks /\ UNCHANGED <<boot, polling, world>>

----------------------------------------------------------------------------
(* MISSION: the handler of the mode, getMode, then the ground reset.       *)

Charged  == BATTERY_STATUS > 70
Critical == BATTERY_STATUS < 15

\* getMode, for the flags that the tick has left.
getMode(f, isSafe) ==
  CASE f["state"] = "nominal" ->
         IF ~isSafe THEN "safe"
         ELSE IF f["comm"] THEN "communication" ELSE "nominal"
    [] f["state"] = "communication" ->
         IF ~isSafe THEN "safe"
         ELSE IF ~f["comm"] THEN "nominal"
         ELSE IF f["ota"] /\ Charged THEN "ota" ELSE "communication"
    [] f["state"] = "ota" ->
         IF f["ota"] THEN "ota" ELSE "communication"
    [] f["state"] = "safe" ->
         IF Critical THEN "ultra_low_power"
         ELSE IF f["ota"] /\ Charged THEN "ota"
         ELSE IF isSafe THEN "nominal" ELSE "safe"
    [] f["state"] = "ultra_low_power" ->
         IF Critical THEN "ultra_low_power" ELSE "safe"
    [] f["state"] = "decommissioning" -> "decommissioning"

\* BATTERY_STATUS is part of isSystemSafe.
IsSafe == safe' /\ BATTERY_STATUS >= 30

WithMode(f) == [f EXCEPT !["state"] = getMode(f, IsSafe)]

\* A variant that looks at the flag before the handler and clears it after.
ResetTooEarly(f) ==
  /\ live' = [f EXCEPT !["gnd"] = FALSE,
                       !["sys"] = IF live["gnd"] THEN "BOOT" ELSE @]
  /\ tested' = (tested /\ ~live["gnd"])
  /\ KeepBanks /\ UNCHANGED <<init_status, s_reinited, left, world>>

\* The end of sys_do_mission.
GroundReset(f) ==
  /\ live' = IF f["gnd"]
               THEN [f EXCEPT !["gnd"] = FALSE, !["reset_count"] = 0,
                              !["sys"] = "BOOT"]
               ELSE f
  /\ tested' = (tested /\ ~f["gnd"])
  /\ KeepBanks /\ UNCHANGED <<init_status, s_reinited, left, world>>

InMode(m) == Turn("MISSION") /\ live["state"] \in m

\* nominalMode and safeMode, which alone start reads.
PollingMode(c) ==
  /\ InMode({"nominal", "safe"})
  /\ Poll
  /\ GroundReset(WithMode(Obeyed(c))) /\ Hears(c)

\* communicationMode and ultraLowPowerMode.
ListeningMode(c) ==
  /\ InMode({"communication", "ultra_low_power"})
  /\ OnlyTicks
  /\ GroundReset(WithMode(Obeyed(c))) /\ Hears(c)

\* otaMode: the session goes on, or is given up and withdraws the request.
OtaMode(c, failed) ==
  /\ InMode({"ota"})
  /\ OnlyTicks
  /\ LET f == Obeyed(c)
     IN GroundReset(WithMode([f EXCEPT !["ota"] = @ /\ ~failed])) /\ Hears(c)

\* otaMode at its end: hal_system_reset.
OtaReset ==
  /\ open /\ ~ran /\ live["sys"] = "MISSION" /\ live["state"] = "ota"
  /\ Restart /\ ran' = FALSE
  /\ init_status' = {} /\ s_reinited' = FALSE /\ left' = 0 /\ tested' = FALSE
  /\ due' = FALSE /\ spi_turn' = FALSE /\ reading' = 0 /\ safe' = FALSE
  /\ asked' = FALSE /\ UNCHANGED world

\* decommissioningMode does not tick; no case of mission_lifecycle answers a
\* value that is no mode.
DeafMode ==
  /\ InMode({"decommissioning", "invalid"})
  /\ GroundReset(live) /\ Hears("none")
  /\ UNCHANGED polling

SysTurn ==
  \/ BootDone
  \/ \E done, radio \in SUBSET Subsystems, passes \in BOOLEAN :
       radio \subseteq {"radio"} /\ BootFail(done, passes, radio)
  \/ \E c \in Commands :
       \/ Stabilize(c)
       \/ \E done \in SUBSET Subsystems, passes \in BOOLEAN :
            RecoveryInit(c, done, passes)
       \/ RecoveryWaits(c)
       \/ PollingMode(c)
       \/ ListeningMode(c)
       \/ \E failed \in BOOLEAN : OtaMode(c, failed)
  \/ OtaReset
  \/ DeafMode
  \/ UnknownSys

----------------------------------------------------------------------------
(* The loop, the clock and the world.                                      *)

CtrlScrub == Scrub /\ UNCHANGED <<ran, boot, polling, asked, world>>

CtrlCommit ==
  ran /\ ran' = FALSE /\ Commit /\ UNCHANGED <<boot, polling, asked, world>>

\* A turn reads the clock once: time passes between turns.
Clock ==
  /\ ~open
  /\ left' = IF left = 0 THEN 0 ELSE left - 1
  /\ due' = TRUE
  /\ UNCHANGED <<tmrvars, ran, init_status, s_reinited, tested, spi_turn,
                 reading, safe, asked, world>>

DangerChanges ==
  /\ ~open
  /\ danger' = ~danger
  /\ UNCHANGED <<tmrvars, ran, boot, polling, asked, upsets, spoilt>>

\* An upset of a protected byte; of a live copy within a turn it is beyond
\* the redundancy.  One of a bank within a turn is overwritten unread.
Upset(r, v) ==
  /\ upsets < MaxUpsets /\ upsets' = upsets + 1
  /\ \/ UpsetLive(r, v) /\ spoilt' = (spoilt \/ open)
     \/ ~open /\ UpsetBankB(r, v) /\ UNCHANGED spoilt
     \/ ~open /\ UpsetBankC(r, v) /\ UNCHANGED spoilt
  /\ UNCHANGED <<ran, boot, polling, asked, danger>>

\* An upset of init_status or s_reinited, which nothing protects.
UpsetUnprotected ==
  /\ upsets < MaxUpsets /\ upsets' = upsets + 1
  /\ spoilt' = TRUE
  /\ \/ \E s \in init_status :
          init_status' = init_status \ {s} /\ UNCHANGED s_reinited
     \/ s_reinited' = ~s_reinited /\ UNCHANGED init_status
  /\ UNCHANGED <<tmrvars, ran, left, tested, polling, asked, danger>>

Next ==
  \/ CtrlScrub
  \/ SysTurn
  \/ CtrlCommit
  \/ Clock
  \/ DangerChanges
  \/ \E r \in Region : \E v \in Struck[r] : Upset(r, v)
  \/ UpsetUnprotected

Spec == Init /\ [][Next]_vars

\* The super-loop turns and time passes.
FairSpec ==
  /\ Spec
  /\ WF_vars(CtrlScrub) /\ WF_vars(SysTurn) /\ WF_vars(CtrlCommit)
  /\ SF_vars(Clock)

----------------------------------------------------------------------------
(* Properties.                                                             *)

Is(s) == open /\ live["sys"] = s

\* MISSION is entered only with every subsystem initialised and after a self
\* test since BOOT was last entered, by whichever road (init.c:266, 336).
MissionTested ==
  Is("MISSION") /\ ~spoilt => init_status = Subsystems /\ tested

\* Eventually every initialisation and self test succeeds.
HardwareHeals ==
  <>[][open /\ ~ran /\ ran' /\ live["sys"] \in {"BOOT", "RECOVERY"}
         => tested']_vars

\* Once the hardware works MISSION is reached, and again after each reset.
ReachesMission == HardwareHeals => []<>Is("MISSION")

\* A reset that the ground asks for leads to BOOT, wherever it is received: in
\* STABILIZE or RECOVERY, or in the turn of MISSION that looks at the flag.
ResetObeyed == HardwareHeals => (asked ~> (~asked \/ spoilt))

\* From some time on MISSION is not left, the values are dangerous, and a
\* read finds them.
DangerLasts ==
  /\ []~spoilt
  /\ <>[](danger /\ (open => live["sys"] = "MISSION"))
  /\ <>[][open /\ ~ran /\ ran' /\ reading = 1 => ~safe']_vars

\* A lasting danger ends in safe mode for good, as long as the ground has not
\* spoken.
DangerEndsInSafeMode ==
  DangerLasts /\ [](open => ~live["comm"])
    => <>[](open => live["state"] = "safe")

=============================================================================
