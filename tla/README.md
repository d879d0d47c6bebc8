# PS_OBC: specifications, model checking and proofs

PS_OBC is the on-board computer of a CubeSat (Microchip SAMV71, C, no operating
system). One super-loop drives everything: each turn it ticks the drivers, runs the
handler of the current mission mode and asks for the next mode. A separate
bootloader installs firmware that the application received over the radio. This
directory holds TLA+ modules of its core logic, the TLC configurations that check
them, and proofs for TLAPS. Paths below are relative to the repository.

## 1. The system

### Components

| Component | State it keeps | Operations | Hard behaviours | What makes it correct |
|---|---|---|---|---|
| `src/peripherals/ext_memory.c` | `current_status`, telemetry pointer | init, tick, status, erase, OTA write, save telemetry, completion callback | requests dropped silently unless idle; error status is sticky | status and driver agree; every request is answered |
| `src/drivers/qspi_driver.c` | handle: state, operation, address, buffer *pointer*, retry, timeout | start read/write/erase, tick (WREN, check WEL, send, wait busy, error) | missed write enable, chip slower than the timeout, caller's buffer used later | success means the flash holds the data |
| W25Q chip, `src/hal/hal_qspi.c` | cells, busy, WEL, block protection | erase, program, write enable, clear protection | keeps going across a processor restart; programming only clears bits; may keep its protection | |
| OTA mode, `src/app/modes.c` | sub-FSM state, two write buffers, erase frontier, wait time stamp | one handler per state | lost and repeated packets, restarts of a session at any point, memory failures | pending metadata only with a whole image; sessions begin and end |
| `src/peripherals/ttc.c` | `ota_data_started`, `ota_frame_state`, staging buffer, receive and reply buffers, `waiting_tx` | commands, frame scanner, OTA packets, ACK/NACK/READY, telemetry | END over a staged packet; stray frames read as commands; replies dropped when busy | acknowledged packets are kept; a transfer goes through |
| `src/drivers/i2c_driver.c`, `src/hal/hal_i2c.c` | a handle per sensor, `bus_locked`; receive register, stop and recovery | read, tick, bus recovery | five FSMs on one controller; per-byte timeout; a byte too many; a slave that holds SDA | exclusive, fair bus that is never leaked and gets free again; every byte in its place |
| `src/app/sensors.c`, five sensor files | handles, converted values, `spi_turn` | `sensors_tick`, `sensors_read_all`, parsers | polls that find a read under way; order of the ticks; byte order and sign | every sensor is asked again and again; what is published was measured |
| `ota/bootloader` | progress of the copy; internal and external flash | verify, erase, copy, check, clear metadata, jump | power cut anywhere, failing flash | a whole application runs; the update is applied |
| `ota/bootloader`: `ota_verify.c`, `qspi_boot.c` | CRC, offset; retries and attempts | verification in chunks, erase of the metadata | missed write enable, controller that does not report, chip busy for ever | the verdict is right; what is reported cleared is blank; the start is never blocked |
| `src/app/init.c` life cycle | `s_sys_state`, `s_reset_count`, `init_status`, `s_reinited`, deadlines | BOOT, STABILIZE, RECOVERY, MISSION | partial failures, ground reset latched in another state, static flags that outlive a state | MISSION only after a test; always reached again; resets are obeyed |
| `src/app/modeSelecter.c`, `modes.c` mission modes | `state`, `COMM_WINDOW_OPEN`, `OTA_REQUESTED`, time of the last poll | `getMode`, six handlers | stale sensor values decide; modes that start no reads or ignore safety | a lasting danger ends in safe mode |
| TMR: `src/app/seu_data.c`, control banks in `init.c` | three copies per byte | protect, scrub, commit, vote | upset between scrub and commit, double upset | no upset between two turns is ever seen |
| `src/drivers/usart_driver.c`, `src/hal/hal_usart.c` | rx/tx FSMs, ring buffer filled by an ISR | send, receive, ticks, ISR | overrun, receiver that begins again with an old length, lost byte | frames are whole; the receiver stays in its buffer |
| `src/drivers/spi_driver.c`, `src/peripherals/propulsor.c` | transfer FSM, command and receive buffers | transfer, telemetry poll, three commands | late and lost bytes, commands during a poll, checksum read out of the buffer | an answer and a command are never mixed of two |
| rest of the HAL, board tests, host tests, FlexiForce, build files | | | | not modelled: see 7 |

### How they interact

- *Calls:* the mode handler calls `ExtMem_*_Async`, which calls `qspi_*_async`;
  `ExtMem_Tick` pumps `qspi_tick`; `sensors_read_all` starts I2C reads and
  `sensors_tick` ticks handles, radio and memory.
- *Callbacks:* drivers report to `ext_mem_callback`, the sensors' parsers and
  `on_ttc_done`, from within a tick.
- *Polls:* only nominal and safe mode call `sensors_read_all`, so a system in
  communication mode reads nothing; sensors and propulsor take turns (`spi_turn`), and
  `isSystemSafe` judges what was read last.
- *Shared state:* `bus_locked` and the I2C controller; `OTA_REQUESTED`, written by
  ttc.c and modes.c and read by getMode; the staging buffer between ttc.c and
  modes.c; the write buffer that the QSPI handle points to; the metadata sector
  between the application and the bootloader.
- *Interrupt:* `USART0_Handler` puts received bytes into the ring buffer that
  `usart_rx_tick` empties.
- *Messages:* frames with the ground: START_OTA, packets, END packet; READY, ACK.

## 2. The modules

| Module | Models | Composed of |
|---|---|---|
| `NorFlash` | what erasing and programming do to pages | |
| `FlashService` | abstract: what ext_memory.c promises its client | NorFlash |
| `ExtMemory` | ext_memory.c + qspi_driver.c + the chip | NorFlash; implements FlashService |
| `OtaWriter` | OTA sub-FSM, TT&C command and packet handling, mode switching | FlashService (its actions) |
| `OtaSession` | OtaWriter with a ground station and a lossy link | OtaWriter |
| `TtcLink` | the link byte by byte: ISR, ring buffer, USART FSMs, frame scanner, commands and replies, a ground station | |
| `I2cBus` | I2C driver, one handle per sensor, and their schedule | |
| `I2cController` | I2cBus on the controller of hal_i2c.c, with a slave that holds the bus | I2cBus (its variables and actions) |
| `Sensors` | polls, SPI driver, propulsor, and what the sensors' parsers make of their bytes | |
| `Crc32` | the CRC of ota_verify.c, its table, and the definition of CRC-32 | |
| `BootFlash` | verification of the image and erase of the metadata on the external flash | Crc32 |
| `Bootloader` | bootloader_run with power cuts and both flashes | |
| `SafeStore` | abstract: what triple redundancy promises | |
| `Tmr` | seu_data.c and the control banks of init.c, with upsets | implements SafeStore |
| `Lifecycle` | the super-loop of init.c, getMode and the mode handlers, redundancy around each turn | Tmr (its variables and actions) |
| `*_proofs` | theorems about ExtMemory, OtaSession (with OtaWriter), I2cBus (with I2cController), TtcLink, Sensors, Bootloader, BootFlash, Lifecycle (with Tmr) | |
| `MC*` | constants of the instances for TLC | |

### Correspondence with the code

Variables carry the names of the code where it has them (`s_state`, `bus_locked`,
`current_status`, ...); `PROJECT.json` "map" gives the lines of every definition.
One action is one pass of a handler, that is one `case` of its `switch`, split where
the handler branches; a trailing `getMode` or callback is part of the action.
Definitions that a comment calls a *variant* are plausible errors that show that a
property can fail; no specification uses them.

- **ExtMemory.** A page is 128 bytes, one OTA payload. A tick is one action
  (`WriteEnable`, `CheckWel`, `SendCommand`, `WaitBusyDone`, `WaitBusyTimeout`,
  `HandleError`), and the callback sits inside the last three. The chip finishes
  at any time, may miss a write enable, ignores commands while busy, protected or
  without WEL. `expected` is history: what the caller may count on.
- **FlashService.** `status`, one outstanding `req`, its `stage`, and the chip. `Cleared`
  is hal_qspi_clear_write_protection: its write enable is not checked, so it may be
  missed; a busy chip ignores it; and its wait is bounded, so that the chip may still be
  at work when it ends, with this command or with what it did before. `Ignored` allows the
  one dishonest success that the code has: a chip still busy from before a processor
  restart, or protected, drops the command.
- **OtaWriter.** One turn is a frame at most, ticks of the memory, the handler, getMode;
  `heard` keeps frame and handler in turns. A packet is a page; contents `<<v, n>>` make
  the CRC exact. Times are counted up to `WAIT_TIMEOUT` by `Clock`. A missing first byte
  check is `LooksBlank` (a torn sector may look erased). The system is taken to be safe
  and charged, so `getMode` always enters ota mode. A session begins with `BeginSession`,
  which is `Flash!ClearThenSubmit`: if the chip has kept its protection the erases are
  ignored. `late` notes that a session began on a chip that was still at work.
  `Flash!Restart` stands for the memory in a processor reset; the bootloader only erases
  metadata here, what it does in detail is `Bootloader`.
- **OtaSession.** The ground sends packet n until ACK n, as ttc.c expects; it may
  start over, give up, or send END_OTA at any moment. The link holds a frame each
  way, loses any, and spoils the number, length or payload of packets.
- **TtcLink.** A byte is `<<kind, n, i>>`, and `Code` is what the program can tell of
  it. A turn of the super-loop is the mode handler (`Mode...`), `usart_tx_tick`
  (`Tx...`), `usart_rx_tick` (`Rx...`, the callback `on_ttc_done` or
  `on_ota_frame_byte` within) and the end of `ttc_tick` (`TickEnd`), in this order;
  `USART0_Handler` runs between any two of them. The handle is a record with the
  fields of `usart_handle_t`; its one `timeout` serves both directions, as in the code.
  `rx_target` stands for the buffer and the callback, which are set together.
  The session behind the link is reduced to how far it is (`session`): OtaSession
  has it in full. The model starts with the receiver armed (init.c:310). After an abort
  the receiver is still armed for the scanner, so the first byte of the next START_OTA is
  lost and the ground has to repeat it. A failed transmission leaves `waiting_tx`
  set until the next reply is out. A READY is dropped without notice if telemetry
  is still on its way; the model supposes that an erase takes longer than that.
  The ground is a patient stop-and-wait sender: it repeats a frame only when
  nothing of the last one is left (`AtRest`).
- **I2cBus.** Handles 1..N in the order of `sensors_tick`; device and controller
  answer or do not at each tick. `held` and `passed` are history.
- **I2cController.** `polling` says whether the present mode polls; `ModeChange` is the
  end of a turn in a mode that differs in that, and comes whenever it likes. Every action
  of the driver is one of I2cBus together with what its HAL calls do: `Begins` is
  hal_i2c_start, `Restarts` hal_i2c_restart_read, `Takes` hal_i2c_read_byte,
  `StopCondition` hal_i2c_stop, `Recovery` hal_i2c_bus_recovery, which comes after
  hal_i2c_stop at the third failure in a row (i2c_driver.c:9-18). The controller receives
  on its own (`ByteArrives`), one byte ahead of the driver, and stretches the clock while
  its register is full. The driver commands the stop after the last byte, not before it as
  hal_i2c_send_nack would, so one byte too many is received. A slave is cut off only when
  the stop ends in a reset of the controller. `misplaced` is history.
- **Sensors.** `Begin` is the common part of propulsor_read_async and of the three
  commands: they do nothing unless the handle is idle. One action is one state of
  `spi_tick`. A byte that the propulsor sends carries its number, and whether it belongs
  to the present transfer, so that a mixed answer shows. Shifting takes any time (`Shift`)
  or loses the byte (`ShiftLost`); a byte that outlasts the timeout of the driver is over
  before the next transfer begins (`ControllerFree`). The checksum of the propulsor is
  compared with `data[8]` of `data = rx_buf + 1`, the byte behind the nine of the buffer
  (`PROPULSOR_BUF_LEN` is 8): passing or not is a free choice. An answer to a valve
  command is parsed as telemetry too. I2C reads are reduced to their length and their end;
  the parsers are functions on bytes, and `Sent` is what a sensor makes of a value: of the
  IMU two bytes of two's complement for each axis (imu.c:78, test_imu.c:8-10). `polling`
  and `ModeChange` are as in I2cController.
- **Crc32, BootFlash.** A byte is a set of bit numbers, a CRC a set of 32 bits.
  `Update` is the loop of ota_verify_crc over a chunk; `binascii_crc32` is the
  polynomial division that the header promises. The chip misses a write enable, the
  controller reports an end of an instruction that was carried out or not, and the
  chip stays busy as long as it likes.
- **Tmr.** The code votes byte by byte, so a region is one byte; `live` is the
  variable itself. `open` holds from scrub to commit. `hits` is history and carries
  the one assumption on radiation: no byte is hit twice between two passes. In
  SafeStore an upset between turns is a stutter, and one of a live copy within a turn is a
  write, the window that seu_data.h:37 admits.
- **Lifecycle.** A turn of the loop is `CtrlScrub`, one disjunct of `SysTurn`,
  `CtrlCommit`; time and danger change only between turns, since a turn reads the
  clock once. Each state's handler is an action per outcome: `init_all` may
  initialise any subsystems that are not yet, and the self test passes or not. In
  MISSION the disjuncts are the mode handlers, with `getMode` and the ground reset
  at their end, as in `sys_do_mission`. `Poll` and `OnlyTicks` keep of the sensors only
  whether their last values were safe; a read that fails keeps the old ones.
  At most one command is obeyed in a turn. A session inside ota mode goes on, fails or
  resets (`OtaReset`). `BATTERY_STATUS` is a constant: nothing in flight writes it.
  `reset_count` stops at the first value that RECOVERY answers. `tested`, `asked`,
  `spoilt` and `danger` are history and environment.
- **Bootloader.** `pos` is the loop variable of the erase and the copy loop; a cut in the
  middle of either leaves `Torn` pages, a cut in `clear_ota_metadata` leaves metadata that
  describe nothing. Erases, writes and reads may fail at any step, a metadata read that
  fails may yield anything (bootloader.c:107 ignores its result), and an image may be
  accepted that does not fit. `faults` is history and keeps them apart: `"efc"` (internal
  flash), `"read"` (a read that leads to no verdict), `"verdict"` (a read that makes a
  good image look bad) and `"size"` (an accepted image larger than the internal flash).
  What a half-written application does is unknown: here it can only be reset.

## 3. What the runs show

| Run | Bounds | Shows |
|---|---|---|
| `ExtMemory` | small page set, retry and timeout limits 2 or less | `DoneIsDone`: success is real; `RequestAnswered` (live); refinement of FlashService |
| `OtaTransfer` | 3 packets over 2 sectors, 2 ground commands, loss, 1 restart, a chip that may stay protected | acknowledged pages are kept but for the one that END overwrites; silence ends a session and a session asked for begins, or it hangs in the erase of a protected chip |
| `OtaFaults` | 2 images, memory errors, a processor restart anywhere, one packet spoilt or taken for a command, a chip that may stay protected or at work | pending metadata imply the whole image unless a session began on a chip at work; the buffer of a pending write is not touched |
| `TtcLink` | 1 packet and the END packet, commands of 2 bytes, packets of 4, ring buffer of 5, timeout 2, 2 commands or telemetry, 1 fault | frames are whole and the ring never overflows as long as nothing is lost; no write behind the buffer; a transfer that was begun goes through |
| `Sensors` | 2 bytes of telemetry, timeout 1, 1 command, 4 I2C sensors, any changes of mode | answers and commands of the propulsor are never mixed; values other than the IMU's are what was measured; while a polling mode lasts every sensor is polled again and again |
| `I2cController` | 3 handles, 1-2 bytes, timeout 1, bytes of 3 bits, 4 clocks of recovery, 1 slave cut off | exclusion, bounded hold, bytes in place, no overtaking, every read ends, a bus held down gets free while a polling mode lasts |
| `Boot` | 4 images (3 pages, 4 that fill the flash, 5 that are accepted and do not fit, 6 that are not), 4 pages in 2 sectors, 2 power cuts, 1 decay, any failing erases, writes and reads | what is started is whole unless an access failed or an image does not fit; only three things can leave nothing to start from; the application is overwritten only from a whole image; an update is applied unless something fails |
| `BootFlash` | chunks of 2 bytes, 3 write enables, 3 attempts, 2 polls, 2 faults | the verdict on the image is right; cleared metadata are blank; the start is never blocked |
| `Lifecycle` | 1 retry, wait of 1 tick, 1 upset at any place and time, any command in any turn | MISSION only after a test, MISSION is reached again, resets are obeyed, a lasting danger ends in safe mode, redundancy implements SafeStore |

Runs that are expected to fail, each on one property that the repository states:

| Run | Property | Where the code differs |
|---|---|---|
| `OtaAfterFailure` | `StartIsServed` (modes.h:63) | a memory error blocks every later session (modes.c:137, ext_memory.c:25) |
| `LostByte` | `AckMeansWhole` (ttc.c:26, ttc.c:326) | after a lost byte the receiver takes single bytes for packets, and acknowledges one that it has received in part only (usart_driver.c:170) |
| `BootReadError` | `RetryRemains` (bootloader.c:15, ota_protocol.md:259) | a failing read counts as a wrong CRC and erases the metadata of a good image; after a failed copy nothing is left (bootloader.c:229-231) |

In `LostByte` the error leaves length 0 with buffer and callback in place. The next
byte "completes" a packet of which only that byte is new; it is answered with a
NACK or an ACK, and because the answer is under way the receiver is not armed for
the scanner, so that each further byte is a packet again. The CRC over the
image is what catches this in the end. That it takes a lost byte or a stall is proved
(`AcksAreTrue`).

In `BootReadError` an erase or a write fails while the application is replaced, which
leaves the metadata for a retry, as documented. At the next start the read of the image
fails: ota_verify_crc answers false, as it does for a wrong CRC, for which alone
bootloader.c:16 allows that the metadata go. With `Recoverable` the run `Boot` shows that
besides this error only an image that does not fit (`APP_MAX_SIZE` is 0x1F0000, the flash
behind `APP_START_ADDR` has 0x1E0000) and the decay of the stored image can leave nothing
to start from.

### Where else code and documents differ

Found while modelling; the runs above do not depend on them.

- The END packet is copied into the staging buffer over a data packet that was
  acknowledged and not yet taken (ttc.c:302), though ttc.h:55 says that the payload stays
  until ttc_ota_clear_ready; the image then fails its CRC. A stop-and-wait ground avoids
  it only if it waits longer than for the ACK. `AcknowledgedPagesAreKept` names this page
  (`Overwritten`), and says that no other is lost.
- The write protection of the chip is taken away without a look at the write enable
  (hal_qspi.c:515-545). If it stays, the erase is ignored with no memory error, and
  WAIT_ERASE looks at the sector again for ever (modes.c:193-202), which modes.c:142-144
  means to prevent. The liveness properties name this (`EraseHangs`). The wait in it is
  bounded, so a session may also begin on a chip that is still at work after a restart;
  the erase of the metadata is then ignored, and the image erased under metadata that stay
  pending (`late` in `PendingImageIsWhole`).
- The start of the wait for packets is static and survives a session
  (modes.c:230), so a new session can be given up before the interval of
  modes.c:218 has passed.
- After a failed copy "app antiga" (bootloader.c:283) is a half-written application:
  the old one has been erased. If its first page is in place it is started.
- Once the ground has opened the communication window (ttc.c sets COMM_WINDOW_OPEN,
  nothing clears it) the satellite stays in communication mode, which reads no sensor
  (modes.c:95): a danger that arises then is never seen, against test_fsm.c:27, no new
  reading is begun, against test_sensors.c:24, and a bus that is held down stays so.
  `EverySensorIsPolled` and `StuckBusIsFreed` promise something only while a polling mode
  lasts.
- The IMU is asked for 6 bytes, two for each axis of the accelerometer (imu.c:78), and its
  tests expect two's complement (test_imu.c:8-10). Its parser (imu.c:34-47) takes 9
  unsigned bytes, one for each axis: what is published as gx, gy, gz are bytes of the
  accelerometer too, and mx, my, mz stay 0. `TelemetryIsTrue` leaves the IMU out for that
  reason.
- Ten entries of `crc32_table` are wrong (10, 14, 15, 52-55, 173-175: `WrongEntries`, an
  assumption that TLC evaluates), though ota_verify.c:8 claims compatibility with
  binascii. Only crc32_compute uses the table, and nothing calls that;
  ota_verify_crc computes bit by bit and is right.
- The bus recovery ends its clocks at the first bit that is 1, and the stop that
  follows begins with another falling clock (hal_i2c.c:461-479): the slave may hold
  SDA again. `StuckBusIsFreed` holds because later recoveries take it further.

`AcknowledgedPagesAreKept` holds for one image and a link that loses but spoils nothing,
on a chip that is not protected, whatever restarts and memory errors come; so it is
checked in `OtaTransfer` and proved (section 4). TLC finds it violated without these
conditions:

- A second image, begun while a session receives, after a START_OTA that was repeated, so
  that a second READY is on its way (three ground commands; two are too few). Its
  START_OTA is swallowed (ttc.c:131), its packets go on in the old session and are
  programmed over pages of the first image without an erase, each of them acknowledged.
  The CRC catches it.
- A chip that has stayed protected, for instance because it was busy after a restart of the
  processor: it ignores erases and writes, and the pages are acknowledged.
- A packet that the link has spoilt and whose number is that of another page.

`HoldIsBounded` also shows what the driver's tests leave out: the timeout starts again
after the address and with each byte (i2c_driver.c:146), so that `I2C_TIMEOUT_MAX + 10`
ticks, which test_i2c_sensor_realtime.c:61 gives as the limit of a transfer, is not one
for a slow device; `MaxHold` is.

### Why the bounds are enough

The interesting steps of the OTA writer are at the start of a transfer, at the boundary of
a sector, at its end, and in a session that replaces another: two sectors of which the
second is partly used, and two sessions, contain them all. Two images are needed to tell
stale pages and metadata from new ones. In `OtaFaults` one restart and one spoilt packet
come at any point, memory errors at every point. Three handles are the least with which
one can be overtaken while it waits, two bytes the least with which a timeout starts anew.
In `TtcLink` a fault can hit any byte of a transfer that has a data packet and an END
packet, before, in or after a command; the ring buffer has room for one packet only, the
least that the code could work with. In `Sensors` two bytes are the least that can be
mixed; a command is asked for at any moment of a poll. In `I2cController` a recovery has
more clocks than a byte has bits, as in the code (9 and 8). For `BootFlash` two faults can
hit one attempt and its retry, and the images reach over a chunk that is not full. For the
bootloader two cuts allow a cut during the recovery from a cut, accesses may fail at every
step without a bound, and the four sizes lie below, at and above what fits and above what
is accepted; `BootReadError` needs no cut and no image that does not fit. In `Lifecycle`
one upset is what the redundancy is for, and `const_Struck` makes it write the values that
do most harm: MISSION, a mode that hears nothing, a flag that is set, a count at its
limit; one retry tells a count that grows from one that does not. `ImagePages`, `MaxSeq`,
`MaxCommands`, `MaxNoise`, `MaxRestarts`, `MaxCuts`, `MaxDecays`, `MaxUpsets`,
`MaxFaults`, `MaxOrders`, `Struck`, `Images`, `Damages` and `Measured` are the bounds; the
rest are parameters of the code. In ExtMemory, OtaSession, I2cBus, I2cController, TtcLink,
Sensors, Bootloader, BootFlash, Tmr and Lifecycle the proofs remove the bounds from the
properties they cover.

### Fairness

The super-loop never blocks for ever and calls every tick each turn, so ticks and
handlers are weakly fair (`WF_vars(Tick)`, `SensorsTick`, `Handler`, `MemTick`).
`RequestAnswered` needs nothing of the chip. `OtaSession` also assumes that the
chip finishes and time passes; nothing is assumed of the ground or the link, and
`SilenceEndsSession` speaks of the behaviours in which frames stop arriving. In
`Lifecycle` the three steps of a turn are weakly fair, since the loop always comes
round; the clock is strongly fair because it is enabled between turns only.
`ReachesMission` and `ResetObeyed` suppose that from some time on initialisation and
self test succeed (`HardwareHeals`); the properties about safe mode suppose that the danger
lasts, MISSION is not left, and a read that ends finds it (`DangerLasts`). In
`Bootloader` only `Boot` is fair: it is straight-line code. Its loop
`while (1)` without a valid application is a real stop, hence
`CHECK_DEADLOCK FALSE` in its runs. `BootFlash` ends when its two tasks are
done, which is why its run does not look for deadlocks either; its program is weakly
fair and its chip is not.

In `TtcLink` the turn of the loop, the interrupt handler and the flash are weakly fair. A
byte that is ready goes out (`TxByte`, strongly: the transmitter may stall, but not every
time), silence is noticed, and the ground repeats and listens (strongly: it can do so only
between turns). In `Sensors` and `I2cController` nothing makes the mode change, and
nothing keeps it from changing: the properties suppose that a polling mode lasts
(`<>[]polling`), in which nominalMode and safeMode poll whenever their interval is over.
In `Sensors` all fairness is weak, since a poll may come when the handles are busy. In
`I2cController` a poll comes between two turns of the ticks (`turn = 1`), so that it is
enabled again and again but not all the time, and its fairness has to be strong. The ticks
are weakly fair in every mode. A byte in the SPI controller is shifted or lost in the end.

## 4. What is proved

All theorems hold for every value of the constants that the modules' assumptions
allow. Each module has an inductive invariant `IInv`, and the proof shows
`Init => IInv` and `IInv /\ [Next]_vars => IInv'`, one step per action.

- **ExtMemory_proofs.** `IInv` is TypeOK, StatusAgrees, OnCourse and what the retry
  and timeout counters are below in each state. StatusAgrees alone is inductive
  with types; OnCourse needs StatusAgrees, so that a request always finds the driver
  idle. Then `DoneIsDone` follows for the step that reports, and `Refinement` maps
  each action to a step of FlashService or a stutter.
- **OtaSession_proofs.** `PendingIsWhole` follows the order metadata erased, image
  written, CRC checked, metadata written, and what may come between. While a session
  overwrites the firmware (`Overwrites`) it is `Clear`: no metadata are pending, neither
  on the flash nor in what the chip is doing, or the chip is protected and overwrites
  nothing, or the erase of the metadata is still in the queue. A write of metadata in the
  queue means that the image is on the flash and no session overwrites it, also when the
  session that asked has been replaced (`Requested`). `InStep` says that a chip that is
  asked for anything is ready for it, or protected. That is not so once a session has
  begun on a chip at work, so the invariant is `late` or `IInv`; only `Sync`, how client,
  driver and sub-FSM agree, holds in any case. `BuffersAreStable` is then a matter of
  `status`: whatever changes a buffer needs it to be idle, and a queued request keeps it
  busy. The proof assumes that no firmware page equals `Blank` or `Torn`
  (`ContentAssumption`) and that the numbers of packets stay below that of END: they are
  16 bits wide, and 0xFFFF is END. `AcknowledgedKept` states `AcknowledgedPagesAreKept`
  under `Undisturbed`, one image and a link that spoils nothing, for any restarts, memory
  errors, lost frames and number of sessions. Its invariant `AInv` has two parts. `Outer`
  holds in any case: an unprotected chip ignores only what is asked when a session begins
  (`Able`), nothing is acknowledged before a session receives (`Waiting`), and the frames
  on their way are of packets the ground has reached (`InOrder`). `Inner` holds unless the
  chip is protected: the erase that prepares a session does so (`Prepared`); while the
  session receives, the pages before the `Frontier`, the next sector to erase, are right
  or blank (`Ongoing`), and one that was acknowledged is staged, being written, or right
  and before the frontier (`Acknowledged`); and once END has come, all but the last stay
  on the flash (`Closing`). The values that stand for no frame and no request are
  themselves none (`NothingAssumption`).
- **I2cBus_proofs.** `NoCrossTalk` is not inductive: besides the lock it needs
  `LockHasOwner`, and `HoldIsBounded` needs `Progress`, which bounds `held` by what state,
  index and timeout of the owner allow. `LockIsFair` needs a queue argument: counting from
  the handle that is ticked next, those that have passed a waiting handle lie before it in
  the order of the ticks. For the controller, `ControllerIsABus` shows that each step of
  the controller's model is one of I2cBus or a stutter, so that its theorems carry over.
  `BytesAreInPlace` needs to know that a read under way has taken `index` bytes and that
  the register holds the next one or nothing.
- **TtcLink_proofs.** `ReceiverStaysInBuffer` rests on `Fits`: the length fits the buffer
  of the present target, and a reception under way has not reached its length or is at its
  first byte. The second case is what a reception with length 0 after an error begins
  with. One lemma per way in which a handler or the driver changes the handle shows that
  it keeps `Fits`. `FramesArriveWhole` has an invariant (`CleanUnlessFaults`) of four
  phases, commanding, preparing, transferring and finishing. In each it says which bytes
  of which frame are in the air, in the ring and in the buffer, and who waits for whom; so
  there is never more on the way than the ring holds. `AcksAreTrue` adds `Backed`: an
  acknowledgement, on the air or on its way down, answers a packet that was received
  whole. The numbers of packets must stay below that of END, 0xFFFF (`LinkAssumption`).
- **Sensors_proofs.** `IInv` says how many bytes the propulsor has heard in each state of
  the driver, that these are the beginning of what was asked for, and that what the
  controller and the buffer hold of the present transfer has its number. From it come
  `CommandsAreWhole`, `TelemetryIsAFrame` and the types. `TelemetryIsMeasured` computes
  with the bytes: what each parser but that of the IMU puts together is what was taken
  apart, for all values that fit (`MeasuredAssumption`) and whatever the parser does not
  read.
- **Bootloader_proofs.** `IInv` adds `Copying`: what is being installed is whole, is not
  larger than `APP_MAX_SIZE`, and fits the flash unless `faults` says otherwise; the pages
  before `pos` are in place. None of the theorems assumes anything of what fails, nor that
  `APP_MAX_SIZE` fits the flash; where a failure breaks the claim, the claim names it by
  `faults`. `CopiesOnlyWholeImages` names none. `WholeImages` (nothing has failed) and
  `NeverBricked` (none of `"verdict"`, `"size"` and no decay) are invariants of the form
  *unless such a fault has been met*: `faults` only grows (`FaultsGrow`), and each step
  without one keeps a whole application or an image that is accepted and fits
  (`RetryRemains`). `MetadataKept` goes step by step: whatever erases metadata is the end
  of a good copy, a bad image, or a misreading.
- **BootFlash_proofs.** `Erasing` relates what the chip does, its write enable and the
  place in the driver: metadata are torn exactly while an erase goes on, and the driver
  that sees the chip ready has begun an erase, or an earlier one has come to its end. From
  it comes `ClearedIsBlank`. What the CRC computes is proved by induction over bits, bytes
  and chunks; as no prover can take an induction theorem with an operator, each induction
  speaks of the set of numbers for which a claim holds, and rests on `LeastNumber`.
  `CrcIsOfTheGround`: after each bit, the word of the bootloader is that of the ground in
  a mirror, exclusive or what is left of the byte (`FeedMirrors`). `VerdictIsOfTheCrc`:
  the loop may stop and go on after any byte (`Chunks`). `VerdictRight` adds
  `DamageShows`, that no damage in `Damages` leaves the CRC as it was. TLC evaluates that
  for one and two wrong bits in the images of the run; for images of any length
  `DamagedByteShows` proves it of whatever befalls one byte. A damage of several bytes may
  go unnoticed, as with every CRC.
- **Tmr** (in Lifecycle_proofs). Its invariant says that between two turns a byte that was
  not hit has three equal copies and one that was hit still two, so an upset leaves the
  vote as it was (`UpsetHarmless`); `Refinement` maps each step to one of SafeStore.
  Region and Value are arbitrary; that a byte is hit once at most between passes is part
  of the model.
- **Lifecycle_proofs.** `MissionTested` speaks of the variables within a turn. The
  invariant must also speak of what they are worth between turns, that is of the next
  vote (`Worth`), and of the states that lead to MISSION: `Earned` says that STABILIZE
  follows a test, and that `s_reinited`, a static variable, never outlasts RECOVERY. One
  lemma per handler shows that what it writes is legal and keeps `Earned`; the
  redundancy's own invariant is that of Tmr. Number and effect of the upsets are
  arbitrary.

Only model-checked: liveness (`RequestAnswered`, `EveryReadEnds`, `StuckBusIsFreed`,
`EverySensorIsPolled`, `TransferGoesThrough`, `SilenceEndsSession`, `StartIsServed`,
`UpdateIsApplied`, `FlashNeverBlocks`, `ReachesMission`, `ResetObeyed`,
`DangerEndsInSafeMode`) since liveness under fairness and ENABLED are out of the
prover's reach. The ten wrong entries of `crc32_table` are found by evaluation on all 256
bytes, since nothing calls what uses them. No module with a theorem
reaches a recursive operator.

## 5. Hazards

`PROJECT.json` "hazards" lists, with their lines, the situations a test would hardly
reach, the properties that watch over each, and those no module covers yet.

## 6. What remains to be done

1. TtcLink and OtaWriter in one: the link byte by byte under the whole session.
2. A ground reset in the middle of an OTA session: Lifecycle has the reset and OtaSession the
   session, but not both together.
3. A stored image that changes between its verification and its copy, and an erase command
   that the chip misses after its write enable was seen.

## 7. Not modelled, and why

- Register programming of the HAL, start-up code, linker scripts, debug output: pure
  I/O. What the drivers see of it is a free choice in their models.
- Conversion of sensor values into floating point (a division of what the models hold).
- `qspi_read_async` with READING/WRITING, I2C WRITE/WAIT_TX, the blocking and DMA paths
  of the USART and of ttc.c, on_ttc_tx_done and on_ota_drain_done: no call reaches them.
- The contents of telemetry; its storage (ext_memory.c:76 does not stop at the end of the
  log region, but sensors_save_to_flash, the only caller, is never called).
- `seu.c`, whose store nobody fills, and the statistics of seu_data.c; three different
  copies of one byte (seu_data.c:113), which take two upsets between two passes.
- Board tests, host tests and mocks, empty source files, generated and vendor files.
