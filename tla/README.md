# A TLA+ model of the Seatel ICU firmware

The firmware under `src/software` replaces the control unit of a Sea Tel
antenna. It reads an inertial sensor and an azimuth encoder, turns targets from
a web page and from a rotator API into motor torques, and sends these to the
motor drive (MDE). This directory holds TLA+ models of that code, TLC
configurations that check them, and TLAPS proofs.

The firmware is a handful of ChibiOS threads that share plain global variables.
The application takes no lock. Most of what can go wrong depends on where a
thread is preempted, on the widths of integers, on commands that arrive in the
middle of something, or on bytes that are lost; this is what the models are
about.

## 1. The system

### Threads and priorities

| thread | source | priority | what it does |
|---|---|---|---|
| `mde` | `mde.c` | HIGHPRIO | powers the drive, reads the encoder, sends the torques, every 3 ms |
| `imu` | `imu.c` | HIGHPRIO | reads accelerometers and rates, computes the elevation, every 3 ms |
| `gps` | `gps.c` | HIGHPRIO | parses the messages of the GPS receiver |
| `ocxo` | `ocxo.c` | HIGHPRIO | disciplines the reference oscillator with the GPS pulse |
| `ctrl` | `ctrl.c` | NORMALPRIO | failsafe, calibration, control loops, every 20 ms |
| `main` | `main.c` | NORMALPRIO | starts everything, then feeds the watchdog |
| `ina3221` | `ina3221.c` | NORMALPRIO - 20 | reads six voltages and currents |
| `apiserver` | `api.c` | LOWPRIO + 3 | rotator protocol (Gpredict) on port 4533 |
| `httpserver` | `http.c` | LOWPRIO + 2 | web page, status, commands |
| `blinker` | `main.c` | LOWPRIO | blinks |

There is one core and no time slicing (`CH_CFG_TIME_QUANTUM` is 0). A thread
loses the processor to a thread of higher priority at any instruction, and to
one of lower priority only when it blocks. `ctrl` blocks in two places: the
20 ms sleep at the end of an iteration and the 1000 ms sleep at the start of a
calibration. A network thread runs in these sleeps, and can be preempted between
any two stores of a setter when a sleep ends.

### State, operations and interactions

* **Modes and targets** (`ctrl.c:10-28`): per axis a motor state
  (CONST_TORQUE, CONST_SPEED, TARGET_POSITION) and a target; for azimuth also a
  calibration flag. Written by the setters (`ctrl.c:30-76`, `102-104`), which run
  in the API and web threads, and by the control loop.
* **Torques** (`mde.c:5-7`): written by the setters and the control loop, read
  by `mde`, one by one, when it sends them.
* **Readings**: `enc_az`, `enc_az_speed` (`mde.c`), accelerations, rates,
  elevation (`imu.c`). Written at high priority, read by `ctrl`.
* **Offsets** `enc_az_off`, `imu_el_off`: set from the web page, added to the
  readings by the control loop and by the API's position query (azimuth only).
* **Power of the drive** (`mde.c:13-15`): two command flags and a state.
* **Stall guard**: `ctrl` stores the time of its last iteration; `mde` talks to
  the drive only if that is less than 100 ms ago.
* **Debug log** (`debug.c`): `ctrl` and `ocxo` append, the web server empties.
* **Connections**: both servers take theirs from one pool of lwIP.
* **OCXO, GPS, power monitor**: produce values that only the status page shows.

### What should hold

1. The control law points the right way for every pair of 16-bit angles, and its
   torques stay within their limit and have the right sign.
2. A manual torque, STOP above all, is what the motor gets, whatever the control
   loop was doing.
3. When the inertial sensor fails or the antenna spins, all motors lose their
   torque, in that iteration and for as long as the readings stay bad.
4. The drive is only talked to when it is powered and initialised; a power
   command takes effect; torques reach their motors.
5. When the control thread stalls, the communication stops; the measured speed
   is right also after a pause.
6. The log stays in its bounds and its texts whole; the oscillator gets locked;
   GPS messages and voltages that are shown are genuine; requests are answered
   and connections are given back.

## 2. Modules

| module | models | correspondence |
|---|---|---|
| `CInt` | C integer conversions | `ToUInt16`, `ToInt16`, `ToInt8`, truncating division |
| `ControlLaw` | `ctrl.c:156-187`, `192-226` | one operator per computed quantity, integer widths kept |
| `Imu` | `imu.c:221-227` | the averaged elevation rate, from five readings and their biases |
| `ControlStep` | one evaluation of `ControlLaw` and `Imu` | inputs latched, `Evaluate`, results compared with references |
| `Ctrl` | `ctrl.c`, commands of `http.c` and `api.c` | below |
| `Mde` | thread of `mde.c`, torque frames, `imu_calibrate` | below |
| `PowerSwitch` | abstract specification | what the power commands promise |
| `StallGuard` | `last_loop_update`, `ctrl_is_running` | a wrapping clock, two sleeping threads |
| `Encoder` | `mde.c:130-150` on top of `StallGuard` | a burst in steps: position and speed of a turning antenna |
| `Debug` | `debug.c` | two writers and a reader, byte by byte |
| `Ocxo` | `ocxo.c` | interrupt and thread, access by access |
| `Gps` | `gps.c` | line buffer and parser, character by character |
| `Ina3221` | `ina3221.c` | transfer by transfer, each may fail |
| `Network` | accept and serve loops of `api.c` and `http.c`, lwIP's `accept_function` | pool, mailboxes, clients |
| `MC*` | instances for TLC | grids, sensor samples |
| `*_proofs` | theorems | section 5 |

**`Ctrl`.** `mem` holds the globals, one cell per C variable. A setter is the
sequence of its stores in program order; `todo[t]` is what thread `t` still has
to store, and `Execute(t)` performs one store. `CanRun` is the priority rule.
The loop is one action per block: `Failsafe`, `CalSkip`/`CalStart`/`CalWake`/
`CalWatch`, `AzControl`, `ElControl`, `SkControl`. Calls of setters made by the
loop itself go through the same lists. `EncReading` and `ImuReading` publish new
readings between any two steps. `asked`, `order`, `tripped` and `stopped` are
history variables for the properties.

Abstractions: a block sees one encoder sample and, the two reads of the
elevation rate apart, one IMU sample. The sample sets are arbitrary in the
proofs, so a mixture of an old and a new reading is a sample as well.
`az_tgt_pos_spd` and `el_tgt_pos_spd` are left out: no code stores anything
but 0 in them. `az_set_const_spd` has no caller. `old_az`, which the code does
not initialise, starts with a value that no encoder reports.

**`Mde`.** An action is the code from one blocking call to the next. `line` and
`dev` are the power line and the drive itself (external): how many
initialisation frames it got since it was powered, and the torques it made of
the frames it received. A torque frame is the 16-bit number that
`mde_cmd_set_mot_trq` computes, with its check bit. Whether `ctrl_is_running()`
holds is left open: `NoBurst` is always possible.

**`StallGuard`, `Encoder`.** Time in ticks, modulo `TimeMod`. A thread whose
sleep is over runs before time moves on. `TIME_I2MS` rounds up, as the macro
does. A burst takes up to `BurstTime`, and a stall may last longer than a turn of
the clock. `Encoder` adds an antenna that turns at a constant rate, in counts per
second; its position is in parts of a count, of which the encoder shows whole
ones. A burst has three steps, between which time goes on: `Sample` (the
exchanges that fetch the position), `Publish` (the speed, with a first read of
the clock) and `Stamp` (the second read, stored for the next burst). The status of
the exchange is tested as in the code, although `mde_exchange` always returns
true (`mde.c:47`). `old_x` and `old_t` start with any value, and a quotient that
is rounded, infinite or not a number is a choice over the results the conversion
can leave. The two bytes of a position are taken as one sample; whether the drive
latches them is not visible in this code.

**`Debug`.** A text of n characters is n, n - 1, ..., 1, so that a missing piece
can be seen. `strlen` is one step: a thread that preempts it appends a whole text
before it returns, and either result leads to a state the model has. All other
accesses are single bytes.

**`Ocxo`.** One action per access that the interrupt can separate. The compiler
may keep a counter in a register or read it again: both are allowed. `Counts` is
the oscillator (external): two steps of `dac_val` change a count by at most one.
The interrupt comes at most once in two passes of the thread, which does a
hundred passes between two pulses. The LED and `last_pulse`, which drives it, are
left out.

**`Gps`.** A character is its line and its place there; the first one stands for
the name of the message, on which `gps_parse` branches. The conversions of the
fields are left out: a property is about where a field's text comes from. Zero
bytes, which the thread skips, are not sent.

**`Ina3221`.** A value is the round in which it was measured. The sleeps of the
setup are part of the actions.

**`Network`.** A connection waits in the mailbox of its server and keeps its
place in the pool. `asked` has the connections with a request that was not
served; what a request does is in `Ctrl`, `Mde` and `Debug`. A client waits for
an answer before it asks again. Any request to the rotator interface may be the
quit command, and the history variable `quit` has the connections that sent it.

## 3. Runs

All passing runs finish in about a minute or less.

| run | checks | result |
|---|---|---|
| `control_law` | `AzSpeedFollowsShortestWay`, `AzTorqueExactInRange`, `ElSpeedPointsAtTarget`, `ElTorqueOpposesError`, `ElRateExactWhenSafe` | holds, 536,808 states |
| `control_loop` | `TypeOK`, `AzManualHolds`, `FailsafeHolds`, `TrackingTorqueLimited`, `OldAzInitialised`, `StoppedStays`, `FailsafeSettles` | holds, 439,142 states |
| `drive` | `TypeOK`, `DriveOnlyReady`, `LineMatchesState`, `UpObeyed`, `DownObeyed`, `DeliveredStays`, `TorquesArrive`, `ImplementsSwitch` | holds, 25,280 states |
| `timing` | `StallStopsComm`, `IterationsKeepComm`, `SpeedTrue` | holds, 2,705,899 states |
| `debug_log` | `InBounds`, `ReadWhole`, `CtrlTextKept`, `RequestAnswered` | holds, 182,199 states |
| `status` | `InBuffer`, `FieldsGenuine`, `GoodLineTaken`, `PairOfOneRound`, `NoOvershoot`, `NeverWorse`, `EventuallyLocked` | holds, 1,710,946 states |
| `network` | `NoLeak`, `ConnectedShown`, `HttpAnswered`, `ApiAnswered`, `PlacesReturned` | holds, 29,295 states |
| `elevation_stop_lost` | `ElManualHolds` | violated |
| `calibration_overrides_stop` | `AzManualObeyed` | violated |
| `api_stop_moves` | `StopHoldsPosition` | violated |
| `last_command` | `LastCommandObeyed` | violated |
| `quit_ignored` | `QuitCloses` | violated |

The violated properties are what a comment or a button of the page says:

* `elevation_stop_lost`: `el_set_const_trq` stores the torque before the state.
  If the control loop runs in between, its torque stays in the manual state.
  `az_set_const_trq` has the order that works (`AzManualHolds`).
* `calibration_overrides_stop`: a STOP during the sleep at the start of a
  calibration is overridden when the sleep ends (`ctrl.c:136`). The STOP has
  cleared the calibration flag, so no iteration watches the encoder to end the
  turn.
* `api_stop_moves`: the API's stop takes raw readings as targets, the control
  loop compares targets with readings plus offsets.
* `last_command`: a power command that repeats the present state stays pending
  and undoes the next, opposite one.
* `quit_ignored`: `q` ("Quit connection", `api.c:132`) ends only the inner loop
  over the parts of a request. The server then waits for the client again, and
  the connection stays open until the client closes it.

Limits of the code that appear as premises of properties that hold:

* `AzTorqueExactInRange`: the azimuth torque is narrowed to `int8_t` before it is
  limited (`ctrl.c:181`). From a speed error of 7080 counts/s on it wraps, and
  the motor is pushed the wrong way.
* `IterationsKeepComm`: the sleep of a calibration counts as a stall, although
  `mde.c:124` speaks of a thread that "has crashed or stalled". The bursts stop
  for 900 ms.
* `SpeedTrue`: the clock is read once for the speed and again for the next burst
  (`mde.c:145`, `149`), and neither read is at the moment of the sample. The speed is
  therefore off by the way of the antenna in a burst, beside the one count of the
  encoder. An antenna that makes half a turn in a pause is excluded.
* `StallStopsComm`: a difference of wrapping times cannot tell an age from one that
  is a whole turn longer. A thread that has crashed for good passes as running
  once in 11.9 hours, for 100 ms. The property is stated up to whole turns.
* `ElRateExactWhenSafe`: beyond the readings the failsafe accepts, the elevation
  rate does not always fit its `int16_t`.
* `EventuallyLocked`: if the counts jitter so that three never agree, the
  oscillator is never corrected.
* `FieldsGenuine`: a field that a short message does not have is read from behind
  the terminator, where an older line is.
* `ApiAnswered`, `PlacesReturned`: the API never closes a connection by itself, so
  one client that stays keeps all others waiting, and its place in the pool.
* `NeverWorse`: a step that ends within the dead band may end further from the
  nominal frequency than it began, since two counters can be older than the last
  step.
* `HttpAnswered`: there is no receive timeout (`http.c:721`), so a client of the
  web page has to send or to leave. It is about accepted connections: two
  clients of the API take all places of the pool, and then the page is refused.

### From the sensors to the wire

The parts follow the failsafe all the way. `FailsafeSettles` (`Ctrl`): if the
readings stay bad, the three motor cells end up at 0 and stay there. Nothing but
a command starts a motor again, also when the readings recover (`StoppedStays`).
`TorquesArrive` (`Mde`): a cell that stays at a value is what the drive ends up
with, if it stays powered and bursts go on, and keeps (`DeliveredStays`).
`IterationsKeepComm`
(`StallGuard`): bursts go on while the control thread does its iterations. The
modules meet only in the motor cells and in `ctrl_is_running()`, both of which
each module leaves open to every value the other can give, so that the
conclusions can be chained without checking the product.

### Bounds

* `control_law`: positions on both sides of every boundary of the code (north,
  half a turn, the null zone, the limits), the extreme and middle speeds, rates
  at the ends of the sensor and of the failsafe; elevations over the full turn that
  the sensor reports. The theorems cover all values.
  The evaluation is one step and then stops, so deadlock is not checked.
* `control_loop`: two commands (`MaxCmds = 2`) are enough for one to interrupt or
  follow another, or to meet a calibration or the failsafe in any phase. Torques
  0 and 50 (above the limit of the loops); encoder at rest and near the wrap;
  IMU dead, at rest, spinning.
* `drive`: all 30 initialisation frames, two torques, three power commands: one
  to switch on and two that meet every phase of the changes that follow.
* `timing`: 16 ticks are a turn of the clock, 16 counts a turn of the antenna, 4
  ticks a second. The durations are in the order of the real ones, a burst takes
  up to one tick, and a stall lasts up to 18 ticks (`MaxAge`), longer than a turn.
  Rates of either sign and standstill, of which some are no whole number of counts
  per tick; a calibration is long enough for more than half a turn.
* `debug_log`: eight bytes, texts of one to three characters: the bucket gets full
  in several ways, and every byte of a text can be interrupted.
* `status`, oscillator: it starts a few counts low, outside of the dead band; three
  wrong counts (`MaxBad`), twice too large as after a lost pulse, so that all three
  counters can be wrong at a time and agree on it.
* `status`, receiver and monitor: three lines, three lost characters and a buffer of five: both ends of
  a line and a character of the next can be lost, and two lines overflow the
  buffer. Two chips, two channels and two rounds that alternate. The three threads
  share nothing, so a behaviour has steps of one of them.
* `network`: two clients for each server and a pool of two places, which is the
  real size (four, of which two listen); the mailbox has its real size of four.

### Fairness

* `Ctrl`: weak fairness of the control thread, which the timer wakes; strong
  fairness of a network thread that has stores to do, since `ctrl` sleeps in
  every iteration for far longer than a handler needs. No fairness of commands
  or readings.
* `Mde`: weak fairness of its thread, which has the highest priority and whose
  sleeps and exchanges end. No fairness of commands, and none of `StartBurst`:
  `TorquesArrive` has "bursts happen again and again" as a premise.
* `Debug`: the OCXO thread is not preempted (weak); `ctrl` and the web server run
  whenever the threads above them sleep, which these do again and again
  (strong). No fairness of printing or of requests.
* `Ocxo`: weak fairness of the thread and of the pulses. That the counters agree
  again and again is a premise of `EventuallyLocked`.
* `Network`: weak fairness of both servers, which run in the sleeps of the other
  threads, and of a client of the web page, which sends or leaves. Nothing is
  assumed of the clients of the API; `ApiAnswered` and `PlacesReturned` have that
  none stays for ever (`ClientsLeave`) as a premise. `QuitCloses` is violated under
  the same fairness, without that premise: only the server could close.

## 4. Reading a property

Each is stated in words above its definition. `FailsafeHolds` is about the rest
of the iteration in which the failsafe fired; a command may set a torque in the
sleep that follows, and the next iteration takes it away, which is
`FailsafeSettles`. `StoppedStays` is the step by step part of the same promise:
it needs no fairness and no bad readings, only that no command came in.
`DeliveredStays` reads "delivered" as "in the drive, or in the exchange that is
under way", since a motor that was set a moment ago has its old torque until
that exchange ends. `NoOvershoot` allows one step beyond the nominal point,
because two of the three counters may be older than the last step; the start
value may be further away. `AzManualHolds` excludes the sleep of a calibration, in which
the loop has set 25 on purpose. `ImplementsSwitch` reads the two flags as one
wish: `power_dn` counts while the drive is powered, `power_up` while it is not.
Under this reading the code implements the switch for every sequence of
commands; that a flag outlives its wish is what `last_command` shows.

## 5. Proofs

| module | theorems | for all |
|---|---|---|
| `ControlStep_proofs` | `AzSpeedCorrect`, `AzTorqueCorrect`, `ElSpeedCorrect`, `ElTorqueCorrect`, `ElRateCorrect` | positions, speeds, rates, biases |
| `Ctrl_proofs` | `TypeCorrect`, `AzManualTorqueHolds`, `OldAzIsInitialised`, `FailsafeIsSafe`, `StoppedAntennaStays`, `TrackingIsLimited` | arguments, readings, numbers of commands |
| `Mde_proofs` | `TypeCorrect`, `DriveReady`, `LineMatches`, `SwitchRefined`, `TorqueStays` | sequence lengths, torques, numbers of commands |
| `Timing_proofs` | `IterationsKeep`, `StallStops`, `SpeedIsTrue` | durations, ticks, sizes of clock and encoder, rates, lengths of stalls |
| `Debug_proofs` | `StaysInBounds`, `CtrlTextIsKept`, `TextsAreWhole` | bucket sizes, texts |
| `Status_proofs` | `StaysInBuffer`, `FieldsAreGenuine`, `GoodLinesTaken` | buffer sizes, lengths and fields of messages, losses |
| | `PairsOfOneRound` | chips, channels, numbers of rounds |
| | `DacNeverOvershoots`, `StepsNeverWorse` | oscillators with `Tunable`, numbers of wrong counts |
| `Network_proofs` | `NothingLeaks`, `ConnectedIsTrue` | clients, sizes of pool and mailbox |

* **Control law.** `ControlLaw_proofs` has one lemma per operator, relating the
  modular arithmetic to the signed shortest way. The named integer limits stay
  folded; the provers only see their values where they matter.
* **`Ctrl`.** `AzManualHolds` is not inductive: a thread may be about to store a
  state without a torque. The invariant therefore speaks about the lists of
  pending stores. In every list a store of CONST_TORQUE to `az_state` is followed
  by a store to `motor_az`, and no list stores CONST_SPEED; this is kept when a
  head is executed and holds for every setter. For the failsafe, each cell has
  its safe value already or a store of that value is pending in the list of
  `ctrl`, and no network thread runs before the iteration ends. `StoppedStays`
  needs that `ctrl` calls the setters only to stop: whatever its list holds, in
  any iteration, stores 0 (`CtrlZero`).
* **`Mde`.** `DriveOnlyReady` becomes inductive with what the drive has got in
  each phase of a power change. `SwitchRefined` is `Spec => Switch!Safe`, the
  safety part of `ImplementsSwitch`; it needs that `LineMatchesState` holds and
  which flag is set in each phase of a change. `TorqueStays` needs that an
  exchange under way is for the motor whose turn it is (`FrameOf`), and facts on
  the packing: the check bit always makes the number of ones odd (`CrcOdd`), nine
  bits give a negative torque back with its sign (`TrqDecoded`), and a frame is
  read as a command for one motor only (`Obeyed`).
* **`StallGuard`.** The difference of the stored times is the age modulo a turn, for
  every length of a stall (`GuardExact`). `StallStopsComm` is not inductive: it needs
  how long a test that succeeded vouches for the thread, which is the rest of burst
  and sleep (`CommAge`).
* **`Encoder`.** `SpeedTrue` alone says nothing of the next reading. The invariant
  `Measured` does: since the last reading the stored time is behind by the pause
  up to a turn of the clock, the stored position by rate times pause up to whole
  turns of the antenna, less than one count, and the part of a burst between a
  sample and a read of the clock, which `BurstTime` bounds because the sleep begins
  when the burst is over. With less than half a turn in between
  only one multiple of a turn fits (`OneMultiple`, `WayMeasured`), and the division
  of the code loses less than one count per second (`CDivFacts`,
  `SpeedMeasured`). Every step of the composition is one of the guard or none
  (`EncoderStep`), which carries `Clock` over.
* **`Debug`.** A thread writes only at or behind the end of the text it found, and
  there is no zero before that end. So a thread that interrupts another finds an
  end behind what the other has copied (`Nested`, `Behind`), and leaves that
  alone (`Copied`). For whole texts: those before the place where the lowest
  writer appends are whole, and what the web server has copied is still in the
  bucket (`Texts`, `Taken`).
* **`Gps`.** Two facts make the properties inductive. What the buffer holds of an
  undamaged line stands at its own place, and all of it is there when the line
  ends (`Collected`); after a received line end the next line is collected from
  the start of the buffer (`InStep`).
* **`Ina3221`.** When the second transfer of a channel starts and the first went
  well, the first was made in the present round.
* **`Ocxo`.** `NoOvershoot` is not inductive: the counters decide where the next
  step goes, and they may have been taken before the last one. `OcxoInv` says how
  old they can be. The first counter was written after the last step but one
  (`Fresh`), because the code overwrites it when it takes a value; so it shows a
  tuning value at most two steps away, one at most when a pulse came in between
  (`Recent`). The step that follows goes towards the nominal point, or crosses it
  by at most one step. The hypothesis `Tunable`, that the oscillator has its
  nominal frequency within the 12 bits of the converter and not at its very ends,
  is about the hardware; without it no code could hold the promise.
* **`Network`.** A connection waits at most once, in one mailbox, and a server has
  one in its hands exactly between accepting and deleting it.

The assumptions on constants are named in the modules that declare them, and TLC
evaluates them in every run.

Every invariant and every action property of the passing runs has a theorem.
Only model-checked: liveness (`FailsafeSettles`, `UpObeyed`, `DownObeyed`,
`TorquesArrive`, the fairness of `ImplementsSwitch`, `RequestAnswered`,
`EventuallyLocked`, `HttpAnswered`, `ApiAnswered`, `PlacesReturned`), which the prover does not
handle. What it can say of them is proved where it says something: `StoppedStays`
and `DeliveredStays` are the parts of `FailsafeSettles` and `TorquesArrive` that
say that nothing is undone, `StepsNeverWorse` that part of `EventuallyLocked`;
`NothingLeaks` is the safety part of `PlacesReturned`.

## 6. Not modelled

* **ChibiOS and lwIP** (nearly all lines under `src`, 5.1 million with the
  hardware libraries) are third-party code. Their scheduling, timers and drivers
  are assumptions of the modules; of lwIP only the acceptance of connections is
  modelled, because both servers depend on its limits. A share of all lines
  under `src` therefore says nothing; of the firmware itself the modules cover
  the code that changes shared state.
* **The text of the pages** (`print_page`, `print_json`, most lines of `http.c`)
  and the static files: output without state. That `print_json` reads a position
  or a power from two updates is possible at any time, since there is no lock,
  and no line of the repository promises otherwise.
* **Floating point**: the arc tangent of the elevation (`imu.c:218`), the parser
  of the API (`extract_numbers`) and the position query. `Ctrl` allows every
  elevation and every target.
* **Registers and pins**: bus set-up, SPI exchanges of the IMU, the plain power
  switches of the page, LEDs. `read_magnetometer` and `ina3221_isAvailable` have
  no caller.
* **Startup and watchdog** (`main.c`): straight-line code; the watchdog is fed by
  `main` alone and sees no other thread.
* **The antenna under torque**: how it moves is outside of the code. With it stay
  open whether a calibration finds the encoder's overflow (it also ends when the
  antenna is turned back a little, `ctrl.c:142`), and whether the antenna is at
  rest while `imu_calibrate` averages the bias of the rate sensor.
