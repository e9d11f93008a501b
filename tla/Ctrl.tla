-------------------------------- MODULE Ctrl --------------------------------
(***************************************************************************)
(* The control thread (ctrl.c) and the two network threads that command    *)
(* it: the web server (http.c) and the rotator API (api.c).                *)
(*                                                                         *)
(* The threads share plain global variables and no lock.  ChibiOS runs the *)
(* runnable thread of the highest priority, without time slices:           *)
(*     mde, imu (HIGHPRIO) > ctrl (NORMALPRIO) > api > http (LOWPRIO + n)  *)
(* A thread can therefore be preempted between any two of its stores, but  *)
(* only by threads to its left, and ctrl gives way to the network threads  *)
(* only in its two sleeps.  CanRun states exactly this.                    *)
(*                                                                         *)
(* A call of a setter is the sequence of its stores, in program order;     *)
(* todo[t] holds the stores thread t still has to execute.                 *)
(***************************************************************************)
EXTENDS ControlLaw, Sequences, FiniteSets

CONSTANTS TrqArgs,      \* torques asked for by the web page
          AzArgs,       \* azimuth targets, after conversion to uint16_t
          ElArgs,       \* elevation (and skew) targets, as int16_t
          AzOffs,       \* azimuth offsets, as uint16_t
          ElOffs,       \* elevation offsets, as int16_t
          EncSamples,   \* what the mde thread may publish: [pos, spd]
          ImuSamples,   \* what the imu thread may publish: see ImuSample
          MaxCmds       \* bound on the commands of a behaviour

MOTOR_STATE_CONST_TORQUE    == 0
MOTOR_STATE_CONST_SPEED     == 1
MOTOR_STATE_TARGET_POSITION == 2

MotorState == {MOTOR_STATE_CONST_TORQUE, MOTOR_STATE_CONST_SPEED,
               MOTOR_STATE_TARGET_POSITION}

EncSample == [pos : UInt16, spd : Int16]
ImuSample == [accel_x : Int16, accel_y : Int16, accel_z : Int16,
              rot_x : UInt16, rot_y : UInt16, rot_z : UInt16,
              el_pos : Int16, el_spd : Int16]

ASSUME CtrlAssumption ==
    /\ TrqArgs \subseteq Int8
    /\ AzArgs \subseteq UInt16 /\ AzOffs \subseteq UInt16
    /\ ElArgs \subseteq Int16 /\ ElOffs \subseteq Int16
    /\ EncSamples \subseteq EncSample
    /\ ImuSamples \subseteq ImuSample
    /\ MaxCmds \in Nat

-----------------------------------------------------------------------------
(* Shared memory.                                                          *)

Motors == {"motor_az", "motor_el", "motor_sk"}
States == {"az_state", "el_state", "sk_state"}
Cells  == Motors \cup States
          \cup {"az_flag_calibrate", "az_tgt_spd", "az_tgt_pos", "el_tgt_spd",
                "el_tgt_pos", "sk_tgt_pos", "enc_az_off", "imu_el_off"}

\* The C type of a cell; a bool is 0 or 1.
CellType(c) ==
    IF c \in Motors THEN Int8
    ELSE IF c \in States THEN MotorState
    ELSE IF c = "az_flag_calibrate" THEN {0, 1}
    ELSE IF c \in {"az_tgt_pos", "enc_az_off"} THEN UInt16
    ELSE Int16

VARIABLES mem,      \* the globals of ctrl.c, and the torques and offsets
          enc,      \* enc_az and enc_az_speed, written by the mde thread
          imu,      \* the readings published by the imu thread
          pc,       \* where the control thread is in its loop
          old_az,   \* its local variable
          todo,     \* stores each thread still has to execute
          cmds      \* number of commands received so far

\* History variables, read by the properties only.
VARIABLES asked,    \* last torque stored by a *_set_const_trq call, per motor
          order,    \* kind of the azimuth command received last
          tripped,  \* the failsafe fired in the current loop iteration
          stopped   \* the API completed a stop and nothing happened since

hist == <<asked, order, tripped, stopped>>
vars == <<mem, enc, imu, pc, old_az, todo, cmds, hist>>

Threads == {"ctrl", "api", "http"}
Asleep  == {"sleep", "calsleep"}

\* A store of a value, or of what a sensor getter returns at that moment.
Store ==
    {st \in [dst : Cells, src : {"imm", "az_enc_pos", "imu_el_pos"}, val : Int] :
        \/ st.src = "imm" /\ st.val \in CellType(st.dst)
        \/ st.src = "az_enc_pos" /\ st.dst = "az_tgt_pos"
        \/ st.src = "imu_el_pos" /\ st.dst = "el_tgt_pos"}

Set(cell, v)    == [dst |-> cell, src |-> "imm", val |-> v]
Copy(cell, src) == [dst |-> cell, src |-> src, val |-> 0]

Value(st) == IF st.src = "imm" THEN st.val
             ELSE IF st.src = "az_enc_pos" THEN enc.pos ELSE imu.el_pos

-----------------------------------------------------------------------------
(* The setters, as stores in program order.  The stores to *_tgt_pos_tim   *)
(* and *_tgt_pos_spd are left out: see ControlLaw.                         *)

\* Mutants: the torque is stored before the state, as on the other axes; a
\* calibration is not cancelled.
az_set_const_trq_TrqFirst(torque) ==
    << Set("az_flag_calibrate", 0), Set("motor_az", torque),
       Set("az_state", MOTOR_STATE_CONST_TORQUE) >>
az_set_const_trq_KeepFlag(torque) ==
    << Set("az_state", MOTOR_STATE_CONST_TORQUE), Set("motor_az", torque) >>

az_set_const_trq(torque) ==
    << Set("az_flag_calibrate", 0),
       Set("az_state", MOTOR_STATE_CONST_TORQUE),
       Set("motor_az", torque) >>

\* Mutant: the state is not switched.
el_set_const_trq_KeepState(torque) == << Set("motor_el", torque) >>

el_set_const_trq(torque) ==
    << Set("motor_el", torque), Set("el_state", MOTOR_STATE_CONST_TORQUE) >>

sk_set_const_trq(torque) ==
    << Set("motor_sk", torque), Set("sk_state", MOTOR_STATE_CONST_TORQUE) >>

az_set_tgt_pos(store) ==
    << store, Set("az_flag_calibrate", 0),
       Set("az_state", MOTOR_STATE_TARGET_POSITION) >>

el_set_tgt_pos(store) ==
    << store, Set("el_state", MOTOR_STATE_TARGET_POSITION) >>

sk_set_tgt_pos(position) ==
    << Set("sk_tgt_pos", position), Set("sk_state", MOTOR_STATE_TARGET_POSITION) >>

az_calibrate == << Set("az_flag_calibrate", 1) >>

-----------------------------------------------------------------------------
(* Scheduling.                                                             *)

\* Every thread of higher priority is blocked.
CanRun(t) ==
    /\ t # "ctrl" => pc \in Asleep
    /\ t = "http" => todo["api"] = <<>>

\* Thread t executes its next store.
Execute(t) ==
    /\ CanRun(t)
    /\ todo[t] # <<>>
    /\ LET st == Head(todo[t])
       IN  /\ mem' = [mem EXCEPT ![st.dst] = Value(st)]
           /\ asked' = IF st.dst \in Motors
                       THEN [asked EXCEPT ![st.dst] = Value(st)] ELSE asked
    /\ todo' = [todo EXCEPT ![t] = Tail(@)]
    /\ stopped' = (t = "api" /\ order = "stop" /\ Tail(todo[t]) = <<>>)
    /\ UNCHANGED <<enc, imu, pc, old_az, cmds, order, tripped>>

-----------------------------------------------------------------------------
(* Commands.  Each network thread handles one request at a time.           *)

Begin(t, stores, kind) ==
    /\ CanRun(t)
    /\ todo[t] = <<>>
    /\ cmds < MaxCmds
    /\ cmds' = cmds + 1
    /\ todo' = [todo EXCEPT ![t] = stores]
    /\ order' = IF kind = "other" THEN order ELSE kind
    /\ stopped' = FALSE
    /\ UNCHANGED <<mem, enc, imu, pc, old_az, asked, tripped>>

HttpSetTrq ==
    \E torque \in TrqArgs :
        \/ Begin("http", az_set_const_trq(torque), "manual")
        \/ Begin("http", el_set_const_trq(torque), "other")
        \/ Begin("http", sk_set_const_trq(torque), "other")

HttpSetTar ==
    \/ \E az \in AzArgs :
          Begin("http", az_set_tgt_pos(Set("az_tgt_pos", az)), "target")
    \/ \E el \in ElArgs :
          \/ Begin("http", el_set_tgt_pos(Set("el_tgt_pos", el)), "other")
          \/ Begin("http", sk_set_tgt_pos(el), "other")

HttpSetOff ==
    \/ \E off \in AzOffs : Begin("http", << Set("enc_az_off", off) >>, "other")
    \/ \E off \in ElOffs : Begin("http", << Set("imu_el_off", off) >>, "other")

HttpCalibrate == Begin("http", az_calibrate, "calibrate")

ApiSetPos ==
    \E az \in AzArgs, el \in ElArgs :
        Begin("api", az_set_tgt_pos(Set("az_tgt_pos", az))
                     \o el_set_tgt_pos(Set("el_tgt_pos", el)), "target")

ApiStop ==
    Begin("api", az_set_tgt_pos(Copy("az_tgt_pos", "az_enc_pos"))
                 \o el_set_tgt_pos(Copy("el_tgt_pos", "imu_el_pos")), "stop")

-----------------------------------------------------------------------------
(* Sensor readings arrive at any moment: their threads have the highest    *)
(* priority.  A stop during which a reading changes is an ordinary target. *)

Reading ==
    /\ stopped' = FALSE
    /\ order' = IF order = "stop" /\ todo["api"] # <<>> THEN "target" ELSE order
    /\ UNCHANGED <<mem, pc, old_az, todo, cmds, asked, tripped>>

EncReading == enc' \in EncSamples \ {enc} /\ UNCHANGED imu /\ Reading
ImuReading == imu' \in ImuSamples \ {imu} /\ UNCHANGED enc /\ Reading

-----------------------------------------------------------------------------
(* The loop of the control thread, one action per block of code between    *)
(* which a new reading can matter.                                         *)

\* IMU failure, or rotation excess on an axis.
FailsafeTrips(s) ==
    \/ s.accel_x = 0 /\ s.accel_y = 0 /\ s.accel_z = 0
    \/ \E rot \in {s.rot_x, s.rot_y, s.rot_z} : rot < 2070 - 800 \/ rot > 2070 + 800

Block(from, to) ==
    /\ pc = from
    /\ todo["ctrl"] = <<>>
    /\ pc' = to
    /\ stopped' = FALSE
    /\ UNCHANGED <<enc, cmds, order>>

Failsafe ==
    /\ Block("sleep", "calibrate")
    /\ tripped' = FailsafeTrips(imu)
    /\ todo' = IF FailsafeTrips(imu)
               THEN [todo EXCEPT !["ctrl"] = az_set_const_trq(0) \o el_set_const_trq(0)
                                             \o sk_set_const_trq(0)]
               ELSE todo
    /\ UNCHANGED <<mem, imu, old_az, asked>>

\* No calibration requested.
CalSkip ==
    /\ mem["az_flag_calibrate"] = 0
    /\ Block("calibrate", "az")
    /\ UNCHANGED <<mem, imu, old_az, todo, asked, tripped>>

\* Start turning, then sleep for a second in the middle of the loop.
CalStart ==
    /\ mem["az_flag_calibrate"] = 1
    /\ mem["az_state"] # MOTOR_STATE_CONST_SPEED
    /\ Block("calibrate", "calsleep")
    /\ mem' = [mem EXCEPT !["motor_az"] = 25]
    /\ UNCHANGED <<imu, old_az, todo, asked, tripped>>

\* Mutant: old_az is not reset.
CalWake_NoReset ==
    /\ Block("calsleep", "az")
    /\ mem' = [mem EXCEPT !["az_tgt_spd"] = 180 * 30,
                          !["az_state"] = MOTOR_STATE_CONST_SPEED]
    /\ UNCHANGED <<imu, old_az, todo, asked, tripped>>

CalWake ==
    /\ Block("calsleep", "az")
    /\ mem' = [mem EXCEPT !["az_tgt_spd"] = 180 * 30,
                          !["az_state"] = MOTOR_STATE_CONST_SPEED]
    /\ old_az' = 0
    /\ UNCHANGED <<imu, todo, asked, tripped>>

\* Stop when the encoder reading went down.
CalWatch ==
    /\ mem["az_flag_calibrate"] = 1
    /\ mem["az_state"] = MOTOR_STATE_CONST_SPEED
    /\ Block("calibrate", "az")
    /\ todo' = IF old_az > enc.pos
               THEN [todo EXCEPT !["ctrl"] = az_set_const_trq(0)] ELSE todo
    /\ old_az' = enc.pos
    /\ UNCHANGED <<mem, imu, asked, tripped>>

AzPos == ToUInt16(enc.pos + mem["enc_az_off"])
ElPos == ToInt16(imu.el_pos + mem["imu_el_off"])

\* Mutant: the manual case falls through into the next one.
AzSwitch_FallsThrough ==
    IF mem["az_state"] # MOTOR_STATE_TARGET_POSITION
    THEN [mem EXCEPT !["motor_az"] = AzTrq(mem["az_tgt_spd"], enc.spd)]
    ELSE mem

\* The azimuth switch: the memory it leaves behind.
AzSwitch ==
    IF mem["az_state"] = MOTOR_STATE_CONST_TORQUE THEN mem
    ELSE IF mem["az_state"] = MOTOR_STATE_CONST_SPEED
    THEN [mem EXCEPT !["motor_az"] = AzTrq(mem["az_tgt_spd"], enc.spd)]
    ELSE IF AzMustMove(mem["az_tgt_pos"], AzPos)
    THEN LET spd == AzTgtSpd(mem["az_tgt_pos"], AzPos)
         IN  [mem EXCEPT !["az_tgt_spd"] = spd, !["motor_az"] = AzTrq(spd, enc.spd)]
    ELSE [mem EXCEPT !["motor_az"] = AzHoldTrq(mem["motor_az"])]

AzControl ==
    /\ Block("az", "el")
    /\ mem' = AzSwitch
    /\ UNCHANGED <<imu, old_az, todo, asked, tripped>>

\* The elevation switch; a new IMU reading may arrive between the two reads
\* of the rate.
ElSwitch(fresh) ==
    LET spd == IF mem["el_state"] = MOTOR_STATE_TARGET_POSITION
               THEN ElTgtSpd(mem["el_tgt_pos"], ElPos) ELSE mem["el_tgt_spd"]
    IN  IF mem["el_state"] = MOTOR_STATE_CONST_TORQUE THEN mem
        ELSE [mem EXCEPT !["el_tgt_spd"] = spd,
                         !["motor_el"] = ElTrq(spd, imu.el_spd, fresh.el_spd)]

ElControl ==
    /\ Block("el", "sk")
    /\ \E fresh \in ImuSamples \cup {imu} : mem' = ElSwitch(fresh) /\ imu' = fresh
    /\ UNCHANGED <<old_az, todo, asked, tripped>>

\* Skew has no closed loop; the iteration ends.
SkControl ==
    /\ Block("sk", "sleep")
    /\ mem' = [mem EXCEPT !["sk_state"] = MOTOR_STATE_CONST_TORQUE]
    /\ tripped' = FALSE
    /\ UNCHANGED <<imu, old_az, todo, asked>>

-----------------------------------------------------------------------------

\* old_az is not initialised by the code: no value an encoder can report.
Garbage == -1

Init ==
    /\ mem = [c \in Cells |-> 0]
    /\ enc = [pos |-> 0, spd |-> 0]
    /\ imu = [accel_x |-> 0, accel_y |-> 0, accel_z |-> 0,
              rot_x |-> 0, rot_y |-> 0, rot_z |-> 0, el_pos |-> 0, el_spd |-> 0]
    /\ pc = "sleep"
    /\ old_az = Garbage
    /\ todo = [t \in Threads |-> <<>>]
    /\ cmds = 0
    /\ asked = [m \in Motors |-> 0]
    /\ order = "none"
    /\ tripped = FALSE
    /\ stopped = FALSE

CtrlStep == \/ Failsafe \/ CalSkip \/ CalStart \/ CalWake \/ CalWatch
            \/ AzControl \/ ElControl \/ SkControl \/ Execute("ctrl")
Command  == \/ HttpSetTrq \/ HttpSetTar \/ HttpSetOff \/ HttpCalibrate
            \/ ApiSetPos \/ ApiStop
Next     == \/ CtrlStep \/ Command \/ EncReading \/ ImuReading
            \/ Execute("api") \/ Execute("http")

\* Every runnable thread runs: ctrl is woken by the system timer, and it
\* sleeps in every iteration for far longer than the few stores of a handler
\* take, so a network thread that is runnable again and again gets to run.
\* When the users command what, and what the sensors report, is left open.
Fairness == WF_vars(CtrlStep) /\ SF_vars(Execute("api")) /\ SF_vars(Execute("http"))

Spec     == Init /\ [][Next]_vars
FairSpec == Spec /\ Fairness

-----------------------------------------------------------------------------
(* Properties.                                                             *)

\* Every variable has the type of its C declaration.
TypeOK ==
    /\ mem \in [Cells -> Int] /\ \A c \in Cells : mem[c] \in CellType(c)
    /\ enc \in EncSample
    /\ imu \in ImuSample
    /\ pc \in {"sleep", "calibrate", "calsleep", "az", "el", "sk"}
    /\ old_az = Garbage \/ old_az \in UInt16
    /\ todo \in [Threads -> Seq(Store)]
    /\ cmds \in 0 .. MaxCmds
    /\ asked \in [Motors -> Int8]
    /\ order \in {"none", "manual", "target", "calibrate", "stop"}
    /\ tripped \in BOOLEAN /\ stopped \in BOOLEAN

\* Some thread still has to execute a store to the cell.
Pending(cell) == \E t \in Threads : \E i \in 1 .. Len(todo[t]) : todo[t][i].dst = cell

\* Once a manual torque is in force on the azimuth motor (the state says
\* CONST_TORQUE and no setter is about to store the torque), the motor has the
\* torque that was asked for: no iteration of the control loop that preempts
\* az_set_const_trq leaves its own torque behind.
AzManualHolds ==
    mem["az_state"] = MOTOR_STATE_CONST_TORQUE /\ pc # "calsleep" /\ ~Pending("motor_az")
        => mem["motor_az"] = asked["motor_az"]

\* The same for the elevation motor and el_set_const_trq.
ElManualHolds ==
    mem["el_state"] = MOTOR_STATE_CONST_TORQUE /\ ~Pending("motor_el")
        => mem["motor_el"] = asked["motor_el"]

\* If the last azimuth command was a manual torque (STOP is torque 0) and it
\* has been carried out, the azimuth motor is in the manual state.
AzManualObeyed ==
    order = "manual" /\ pc = "sleep" /\ ~Pending("motor_az")
        => mem["az_state"] = MOTOR_STATE_CONST_TORQUE

\* Once the failsafe of an iteration has executed, the rest of that iteration
\* leaves every motor in the manual state with torque 0 and starts no
\* calibration, whatever the modes and commands were before.
FailsafeHolds ==
    tripped /\ todo["ctrl"] = <<>> =>
        /\ pc # "calsleep"
        /\ mem["az_flag_calibrate"] = 0
        /\ \A s \in States : mem[s] = MOTOR_STATE_CONST_TORQUE
        /\ \A m \in Motors : mem[m] = 0

\* No motor has a torque, every axis is in the manual state, no calibration is
\* requested or under way and no network thread is inside a setter: what the
\* failsafe leaves behind.
Stopped ==
    /\ pc # "calsleep" /\ todo["api"] = <<>> /\ todo["http"] = <<>>
    /\ mem["az_flag_calibrate"] = 0
    /\ \A s \in States : mem[s] = MOTOR_STATE_CONST_TORQUE
    /\ \A m \in Motors : mem[m] = 0

\* A stopped antenna moves again only after a new command: no iteration of the
\* control loop starts a motor by itself, wherever in its loop the thread is,
\* also when the readings become good again after a failsafe.
StoppedStays == [][Stopped /\ cmds' = cmds => Stopped']_vars

\* The closed loops never leave a torque above 25 behind, also when the
\* motor had a larger manual torque before the mode changed.
TrackingTorqueLimited ==
    /\ pc \in {"el", "sk"} /\ mem["az_state"] # MOTOR_STATE_CONST_TORQUE
           => abs(mem["motor_az"]) <= 25
    /\ pc = "sk" /\ mem["el_state"] # MOTOR_STATE_CONST_TORQUE
           => abs(mem["motor_el"]) <= 25

\* The calibration never compares the encoder with an uninitialised old_az.
OldAzInitialised ==
    mem["az_state"] = MOTOR_STATE_CONST_SPEED => old_az # Garbage

\* After the API's stop command, as long as nothing else happens, both axes
\* are at their targets: the control loop has no reason to move them.
StopHoldsPosition ==
    stopped => /\ ~AzMustMove(mem["az_tgt_pos"], AzPos)
               /\ abs(ToInt16(mem["el_tgt_pos"] - ElPos)) <= ConstSpeedRange

\* If the IMU readings stay bad, all motors end up, and remain, without
\* torque (the commands of a behaviour are finitely many), also when setters
\* or a calibration are under way when the readings turn bad.
FailsafeSettles ==
    <>[]FailsafeTrips(imu) => <>[](\A m \in Motors : mem[m] = 0)

=============================================================================
