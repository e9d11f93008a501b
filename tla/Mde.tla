--------------------------------- MODULE Mde ---------------------------------
(***************************************************************************)
(* The thread that powers and talks to the motor drive electronics (mde.c).*)
(*                                                                         *)
(* It runs at the highest priority, so other threads run only while it     *)
(* sleeps or waits for an SPI exchange to complete (Blocked).  An action   *)
(* is the code from one such place to the next; labels that are not in     *)
(* Blocked only split a long stretch of code, and nobody else runs there.  *)
(*                                                                         *)
(* Whether ctrl_is_running() answers true is left open here: StallGuard    *)
(* models the clock it depends on.                                         *)
(***************************************************************************)
EXTENDS CInt, Sequences, FiniteSets

CONSTANTS InitFrames,   \* frames of the initialisation sequence (30 in mde.c)
          Torques,      \* torques that ctrl may store
          MaxCmds       \* bound on the power commands of a behaviour

ASSUME MdeAssumption ==
    InitFrames \in Nat \ {0} /\ 0 \in Torques /\ Torques \subseteq Int8 /\ MaxCmds \in Nat

Order     == <<"az", "el", "sk">>      \* in which the torques are sent
Motors    == {"az", "el", "sk"}
EncFrames == 7                         \* exchanges of an encoder reading

VARIABLES power_up, power_dn,   \* command flags
          is_powered_up,
          line,                 \* the power line of the MDE
          pc,                   \* where the thread is
          sent,                 \* exchanges completed in the current sequence
          frame,                \* the command in the exchange under way
          motor,                \* motor_az, motor_el, motor_sk
          bias,                 \* imu_rot_y0: measured since the line was raised?
          speed,                \* how enc_az_speed was computed
          cmds,                 \* number of power commands so far
          last                  \* history: the last power command

\* The MDE itself: what it received since it was powered.
VARIABLE  dev

flags == <<power_up, power_dn, is_powered_up>>
oper  == <<cmds, last>>
vars  == <<flags, line, pc, sent, frame, motor, bias, speed, oper, dev>>

Blocked == {"off_sleep", "calibrate", "init", "enc", "trq", "sleep"}
Labels  == Blocked \cup {"top", "up", "guard"}

-----------------------------------------------------------------------------
(* A torque command: 1110, the number of the motor, the torque as a byte,  *)
(* and a bit that makes the number of ones odd.                            *)

MotorNo == [az |-> 3, el |-> 5, sk |-> 6]

Bits == {1, 2, 4, 8, 16, 32, 64, 128, 256, 512, 1024, 2048, 4096, 8192, 16384, 32768}

bit_count(n) == Cardinality({b \in Bits : (n \div b) % 2 = 1})

\* Mutant: the check bit makes the number of ones even.
Crc_Even(cmd) == IF bit_count(cmd) % 2 = 1 THEN 1 ELSE 0

Crc(cmd) == IF bit_count(cmd) % 2 = 0 THEN 1 ELSE 0

\* Mutant: the sign of the torque runs into the number of the motor.
mde_cmd_set_mot_trq_SignExtended(m, trq) ==
    LET cmd == 57344 + 512 * MotorNo[m] + 2 * trq IN cmd + Crc(cmd)

mde_cmd_set_mot_trq(m, trq) ==
    LET cmd == 57344 + 512 * MotorNo[m] + 2 * (trq % 256) IN cmd + Crc(cmd)

TrqFrames == {mde_cmd_set_mot_trq(m, trq) : m \in Motors, trq \in Torques}

\* What the drive makes of a command; it ignores one with a wrong last bit.
Obey(d, cmd) ==
    [d EXCEPT !.trq = [m \in Motors |->
        IF bit_count(cmd) % 2 = 1 /\ (cmd \div 512) % 8 = MotorNo[m]
        THEN ToInt8(cmd \div 2) ELSE d.trq[m]]]

\* The command for the n-th motor, with the torque it has at this moment.
Command(n) == mde_cmd_set_mot_trq(Order[n], motor[Order[n]])

Reset == [init |-> 0, trq |-> [m \in Motors |-> 0]]

-----------------------------------------------------------------------------
(* The other threads.                                                      *)

mde_power_up ==
    /\ pc \in Blocked /\ cmds < MaxCmds /\ cmds' = cmds + 1
    /\ power_up' = TRUE
    /\ last' = "on"
    /\ UNCHANGED <<power_dn, is_powered_up, line, pc, sent, frame, motor, bias, speed, dev>>

mde_power_down ==
    /\ pc \in Blocked /\ cmds < MaxCmds /\ cmds' = cmds + 1
    /\ power_dn' = TRUE
    /\ last' = "off"
    /\ UNCHANGED <<power_up, is_powered_up, line, pc, sent, frame, motor, bias, speed, dev>>

mde_set_trq ==
    /\ pc \in Blocked
    /\ \E m \in Motors, trq \in Torques :
          motor[m] # trq /\ motor' = [motor EXCEPT ![m] = trq]
    /\ UNCHANGED <<flags, line, pc, sent, frame, bias, speed, oper, dev>>

-----------------------------------------------------------------------------
(* The loop of the thread.                                                 *)

Goto(from, to) == pc = from /\ pc' = to /\ UNCHANGED oper

Keep == UNCHANGED <<flags, line, sent, frame, motor, bias, speed, dev>>

PowerDown ==
    /\ power_dn /\ is_powered_up
    /\ Goto("top", "off_sleep")
    /\ line' = FALSE /\ dev' = Reset
    /\ UNCHANGED <<flags, sent, frame, motor, bias, speed>>

\* Mutant: the drive is still taken for powered.
PoweredDown_KeepsState ==
    /\ Goto("off_sleep", "up")
    /\ power_dn' = FALSE
    /\ UNCHANGED <<power_up, is_powered_up, line, sent, frame, motor, bias, speed, dev>>

\* Mutant: a power up command that arrived meanwhile is cleared as well.
PoweredDown_ClearsBoth ==
    /\ Goto("off_sleep", "up")
    /\ power_up' = FALSE /\ power_dn' = FALSE /\ is_powered_up' = FALSE
    /\ UNCHANGED <<line, sent, frame, motor, bias, speed, dev>>

\* A second later the command and the state are cleared; the test for a power
\* up follows in the same pass.
PoweredDown ==
    /\ Goto("off_sleep", "up")
    /\ power_dn' = FALSE /\ is_powered_up' = FALSE
    /\ UNCHANGED <<power_up, line, sent, frame, motor, bias, speed, dev>>

NoPowerDown == ~(power_dn /\ is_powered_up) /\ Goto("top", "up") /\ Keep

\* Mutant: nobody has to ask for it.
PowerUp_Unasked ==
    /\ ~is_powered_up
    /\ Goto("up", "calibrate")
    /\ line' = TRUE /\ bias' = "stale"
    /\ UNCHANGED <<flags, sent, frame, motor, speed, dev>>

PowerUp ==
    /\ power_up /\ ~is_powered_up
    /\ Goto("up", "calibrate")
    /\ line' = TRUE /\ bias' = "stale"
    /\ UNCHANGED <<flags, sent, frame, motor, speed, dev>>

\* imu_calibrate() and the sleep of 4 seconds are over.
Calibrated ==
    /\ Goto("calibrate", "init")
    /\ bias' = "fresh" /\ sent' = 0
    /\ UNCHANGED <<flags, line, frame, motor, speed, dev>>

NoPowerUp == ~(power_up /\ ~is_powered_up) /\ Goto("up", "guard") /\ Keep

\* Mutant: one exchange too many.
InitFrame_OneMore ==
    /\ pc = "init"
    /\ sent' = sent + 1
    /\ dev' = [dev EXCEPT !.init = @ + 1]
    /\ \/ sent' <= InitFrames /\ Goto("init", "init") /\ UNCHANGED <<power_up, is_powered_up>>
       \/ sent' > InitFrames /\ Goto("init", "guard") /\ power_up' = FALSE /\ is_powered_up' = TRUE
    /\ UNCHANGED <<power_dn, line, frame, motor, bias, speed>>

\* Mutant: a power down command that arrived meanwhile is cleared as well.
InitFrame_ClearsBoth ==
    /\ pc = "init"
    /\ sent' = sent + 1
    /\ dev' = [dev EXCEPT !.init = @ + 1]
    /\ \/ sent' < InitFrames /\ Goto("init", "init") /\ UNCHANGED flags
       \/ /\ sent' = InitFrames /\ Goto("init", "guard")
          /\ power_up' = FALSE /\ power_dn' = FALSE /\ is_powered_up' = TRUE
    /\ UNCHANGED <<line, frame, motor, bias, speed>>

\* Mutant: the drive counts as powered from the first frame.
InitFrame_Early ==
    /\ pc = "init"
    /\ sent' = sent + 1
    /\ dev' = [dev EXCEPT !.init = @ + 1]
    /\ Goto("init", "guard") /\ power_up' = FALSE /\ is_powered_up' = TRUE
    /\ UNCHANGED <<power_dn, line, frame, motor, bias, speed>>

InitFrame ==
    /\ pc = "init"
    /\ sent' = sent + 1
    /\ dev' = [dev EXCEPT !.init = @ + 1]
    /\ \/ /\ sent' < InitFrames /\ Goto("init", "init")
          /\ UNCHANGED <<power_up, is_powered_up>>
       \/ /\ sent' = InitFrames /\ Goto("init", "guard")
          /\ power_up' = FALSE /\ is_powered_up' = TRUE
    /\ UNCHANGED <<power_dn, line, frame, motor, bias, speed>>

\* is_powered_up and ctrl_is_running().
StartBurst ==
    /\ is_powered_up
    /\ Goto("guard", "enc")
    /\ sent' = 0
    /\ UNCHANGED <<flags, line, frame, motor, bias, speed, dev>>

\* One of them is false: ctrl_is_running() may be, at any time.
NoBurst == Goto("guard", "sleep") /\ Keep

\* An encoder exchange completes.  After the last one the position and the
\* speed are published, the first speed from old_x and old_t that were never
\* assigned (mde_exchange always succeeds), and the first torque is read.
EncFrame ==
    /\ pc = "enc"
    /\ \/ /\ sent + 1 < EncFrames /\ Goto("enc", "enc") /\ sent' = sent + 1
          /\ UNCHANGED <<frame, speed>>
       \/ /\ sent + 1 = EncFrames /\ Goto("enc", "trq") /\ sent' = 0
          /\ speed' = IF speed = "none" THEN "garbage" ELSE "measured"
          /\ frame' = Command(1)
    /\ UNCHANGED <<flags, line, motor, bias, dev>>

\* A torque exchange completes and the next torque is read.
TrqFrame ==
    /\ pc = "trq"
    /\ dev' = Obey(dev, frame)
    /\ \/ sent < 2 /\ Goto("trq", "trq") /\ sent' = sent + 1 /\ frame' = Command(sent + 2)
       \/ sent = 2 /\ Goto("trq", "sleep") /\ UNCHANGED <<sent, frame>>
    /\ UNCHANGED <<flags, line, motor, bias, speed>>

Wake == Goto("sleep", "top") /\ Keep

-----------------------------------------------------------------------------

Init ==
    /\ power_up = FALSE /\ power_dn = FALSE /\ is_powered_up = FALSE
    /\ line = FALSE
    /\ pc = "top"
    /\ sent = 0 /\ frame = 0
    /\ motor = [m \in Motors |-> 0]
    /\ bias = "stale" /\ speed = "none"
    /\ cmds = 0 /\ last = "off"
    /\ dev = Reset

MdeStep == \/ PowerDown \/ PoweredDown \/ NoPowerDown
           \/ PowerUp \/ Calibrated \/ InitFrame \/ NoPowerUp
           \/ StartBurst \/ NoBurst \/ EncFrame \/ TrqFrame \/ Wake
Next    == MdeStep \/ mde_power_up \/ mde_power_down \/ mde_set_trq

\* The thread has the highest priority and its sleeps and exchanges end.
Spec     == Init /\ [][Next]_vars
FairSpec == Spec /\ WF_vars(MdeStep)

-----------------------------------------------------------------------------
(* Properties.                                                             *)

\* Every variable has its type.
TypeOK ==
    /\ power_up \in BOOLEAN /\ power_dn \in BOOLEAN /\ is_powered_up \in BOOLEAN
    /\ line \in BOOLEAN
    /\ pc \in Labels
    /\ sent \in Nat /\ frame \in TrqFrames \cup {0}
    /\ motor \in [Motors -> Torques]
    /\ bias \in {"stale", "fresh"} /\ speed \in {"none", "garbage", "measured"}
    /\ cmds \in 0 .. MaxCmds /\ last \in {"on", "off"}
    /\ dev \in [init : 0 .. InitFrames, trq : [Motors -> Torques]]

\* Encoder and torque frames are exchanged only with a drive that is powered
\* and has got its whole initialisation sequence, and only after the bias of
\* the rate sensor was measured, since the power line was raised; whenever the
\* commands arrive.
DriveOnlyReady ==
    pc \in {"enc", "trq"} => line /\ dev.init = InitFrames /\ bias = "fresh"

\* Outside of a power change is_powered_up tells whether the line is high.
LineMatchesState ==
    pc \notin {"off_sleep", "calibrate", "init"} => (line <=> is_powered_up)

\* A pending power up command is carried out, whatever other commands come.
UpObeyed == power_up ~> line /\ is_powered_up

\* A pending power down command is carried out, whatever other commands come.
DownObeyed == power_dn ~> ~line

\* The drive has the torque that ctrl stored last, or is just getting it.
Delivered(m) ==
    IF pc = "trq" /\ Order[sent + 1] = m THEN frame = mde_cmd_set_mot_trq(m, motor[m])
                                         ELSE dev.trq[m] = motor[m]

\* A torque that was delivered stays so until ctrl stores another one or the
\* power goes: neither an exchange for another motor nor the next one for the
\* same motor changes it, and no exchange is without effect.
DeliveredStays ==
    [][\A m \in Motors :
          Delivered(m) /\ motor'[m] = motor[m] /\ line' => Delivered(m)']_vars

\* If a torque settles while the drive stays powered and ctrl_is_running()
\* lets bursts happen again and again, the drive gets exactly that torque, on
\* its own motor.
TorquesArrive ==
    \A m \in Motors, trq \in Torques :
        <>[](is_powered_up /\ motor[m] = trq) /\ []<>(pc = "enc")
            => <>[](dev.trq[m] = trq)

\* The last power command decides: if no other one follows it, the drive ends
\* up powered after "on" and without power after "off".
LastCommandObeyed ==
    /\ <>[](last = "off") => <>[]~line
    /\ <>[](last = "on") => <>[]line

\* Whatever commands come and whenever, mde.c:69-122 implements the switch of
\* PowerSwitch: a pending flag counts when it asks for the other state.
Switch == INSTANCE PowerSwitch
    WITH wanted <- IF is_powered_up THEN ~power_dn ELSE power_up,
         ready  <- is_powered_up

ImplementsSwitch == Switch!Spec

=============================================================================
