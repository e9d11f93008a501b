------------------------------ MODULE Mde_proofs ------------------------------
(***************************************************************************)
(* The safety properties of Mde for every length of the initialisation     *)
(* sequence and every set of torques, and that the steps of its thread and *)
(* of its operators are steps of PowerSwitch.                              *)
(*                                                                         *)
(* DriveOnlyReady is about the burst only.  What makes it inductive is     *)
(* what the drive has got in each phase of a power change (Phases): the    *)
(* flags are set when the last frame is out, and cleared while the line    *)
(* is low.                                                                 *)
(***************************************************************************)
EXTENDS Mde, FiniteSetTheorems, TLAPS

Phases ==
    /\ pc = "off_sleep" => ~line /\ is_powered_up /\ power_dn
    /\ pc \in {"calibrate", "init"} => line /\ ~is_powered_up /\ power_up
    /\ pc = "calibrate" => dev.init = 0
    /\ pc = "init" => dev.init = sent /\ sent < InitFrames /\ bias = "fresh"
    /\ pc \in {"enc", "trq"} => is_powered_up
    /\ pc = "enc" => sent < EncFrames
    /\ pc = "trq" => sent \in 0 .. 2 /\ frame \in TrqFrames
    /\ is_powered_up /\ pc # "off_sleep" => dev.init = InitFrames /\ bias = "fresh"
    /\ ~is_powered_up /\ pc \notin {"calibrate", "init"} => dev.init = 0
    /\ pc = "off_sleep" => dev.init = 0

IInv == TypeOK /\ LineMatchesState /\ Phases

\* A drive that was just powered.
LEMMA ResetFacts ==
    Reset \in [init : 0 .. InitFrames, trq : [Motors -> Torques]] /\ Reset.init = 0
  <1>1. [m \in Motors |-> 0] \in [Motors -> Torques] /\ 0 \in 0 .. InitFrames
    BY MdeAssumption
  <1> QED BY <1>1 DEF Reset

\* The drive finds in a command of mde_cmd_set_mot_trq the torque it was made
\* from, negative ones included.
LEMMA TrqDecoded ==
    ASSUME NEW m \in Motors, NEW trq \in Int8
    PROVE  ToInt8(mde_cmd_set_mot_trq(m, trq) \div 2) = trq
  <1>1. PICK k \in {3, 5, 6} : k = MotorNo[m]
    BY DEF Motors, MotorNo
  <1>2. PICK r \in 0 .. 255 : /\ r = trq % 256
                              /\ r = IF trq < 0 THEN trq + 256 ELSE trq
    <2>1. trq \in Int /\ -128 <= trq /\ trq <= 127
      BY DEF Int8, INT8_MIN, INT8_MAX
    <2>2. trq % 256 = IF trq < 0 THEN trq + 256 ELSE trq
      BY <2>1
    <2>3. trq % 256 \in 0 .. 255
      BY <2>1
    <2> QED BY <2>2, <2>3
  <1>3. PICK b \in {0, 1} : mde_cmd_set_mot_trq(m, trq) = 57344 + 512 * k + 2 * r + b
    <2>1. mde_cmd_set_mot_trq(m, trq) = 57344 + 512 * k + 2 * r + Crc(57344 + 512 * k + 2 * r)
      BY <1>1, <1>2 DEF mde_cmd_set_mot_trq
    <2>2. Crc(57344 + 512 * k + 2 * r) \in {0, 1}
      BY DEF Crc
    <2> QED BY <2>1, <2>2
  <1>4. (57344 + 512 * k + 2 * r + b) \div 2 = 28672 + 256 * k + r
    OBVIOUS
  <1>5. (28672 + 256 * k + r + 128) % 256 = trq + 128
    BY <1>2 DEF Int8, INT8_MIN, INT8_MAX
  <1> QED BY <1>3, <1>4, <1>5 DEF ToInt8, Int8, INT8_MIN, INT8_MAX

\* A torque command leaves a drive that the type invariant allows.
LEMMA ObeyTyped ==
    ASSUME NEW d \in [init : 0 .. InitFrames, trq : [Motors -> Torques]],
           NEW cmd \in TrqFrames
    PROVE  /\ Obey(d, cmd) \in [init : 0 .. InitFrames, trq : [Motors -> Torques]]
           /\ Obey(d, cmd).init = d.init
  <1>1. ToInt8(cmd \div 2) \in Torques
    BY TrqDecoded, MdeAssumption DEF TrqFrames
  <1> QED BY <1>1 DEF Obey

\* The command for a motor is made from a torque that ctrl stored.
LEMMA CommandTyped ==
    ASSUME motor \in [Motors -> Torques], NEW n \in 1 .. 3
    PROVE  Command(n) \in TrqFrames
  <1>1. Order[n] \in Motors
    BY DEF Order, Motors
  <1> QED BY <1>1 DEF Command, TrqFrames

\* The initial state satisfies the invariant.
LEMMA IInvInit == Init => IInv
  <1> SUFFICES ASSUME Init PROVE IInv
    OBVIOUS
  <1>1. dev \in [init : 0 .. InitFrames, trq : [Motors -> Torques]] /\ dev.init = 0
    BY ResetFacts DEF Init
  <1>2. motor \in [Motors -> Torques] /\ frame \in TrqFrames \cup {0}
    BY MdeAssumption DEF Init
  <1>3. TypeOK
    <2>1. sent \in Nat /\ cmds \in 0 .. MaxCmds
      BY MdeAssumption DEF Init
    <2>2. pc \in Labels
      BY DEF Init, Labels
    <2> QED BY <1>1, <1>2, <2>1, <2>2, Zenon DEF Init, TypeOK
  <1>4. LineMatchesState /\ Phases
    BY <1>1 DEF Init, LineMatchesState, Phases
  <1> QED BY <1>3, <1>4 DEF IInv

\* A power command, or a torque stored by the control thread.
LEMMA IInvOthers ==
    ASSUME IInv, mde_power_up \/ mde_power_down \/ mde_set_trq
    PROVE  IInv'
  <1> USE MdeAssumption
  <1>1. CASE mde_power_up
    BY <1>1 DEF IInv, TypeOK, LineMatchesState, Phases, mde_power_up
  <1>2. CASE mde_power_down
    BY <1>2 DEF IInv, TypeOK, LineMatchesState, Phases, mde_power_down
  <1>3. CASE mde_set_trq
    BY <1>3 DEF IInv, TypeOK, LineMatchesState, Phases, mde_set_trq, flags, oper
  <1> QED BY <1>1, <1>2, <1>3

\* A step of the thread.
LEMMA IInvStep ==
    ASSUME IInv, MdeStep
    PROVE  IInv'
  <1> USE MdeAssumption DEF Goto, Keep, flags, oper
  <1> USE DEF IInv, TypeOK, LineMatchesState, Phases, Labels, Blocked
  <1>1. CASE PowerDown
    BY <1>1, ResetFacts DEF PowerDown
  <1>2. CASE PoweredDown
    BY <1>2 DEF PoweredDown
  <1>3. CASE NoPowerDown
    BY <1>3 DEF NoPowerDown
  <1>4. CASE PowerUp
    BY <1>4 DEF PowerUp
  <1>5. CASE Calibrated
    BY <1>5 DEF Calibrated
  <1>6. CASE InitFrame
    <2>1. /\ dev.init = sent /\ sent < InitFrames /\ sent \in Nat /\ sent' = sent + 1
          /\ dev' = [dev EXCEPT !.init = @ + 1]
      BY <1>6 DEF InitFrame
    <2>2. /\ dev' \in [init : 0 .. InitFrames, trq : [Motors -> Torques]]
          /\ dev'.init = sent'
      BY <2>1
    <2>3. CASE sent' < InitFrames /\ pc' = "init"
      BY <1>6, <2>1, <2>2, <2>3 DEF InitFrame
    <2>4. CASE sent' = InitFrames /\ pc' = "guard"
      BY <1>6, <2>1, <2>2, <2>4 DEF InitFrame
    <2> QED BY <1>6, <2>3, <2>4 DEF InitFrame
  <1>7. CASE NoPowerUp
    BY <1>7 DEF NoPowerUp
  <1>8. CASE StartBurst
    BY <1>8 DEF StartBurst, EncFrames
  <1>9. CASE NoBurst
    BY <1>9 DEF NoBurst
  <1>10. CASE EncFrame
    BY <1>10, CommandTyped DEF EncFrame, EncFrames
  <1>11. CASE TrqFrame
    <2>1. /\ dev' \in [init : 0 .. InitFrames, trq : [Motors -> Torques]]
          /\ dev'.init = dev.init
      BY <1>11, ObeyTyped DEF TrqFrame
    <2>2. sent < 2 => Command(sent + 2) \in TrqFrames
      BY <1>11, CommandTyped DEF TrqFrame
    <2> QED BY <1>11, <2>1, <2>2 DEF TrqFrame
  <1>12. CASE Wake
    BY <1>12 DEF Wake
  <1> QED BY <1>1, <1>2, <1>3, <1>4, <1>5, <1>6, <1>7, <1>8, <1>9, <1>10, <1>11, <1>12
          DEF MdeStep

\* Every step keeps the invariant.
LEMMA IInvNext == IInv /\ [Next]_vars => IInv'
  <1>1. ASSUME IInv, UNCHANGED vars PROVE IInv'
    BY <1>1 DEF vars, flags, oper, IInv, TypeOK, LineMatchesState, Phases
  <1> QED BY <1>1, IInvOthers, IInvStep DEF Next

\* Every variable of mde.c keeps its type.
THEOREM TypeCorrect == Spec => []TypeOK
  <1>1. IInv => TypeOK
    BY DEF IInv
  <1> QED BY <1>1, IInvInit, IInvNext, PTL DEF Spec

\* Whenever the commands arrive, mde.c:128-156 talks only to a drive that is
\* powered and has got all its initialisation frames.
THEOREM DriveReady == Spec => []DriveOnlyReady
  <1>1. IInv => DriveOnlyReady
    BY DEF IInv, DriveOnlyReady, LineMatchesState, Phases
  <1> QED BY <1>1, IInvInit, IInvNext, PTL DEF Spec

\* Between the power changes of mde.c:69-122, is_powered_up tells the truth.
THEOREM LineMatches == Spec => []LineMatchesState
  <1>1. IInv => LineMatchesState
    BY DEF IInv
  <1> QED BY <1>1, IInvInit, IInvNext, PTL DEF Spec

-----------------------------------------------------------------------------
(* Refinement of PowerSwitch.                                              *)

\* Every step is a step of PowerSwitch or changes nothing there.
LEMMA SwitchStep == IInv /\ [Next]_vars => [Switch!Next]_(Switch!vars)
  <1> SUFFICES ASSUME IInv, [Next]_vars
               PROVE  Switch!Next \/ UNCHANGED Switch!vars
    BY DEF Switch!vars
  <1> USE DEF flags, Switch!vars, IInv, TypeOK
  <1>1. CASE mde_power_up
    BY <1>1 DEF mde_power_up, LineMatchesState, Phases, Switch!Next, Switch!Command
  <1>2. CASE mde_power_down
    BY <1>2 DEF mde_power_down, LineMatchesState, Phases, Switch!Next, Switch!Command
  <1>3. CASE mde_set_trq \/ UNCHANGED vars
    BY <1>3 DEF mde_set_trq, vars
  <1>4. CASE PowerDown
    BY <1>4 DEF PowerDown, Goto, LineMatchesState, Switch!Next, Switch!Act, Switch!Fall
  <1>5. CASE PoweredDown
    BY <1>5 DEF PoweredDown, Goto, Phases, Switch!Next, Switch!Act, Switch!Settle
  <1>6. CASE PowerUp
    BY <1>6 DEF PowerUp, Goto, LineMatchesState, Switch!Next, Switch!Act, Switch!Rise
  <1>7. CASE InitFrame
    BY <1>7 DEF InitFrame, Phases, Switch!Next, Switch!Act, Switch!Ready
  <1>8. CASE \/ NoPowerDown \/ Calibrated \/ NoPowerUp
             \/ StartBurst \/ NoBurst \/ EncFrame \/ TrqFrame \/ Wake
    BY <1>8 DEF NoPowerDown, Calibrated, NoPowerUp, StartBurst,
                NoBurst, EncFrame, TrqFrame, Wake, Keep
  <1> QED BY <1>1, <1>2, <1>3, <1>4, <1>5, <1>6, <1>7, <1>8 DEF Next, MdeStep

\* For every initialisation sequence and whenever the commands arrive: the
\* power handling of mde.c:69-122 only takes steps of the switch of PowerSwitch.
THEOREM SwitchRefined == Spec => Switch!Safe
  <1>1. Init => IInv /\ Switch!Init
    BY IInvInit DEF Init, Switch!Init
  <1> QED BY <1>1, IInvNext, SwitchStep, PTL DEF Spec, Switch!Safe

-----------------------------------------------------------------------------
(* Torques in the drive.  The idea: a frame is only read as the command    *)
(* for the motor it was made for (FrameOf), and its check bit is right.    *)

\* The exchange under way is for the motor whose turn it is.
FrameOf ==
    pc = "trq" => \E trq \in Torques : frame = mde_cmd_set_mot_trq(Order[sent + 1], trq)

\* The check bit is the only bit in which an even number and the next differ.
LEMMA NextBits ==
    ASSUME NEW n \in Nat, n % 2 = 0, NEW b \in Bits, b # 1
    PROVE  (n + 1) \div b = n \div b
  BY DEF Bits

\* There are sixteen bits.
LEMMA BitsFinite == IsFiniteSet(Bits)
  <1>1. Bits \in SUBSET Nat /\ \A b \in Bits : b <= 32768
    BY DEF Bits
  <1> QED BY <1>1, FS_BoundedSetOfNaturals

\* The check bit makes the number of ones odd.
LEMMA CrcOdd ==
    ASSUME NEW n \in Nat, n % 2 = 0
    PROVE  bit_count(n + Crc(n)) % 2 = 1
  <1> DEFINE Ones(x) == {b \in Bits : (x \div b) % 2 = 1}
  <1>1. IsFiniteSet(Ones(n)) /\ Cardinality(Ones(n)) \in Nat
    BY BitsFinite, FS_Subset, FS_CardinalityType
  <1>2. Ones(n + 1) = Ones(n) \cup {1}
    <2>1. ASSUME NEW b \in Bits, b # 1 PROVE b \in Ones(n + 1) <=> b \in Ones(n)
      BY <2>1, NextBits
    <2>2. 1 \in Ones(n + 1)
      <3>1. (n + 1) \div 1 = n + 1 /\ (n + 1) % 2 = 1
        OBVIOUS
      <3> QED BY <3>1 DEF Bits
    <2> QED BY <2>1, <2>2
  <1>3. 1 \notin Ones(n)
    <2>1. n \div 1 = n
      OBVIOUS
    <2> QED BY <2>1
  <1>4. Cardinality(Ones(n + 1)) = Cardinality(Ones(n)) + 1
    BY <1>1, <1>2, <1>3, FS_AddElement
  <1>5. bit_count(n) = Cardinality(Ones(n)) /\ bit_count(n + 1) = Cardinality(Ones(n + 1))
    BY DEF bit_count
  <1> HIDE DEF Ones
  <1>6. CASE bit_count(n) % 2 = 0
    <2>1. bit_count(n + 1) % 2 = 1
      BY <1>1, <1>4, <1>5, <1>6
    <2> QED BY <1>6, <2>1 DEF Crc
  <1>7. CASE bit_count(n) % 2 # 0
    <2>1. bit_count(n) % 2 = 1
      BY <1>1, <1>5, <1>7
    <2>2. n + Crc(n) = n
      BY <1>7 DEF Crc
    <2> QED BY <2>1, <2>2
  <1> QED BY <1>6, <1>7

\* The drive takes a command of mde_cmd_set_mot_trq, for the motor it is for.
LEMMA CommandTaken ==
    ASSUME NEW m \in Motors, NEW trq \in Int8
    PROVE  /\ bit_count(mde_cmd_set_mot_trq(m, trq)) % 2 = 1
           /\ (mde_cmd_set_mot_trq(m, trq) \div 512) % 8 = MotorNo[m]
  <1>1. PICK k \in {3, 5, 6} : k = MotorNo[m]
    BY DEF Motors, MotorNo
  <1>2. PICK r \in 0 .. 255 : r = trq % 256
    BY DEF Int8, INT8_MIN, INT8_MAX
  <1> DEFINE cmd == 57344 + 512 * k + 2 * r
  <1>3. mde_cmd_set_mot_trq(m, trq) = cmd + Crc(cmd)
    BY <1>1, <1>2 DEF mde_cmd_set_mot_trq
  <1>4. cmd \in Nat /\ cmd % 2 = 0
    OBVIOUS
  <1>5. bit_count(cmd + Crc(cmd)) % 2 = 1
    BY <1>4, CrcOdd
  <1>6. PICK b \in {0, 1} : b = Crc(cmd)
    BY DEF Crc
  <1>7. (57344 + 512 * k + 2 * r + b) \div 512 = 112 + k
    OBVIOUS
  <1>8. (112 + k) % 8 = k
    OBVIOUS
  <1> QED BY <1>1, <1>3, <1>5, <1>6, <1>7, <1>8

\* A torque exchange completes: one motor gets its torque, no other changes.
LEMMA Obeyed ==
    ASSUME NEW d \in [init : 0 .. InitFrames, trq : [Motors -> Torques]],
           NEW n \in Motors, NEW trq \in Int8, NEW m \in Motors
    PROVE  Obey(d, mde_cmd_set_mot_trq(n, trq)).trq[m] = IF m = n THEN trq ELSE d.trq[m]
  <1> DEFINE cmd == mde_cmd_set_mot_trq(n, trq)
  <1>1. /\ bit_count(cmd) % 2 = 1 /\ (cmd \div 512) % 8 = MotorNo[n]
        /\ ToInt8(cmd \div 2) = trq
    BY CommandTaken, TrqDecoded
  <1> HIDE DEF cmd
  <1>2. MotorNo[n] = MotorNo[m] <=> m = n
    BY DEF Motors, MotorNo
  <1>3. Obey(d, cmd).trq[m] = IF MotorNo[n] = MotorNo[m] THEN trq ELSE d.trq[m]
    BY <1>1 DEF Obey
  <1> QED BY <1>2, <1>3 DEF cmd

\* Every step keeps FrameOf.
LEMMA FrameOfNext == IInv /\ FrameOf /\ [Next]_vars => FrameOf'
  <1> SUFFICES ASSUME IInv, FrameOf, [Next]_vars, pc' = "trq"
               PROVE  \E trq \in Torques : frame' = mde_cmd_set_mot_trq(Order[sent' + 1], trq)
    BY DEF FrameOf
  <1>1. motor \in [Motors -> Torques]
    BY DEF IInv, TypeOK
  <1>2. CASE EncFrame
    <2>1. sent' = 0 /\ frame' = Command(1)
      BY <1>2 DEF EncFrame, Goto
    <2>2. Order[1] \in Motors
      BY DEF Order, Motors
    <2> QED BY <1>1, <2>1, <2>2 DEF Command
  <1>3. CASE TrqFrame
    <2>1. sent \in Nat /\ sent < 2 /\ sent' = sent + 1 /\ frame' = Command(sent + 2)
      BY <1>3 DEF TrqFrame, Goto, IInv, TypeOK
    <2>2. sent' + 1 = sent + 2 /\ Order[sent + 2] \in Motors
      BY <2>1 DEF Order, Motors
    <2> QED BY <1>1, <2>1, <2>2 DEF Command
  <1>4. CASE mde_power_up \/ mde_power_down \/ mde_set_trq \/ UNCHANGED vars
    BY <1>4 DEF FrameOf, mde_power_up, mde_power_down, mde_set_trq, vars
  <1>5. CASE \/ PowerDown \/ PoweredDown \/ NoPowerDown \/ PowerUp \/ Calibrated
             \/ InitFrame \/ NoPowerUp \/ StartBurst \/ NoBurst \/ Wake
    BY <1>5 DEF PowerDown, PoweredDown, NoPowerDown, PowerUp, Calibrated, InitFrame,
                NoPowerUp, StartBurst, NoBurst, Wake, Goto
  <1> QED BY <1>2, <1>3, <1>4, <1>5 DEF Next, MdeStep

\* A torque exchange completes.
LEMMA DeliveredTrqFrame ==
    ASSUME IInv, FrameOf, TrqFrame, NEW m \in Motors, Delivered(m)
    PROVE  Delivered(m)'
  <1>1. /\ pc = "trq" /\ sent \in 0 .. 2 /\ motor \in [Motors -> Torques] /\ motor' = motor
        /\ dev \in [init : 0 .. InitFrames, trq : [Motors -> Torques]]
        /\ dev' = Obey(dev, frame)
    BY DEF TrqFrame, IInv, TypeOK, Phases
  <1>2. motor[m] \in Torques /\ motor[m] \in Int8
    BY <1>1, MdeAssumption
  <1> DEFINE n == Order[sent + 1]
  <1>3. n \in Motors
    BY <1>1 DEF Order, Motors
  <1>4. PICK trq \in Torques : frame = mde_cmd_set_mot_trq(n, trq)
    BY <1>1 DEF FrameOf
  <1>5. trq \in Int8
    BY MdeAssumption
  <1> HIDE DEF n
  <1>6. dev'.trq[m] = motor[m]
    <2>1. CASE m = n
      <3>1. frame = mde_cmd_set_mot_trq(m, motor[m])
        BY <1>1, <2>1 DEF Delivered, n
      <3> QED BY <1>1, <1>2, <3>1, Obeyed
    <2>2. CASE m # n
      <3>1. dev.trq[m] = motor[m]
        BY <1>1, <2>2 DEF Delivered, n
      <3>2. Obey(dev, frame).trq[m] = dev.trq[m]
        BY <1>1, <1>3, <1>4, <1>5, <2>2, Obeyed
      <3> QED BY <1>1, <3>1, <3>2
    <2> QED BY <2>1, <2>2
  <1>7. CASE sent < 2 /\ pc' = "trq" /\ sent' = sent + 1 /\ frame' = Command(sent + 2)
    <2>1. sent' + 1 = sent + 2
      BY <1>1, <1>7
    <2> QED BY <1>1, <1>6, <1>7, <2>1 DEF Delivered, Command
  <1>8. CASE pc' = "sleep"
    BY <1>1, <1>6, <1>8 DEF Delivered
  <1> QED BY <1>7, <1>8 DEF TrqFrame, Goto

\* Every other step.
LEMMA DeliveredStep ==
    ASSUME IInv, FrameOf, [Next]_vars, NEW m \in Motors,
           Delivered(m), motor'[m] = motor[m], line'
    PROVE  Delivered(m)'
  <1>1. CASE TrqFrame
    BY <1>1, DeliveredTrqFrame
  <1>2. CASE EncFrame
    <2>1. pc = "enc" /\ motor' = motor /\ dev' = dev
      BY <1>2 DEF EncFrame
    <2>2. CASE pc' = "enc"
      BY <2>1, <2>2 DEF Delivered
    <2>3. CASE pc' = "trq" /\ sent' = 0 /\ frame' = Command(1)
      <3>1. sent' + 1 = 1
        BY <2>3
      <3> QED BY <2>1, <2>3, <3>1 DEF Delivered, Command
    <2> QED BY <1>2, <2>2, <2>3 DEF EncFrame, Goto
  <1>3. CASE mde_power_up \/ mde_power_down \/ mde_set_trq \/ UNCHANGED vars
    <2>1. pc' = pc /\ sent' = sent /\ frame' = frame /\ dev' = dev
      BY <1>3 DEF mde_power_up, mde_power_down, mde_set_trq, vars
    <2> QED BY <2>1 DEF Delivered
  <1>4. CASE InitFrame
    <2>1. pc # "trq" /\ pc' # "trq" /\ dev' = [dev EXCEPT !.init = @ + 1]
      BY <1>4 DEF InitFrame, Goto
    <2>2. dev'.trq = dev.trq
      BY <2>1 DEF IInv, TypeOK
    <2> QED BY <2>1, <2>2 DEF Delivered
  <1>5. CASE PowerDown
    BY <1>5 DEF PowerDown
  <1>6. CASE \/ PoweredDown \/ NoPowerDown \/ PowerUp \/ Calibrated
             \/ NoPowerUp \/ StartBurst \/ NoBurst \/ Wake
    <2>1. pc # "trq" /\ pc' # "trq" /\ dev' = dev
      BY <1>6 DEF PoweredDown, NoPowerDown, PowerUp, Calibrated,
                  NoPowerUp, StartBurst, NoBurst, Wake, Goto, Keep
    <2> QED BY <2>1 DEF Delivered
  <1> QED BY <1>1, <1>2, <1>3, <1>4, <1>5, <1>6 DEF Next, MdeStep

\* For every set of torques of a byte, negative ones included: a torque that
\* mde_cmd_set_mot_trq (mde.c:50-56) has brought to the drive stays there until
\* ctrl stores another one for this motor, or the power goes.
THEOREM TorqueStays == Spec => DeliveredStays
  <1>1. Init => IInv /\ FrameOf
    BY IInvInit DEF Init, FrameOf
  <1>2. IInv /\ FrameOf /\ [Next]_vars => IInv' /\ FrameOf'
    BY IInvNext, FrameOfNext
  <1>3. IInv /\ FrameOf /\ [Next]_vars
        => [\A m \in Motors :
               Delivered(m) /\ motor'[m] = motor[m] /\ line' => Delivered(m)']_vars
    BY DeliveredStep
  <1> QED BY <1>1, <1>2, <1>3, PTL DEF Spec, DeliveredStays

=============================================================================
