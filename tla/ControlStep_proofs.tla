------------------------- MODULE ControlStep_proofs -------------------------
(***************************************************************************)
(* The properties of ControlStep for every 16-bit input, not only for the  *)
(* grid that TLC tries.  Each property speaks about one axis and its       *)
(* results, so the inductive invariant only remembers that the inputs are  *)
(* in range and that, once done, the results are those of the law.         *)
(***************************************************************************)
EXTENDS ControlStep, ControlLaw_proofs

\* The inputs stay in range, and the results are those of Evaluate.
AzInv == /\ az.tgt \in UInt16 /\ az.enc \in UInt16 /\ az.act \in Int16
         /\ done => /\ az.move <=> AzMustMove(az.tgt, az.enc)
                    /\ az.move => /\ az.spd = AzTgtSpd(az.tgt, az.enc)
                                  /\ az.trq = AzTrq(az.spd, az.act)
ElInv == /\ el.tgt \in Int16 /\ el.pos \in Int16
         /\ el.rate \in Int16 /\ el.fresh \in Int16
         /\ done => /\ el.spd = ElTgtSpd(el.tgt, el.pos)
                    /\ el.trq = ElTrq(el.spd, el.rate, el.fresh)
GyInv == /\ gy.rot \in [Group -> Rots] /\ gy.bias \in [Group -> Rots]
         /\ done => gy.rate = imu_el_spd(gy.rot, gy.bias)
Shape == /\ done \in BOOLEAN
         /\ ~done => az \in AzInput /\ el \in ElInput /\ gy \in GyInput
Results == Shape /\ AzInv /\ ElInv /\ GyInv

\* The inputs at rest are inputs.
LEMMA RestIsInput == AzRest \in AzInput /\ ElRest \in ElInput /\ GyRest \in GyInput
  <1>1. AzRest \in AzInput
    BY ControlStepAssumption DEF AzRest, AzInput
  <1>2. ElRest \in ElInput
    BY ControlStepAssumption DEF ElRest, ElInput
  <1>3. [i \in Group |-> 2070] \in [Group -> Gyros]
    BY ControlStepAssumption
  <1>4. [i \in Group |-> 2070] \in Biases
    <2>1. 1 \in Group /\ 2070 \in Gyros
      BY ControlStepAssumption DEF Group
    <2>2. [i \in Group |-> 2070] = [i \in Group |-> IF i <= 1 THEN 2070 ELSE 2070]
      OBVIOUS
    <2> QED BY <2>1, <2>2 DEF Biases
  <1> QED BY <1>1, <1>2, <1>3, <1>4 DEF GyRest, GyInput

\* The inputs are in range.
LEMMA InputInRange ==
    ASSUME az \in AzInput, el \in ElInput, gy \in GyInput
    PROVE  /\ az.tgt \in UInt16 /\ az.enc \in UInt16 /\ az.act \in Int16
           /\ el.tgt \in Int16 /\ el.pos \in Int16
           /\ el.rate \in Int16 /\ el.fresh \in Int16
           /\ gy.rot \in [Group -> Rots] /\ gy.bias \in [Group -> Rots]
  <1>1. /\ az.tgt \in UInt16 /\ az.enc \in UInt16 /\ az.act \in Int16
        /\ el.tgt \in Int16 /\ el.pos \in Int16
        /\ el.rate \in Int16 /\ el.fresh \in Int16
    BY ControlStepAssumption DEF AzInput, ElInput
  <1>2. gy.rot \in [Group -> Gyros] /\ gy.bias \in Biases
    BY DEF GyInput
  <1>3. Biases \subseteq [Group -> Gyros]
    BY DEF Biases
  <1> QED BY <1>1, <1>2, <1>3, ControlStepAssumption

\* Results holds in every reachable state.
LEMMA ResultsOfTheLaw == Spec => []Results
  <1>1. Init => Results
    <2> SUFFICES ASSUME Init PROVE Results
      OBVIOUS
    <2>1. az \in AzInput /\ el \in ElInput /\ gy \in GyInput /\ done = FALSE
      BY RestIsInput DEF Init
    <2> QED BY <2>1, InputInRange DEF Results, Shape, AzInv, ElInv, GyInv
  <1>2. Results /\ [Next]_vars => Results'
    <2> SUFFICES ASSUME Results, [Next]_vars PROVE Results'
      OBVIOUS
    <2> USE DEF Results
    <2>1. CASE Evaluate
      <3>1. az \in AzInput /\ el \in ElInput /\ gy \in GyInput
        BY <2>1 DEF Shape, Evaluate
      <3>2. /\ done' = TRUE /\ az' = AzEvaluate(az) /\ el' = ElEvaluate(el)
            /\ gy' = GyEvaluate(gy)
        BY <2>1 DEF Evaluate
      <3>3. AzInv'
        <4>1. CASE AzMustMove(az.tgt, az.enc)
          <5>1. az' = [az EXCEPT !.move = TRUE,
                                 !.spd = AzTgtSpd(az.tgt, az.enc),
                                 !.trq = AzTrq(AzTgtSpd(az.tgt, az.enc), az.act)]
            BY <3>2, <4>1 DEF AzEvaluate
          <5> QED BY <3>1, <4>1, <5>1 DEF AzInv, AzInput
        <4>2. CASE ~AzMustMove(az.tgt, az.enc)
          <5>1. az' = [az EXCEPT !.trq = AzHoldTrq(az.trq)]
            BY <3>2, <4>2 DEF AzEvaluate
          <5> QED BY <3>1, <4>2, <5>1 DEF AzInv, AzInput
        <4> QED BY <4>1, <4>2
      <3>4. ElInv'
        BY <3>1, <3>2 DEF ElInv, ElEvaluate, ElInput
      <3>5. GyInv'
        BY <3>1, <3>2 DEF GyInv, GyEvaluate, GyInput
      <3> QED BY <3>2, <3>3, <3>4, <3>5 DEF Shape
    <2>2. CASE UNCHANGED vars
      BY <2>2 DEF vars, Shape, AzInv, ElInv, GyInv
    <2> QED BY <2>1, <2>2 DEF Next
  <1> QED BY <1>1, <1>2, PTL DEF Spec

\* For all azimuths: the demand of ctrl.c:154-166 follows the shortest way.
THEOREM AzSpeedCorrect == Spec => []AzSpeedFollowsShortestWay
  <1>1. AzInv => AzSpeedFollowsShortestWay
    BY AzMustMoveWay, AzTgtSpdWay DEF AzInv, AzSpeedFollowsShortestWay
  <1> QED BY <1>1, ResultsOfTheLaw, PTL DEF Results

\* For all azimuths and speeds: the torque of ctrl.c:176-184 is exact while
\* the speed error is below 7080.
THEOREM AzTorqueCorrect == Spec => []AzTorqueExactInRange
  <1>1. AzInv => AzTorqueExactInRange
    <2> SUFFICES ASSUME AzInv, done, az.move, abs(az.spd - az.act) < 7080
                 PROVE  az.trq = Between(-25, CDiv(az.spd - az.act, 60)
                                              + 10 * Sign(az.spd), 25)
      BY DEF AzTorqueExactInRange
    <2>1. az.spd \in Int16 /\ 364 <= abs(az.spd)
      BY AzTgtSpdRange DEF AzInv
    <2>2. az.spd # 0
      BY <2>1 DEF abs
    <2> QED BY <2>1, <2>2, AzTrqExact DEF AzInv
  <1> QED BY <1>1, ResultsOfTheLaw, PTL DEF Results

\* For all targets and all positions of the sensor's full turn: the demand of
\* ctrl.c:201-215 points at the target the shorter way round.
THEOREM ElSpeedCorrect == Spec => []ElSpeedPointsAtTarget
  <1>1. ElInv => ElSpeedPointsAtTarget
    BY ElTgtSpdWay DEF ElInv, ElSpeedPointsAtTarget
  <1> QED BY <1>1, ResultsOfTheLaw, PTL DEF Results

\* For all elevations and rates: the torque of ctrl.c:221-225 has the sign of
\* the speed error, also when the rate changes between its two reads.
THEOREM ElTorqueCorrect == Spec => []ElTorqueOpposesError
  <1>1. ElInv => ElTorqueOpposesError
    <2> SUFFICES ASSUME ElInv, done PROVE ElTorqueOpposesError
      BY DEF ElTorqueOpposesError
    <2> DEFINE used == IF abs(el.rate) < 150 THEN 0 ELSE el.fresh
    <2>1. el.spd \in Int16 /\ abs(el.spd) <= 2730
      BY ElTgtSpdRange DEF ElInv
    <2>2. el.trq = ElTrq(el.spd, el.rate, el.fresh)
      BY DEF ElInv
    <2>3. /\ abs(el.trq) <= 25
          /\ el.trq > 0 => el.spd > used
          /\ el.trq < 0 => el.spd < used
          /\ abs(el.spd - used) >= 250 => abs(el.trq) = 25
      BY <2>1, <2>2, ElTrqSign DEF ElInv
    <2> QED BY <2>3 DEF ElTorqueOpposesError
  <1> QED BY <1>1, ResultsOfTheLaw, PTL DEF Results

\* The mean of five terms that fit an int16_t fits as well.
LEMMA RateFits ==
    ASSUME NEW a \in Int, -31570 <= a, a <= 31570, NEW b \in Int, -31570 <= b, b <= 31570,
           NEW c \in Int, -31570 <= c, c <= 31570, NEW d \in Int, -31570 <= d, d <= 31570,
           NEW e \in Int, -31570 <= e, e <= 31570
    PROVE  ToInt16(CDiv(a + b + c + d + e, 5)) = CDiv(a + b + c + d + e, 5)
  <1>1. PICK s \in Int : s = a + b + c + d + e /\ -157850 <= s /\ s <= 157850
    OBVIOUS
  <1>2. CDiv(s, 5) \in Int /\ -31570 <= CDiv(s, 5) /\ CDiv(s, 5) <= 31570
    BY <1>1 DEF CDiv
  <1>3. ASSUME NEW x \in Int, -31570 <= x, x <= 31570 PROVE ToInt16(x) = x
    BY <1>3 DEF ToInt16
  <1> QED BY <1>1, <1>2, <1>3

\* For all readings that the failsafe accepts and all biases: the elevation
\* rate of imu.c:222-227 is not changed by its conversion to int16_t.
THEOREM ElRateCorrect == Spec => []ElRateExactWhenSafe
  <1>1. GyInv => ElRateExactWhenSafe
    <2> SUFFICES ASSUME GyInv, done, \A i \in Group : abs(gy.rot[i] - 2070) <= 800
                 PROVE  gy.rate = CDiv(Accu(gy.rot, gy.bias), 5)
      BY DEF ElRateExactWhenSafe
    <2> DEFINE term(i) == -(gy.rot[i] - gy.bias[i]) * 11
    <2>1. ASSUME NEW i \in Group
          PROVE  term(i) \in Int /\ -31570 <= term(i) /\ term(i) <= 31570
      <3>1. gy.rot[i] \in Rots /\ gy.bias[i] \in Rots
        BY DEF GyInv
      <3>2. /\ gy.rot[i] \in Int
            /\ gy.bias[i] \in Int /\ 0 <= gy.bias[i] /\ gy.bias[i] <= RotMax
        BY <3>1 DEF Rots
      <3>3. 1270 <= gy.rot[i] /\ gy.rot[i] <= 2870
        BY <3>2 DEF abs
      <3> QED BY <3>2, <3>3 DEF RotMax
    <2>2. 1 \in Group /\ 2 \in Group /\ 3 \in Group /\ 4 \in Group /\ 5 \in Group
      BY DEF Group
    <2>3. Accu(gy.rot, gy.bias) = term(1) + term(2) + term(3) + term(4) + term(5)
      BY DEF Accu
    <2>4. ToInt16(CDiv(Accu(gy.rot, gy.bias), 5)) = CDiv(Accu(gy.rot, gy.bias), 5)
      <3> HIDE DEF term
      <3> QED BY <2>1, <2>2, <2>3, RateFits
    <2> QED BY <2>4 DEF GyInv, imu_el_spd
  <1> QED BY <1>1, ResultsOfTheLaw, PTL DEF Results
=============================================================================
