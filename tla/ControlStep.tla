----------------------------- MODULE ControlStep ----------------------------
(***************************************************************************)
(* One evaluation of the control law: inputs are latched, the law is       *)
(* computed, and the results are compared with references written without  *)
(* 16-bit arithmetic (the signed shortest way round the circle, and the    *)
(* torque an unbounded accumulator would give).  The same for the rate     *)
(* that the imu thread hands to the elevation loop.                        *)
(***************************************************************************)
EXTENDS ControlLaw, Imu

CONSTANTS AzPositions,  \* target and encoder positions that are tried
          ElPositions,  \* target and IMU positions that are tried
          AzSpeeds,     \* encoder speeds that are tried
          ElRates,      \* IMU elevation rates that are tried
          Gyros         \* readings and biases of the rate sensor that are tried

ASSUME ControlStepAssumption ==
    /\ AzPositions \subseteq UInt16 /\ 0 \in AzPositions
    /\ ElPositions \subseteq Int16 /\ 0 \in ElPositions
    /\ AzSpeeds \subseteq Int16 /\ 0 \in AzSpeeds
    /\ ElRates \subseteq Int16 /\ 0 \in ElRates
    /\ Gyros \subseteq Rots /\ 2070 \in Gyros

VARIABLES az,   \* [tgt, enc, act], then also the results [move, spd, trq]
          el,   \* [tgt, pos, rate, fresh], then also the results [spd, trq]
          gy,   \* [rot, bias], then also the result [rate]
          done  \* the law has been evaluated

vars == <<az, el, gy, done>>

AzInput == [tgt : AzPositions, enc : AzPositions, act : AzSpeeds,
            move : {FALSE}, spd : {0}, trq : {0}]
ElInput == [tgt : ElPositions, pos : ElPositions, rate : ElRates,
            fresh : ElRates, spd : {0}, trq : {0}]
Biases  == {[i \in Group |-> IF i <= n THEN b ELSE c] : n \in Group, b \in Gyros, c \in Gyros}
GyInput == [rot : [Group -> Gyros], bias : Biases, rate : {0}]

AzRest == [tgt |-> 0, enc |-> 0, act |-> 0, move |-> FALSE, spd |-> 0, trq |-> 0]
ElRest == [tgt |-> 0, pos |-> 0, rate |-> 0, fresh |-> 0, spd |-> 0, trq |-> 0]
GyRest == [rot |-> [i \in Group |-> 2070], bias |-> [i \in Group |-> 2070], rate |-> 0]

\* The three computations are independent: one at a time gets all its inputs.
Init == /\ \/ az \in AzInput /\ el = ElRest /\ gy = GyRest
           \/ az = AzRest /\ el \in ElInput /\ gy = GyRest
           \/ az = AzRest /\ el = ElRest /\ gy \in GyInput
        /\ done = FALSE

\* The target position branch of the azimuth switch: it falls through to the
\* speed loop, or keeps the sign of the torque at holding strength.
AzEvaluate(a) ==
    IF AzMustMove(a.tgt, a.enc)
    THEN LET spd == AzTgtSpd(a.tgt, a.enc)
         IN  [a EXCEPT !.move = TRUE, !.spd = spd, !.trq = AzTrq(spd, a.act)]
    ELSE [a EXCEPT !.trq = AzHoldTrq(a.trq)]

\* The target position branch of the elevation switch.
ElEvaluate(e) ==
    LET spd == ElTgtSpd(e.tgt, e.pos)
    IN  [e EXCEPT !.spd = spd, !.trq = ElTrq(spd, e.rate, e.fresh)]

GyEvaluate(g) == [g EXCEPT !.rate = imu_el_spd(g.rot, g.bias)]

Evaluate ==
    /\ ~done
    /\ done' = TRUE
    /\ az' = AzEvaluate(az)
    /\ el' = ElEvaluate(el)
    /\ gy' = GyEvaluate(gy)

Next == Evaluate
Spec == Init /\ [][Next]_vars

-----------------------------------------------------------------------------
\* Outside the null zone the azimuth demand points along the shortest way,
\* across north included, and is half the distance kept between 2 and 30
\* degrees per second.  The null zone is -46 .. 45 counts: the upper test of
\* ctrl.c compares with UINT16_MAX, one less than a full turn.
AzSpeedFollowsShortestWay ==
    LET way == ShortestWay(az.tgt, az.enc)
    IN  done => /\ az.move <=> way > 45 \/ way < -46
                /\ az.move => az.spd = Sign(way) * Between(364, abs(way) \div 2, 5460)

\* While the speed error stays below 7080 counts per second (39 deg/s) the
\* int8_t that holds the azimuth torque does not wrap, so the torque is the
\* limited sum of the proportional part and the static part.
AzTorqueExactInRange ==
    done /\ az.move /\ abs(az.spd - az.act) < 7080 =>
        az.trq = Between(-25, CDiv(az.spd - az.act, 60) + 10 * Sign(az.spd), 25)

\* The sensor reports a full turn (imu.c:218-219), so target and position may be
\* more than half a turn apart.  The elevation demand points at the target the
\* shorter way round, is that way itself when it is within 45 counts, and is
\* kept between 1 and 15 degrees per second otherwise.
ElSpeedPointsAtTarget ==
    LET way == ShortestWay(el.tgt, el.pos)
    IN  done => el.spd = Sign(way) * (IF abs(way) <= 45 THEN abs(way)
                                      ELSE Between(182, abs(way), 2730))

\* The elevation torque is limited to 25 and never has the wrong sign: it is
\* positive only if the demand exceeds the rate that was used, negative only
\* if it is below, also when the rate changes between its two reads.
ElTorqueOpposesError ==
    LET used == IF abs(el.rate) < 150 THEN 0 ELSE el.fresh
    IN  done => /\ abs(el.trq) <= 25
                /\ el.trq > 0 => el.spd > used
                /\ el.trq < 0 => el.spd < used
                /\ abs(el.spd - used) >= 250 => abs(el.trq) = 25

\* While the rate sensor reads what the failsafe accepts, the elevation rate
\* is the mean of the readings relative to the bias, with its sign: it fits
\* an int16_t, whatever bias was measured and also when a new one is stored
\* in the middle of the five readings.
ElRateExactWhenSafe ==
    done /\ (\A i \in Group : abs(gy.rot[i] - 2070) <= 800)
        => gy.rate = CDiv(Accu(gy.rot, gy.bias), 5)

=============================================================================
