------------------------- MODULE ControlLaw_proofs --------------------------
(***************************************************************************)
(* Facts about the operators of ControlLaw for every 16-bit input.  The    *)
(* limits of the narrow types stay folded (LimitValues says what they      *)
(* are), so that the provers never enumerate a range of 65536 values.      *)
(***************************************************************************)
EXTENDS ControlLaw, TLAPS

\* The limits of the narrow types, to be cited with the ranges unfolded.
LEMMA LimitValues ==
    /\ INT8_MIN = -128 /\ INT8_MAX = 127
    /\ INT16_MIN = -32768 /\ INT16_MAX = 32767
    /\ UINT16_MAX = 65535
  BY DEF INT8_MIN, INT8_MAX, INT16_MIN, INT16_MAX, UINT16_MAX

\* The same limits, known only to be integers.
LEMMA LimitTypes ==
    /\ INT8_MIN \in Int /\ INT8_MAX \in Int
    /\ INT16_MIN \in Int /\ INT16_MAX \in Int
    /\ UINT16_MAX \in Int
  BY DEF INT8_MIN, INT8_MAX, INT16_MIN, INT16_MAX, UINT16_MAX

\* What membership in the narrow types means, as inequalities.
LEMMA NarrowTypes ==
    /\ \A x : x \in Int8 <=> x \in Int /\ -128 <= x /\ x <= 127
    /\ \A x : x \in Int16 <=> x \in Int /\ -32768 <= x /\ x <= 32767
    /\ \A x : x \in UInt16 <=> x \in Int /\ 0 <= x /\ x <= 65535
  <1>1. \A x : x \in Int8 <=> x \in Int /\ INT8_MIN <= x /\ x <= INT8_MAX
    BY LimitTypes DEF Int8
  <1>2. \A x : x \in Int16 <=> x \in Int /\ INT16_MIN <= x /\ x <= INT16_MAX
    BY LimitTypes DEF Int16
  <1>3. \A x : x \in UInt16 <=> x \in Int /\ 0 <= x /\ x <= UINT16_MAX
    BY LimitTypes DEF UInt16
  <1> QED
    BY <1>1, <1>2, <1>3, LimitValues

\* The narrowing conversions yield values of their type.
LEMMA NarrowingTyped ==
    ASSUME NEW x \in Int
    PROVE  ToInt8(x) \in Int8 /\ ToInt16(x) \in Int16 /\ ToUInt16(x) \in UInt16
  BY NarrowTypes DEF ToInt8, ToInt16, ToUInt16

\* Division that truncates towards zero yields an integer.
LEMMA CDivTyped ==
    ASSUME NEW x \in Int, NEW n \in Int, n > 0
    PROVE  CDiv(x, n) \in Int
  BY DEF CDiv

\* Narrowing to uint16_t a difference of two uint16_t values adds a full turn
\* to a negative difference and leaves the others alone.
LEMMA ToUInt16OfDifference ==
    ASSUME NEW x \in UInt16, NEW y \in UInt16
    PROVE  ToUInt16(x - y) = IF x < y THEN x - y + 65536 ELSE x - y
  BY NarrowTypes DEF ToUInt16

\* The null zone of ctrl.c:162 in terms of the signed way to the target.
LEMMA AzMustMoveWay ==
    ASSUME NEW tgt \in UInt16, NEW enc \in UInt16
    PROVE  AzMustMove(tgt, enc) <=>
               ShortestWay(tgt, enc) > 45 \/ ShortestWay(tgt, enc) < -46
  BY ToUInt16OfDifference, NarrowTypes, LimitValues
     DEF AzMustMove, AzDirDiff, NullZone, ShortestWay

\* Outside the null zone the demanded speed follows the shortest way.
LEMMA AzTgtSpdWay ==
    ASSUME NEW tgt \in UInt16, NEW enc \in UInt16, AzMustMove(tgt, enc)
    PROVE  AzTgtSpd(tgt, enc) =
               Sign(ShortestWay(tgt, enc))
                   * Between(364, abs(ShortestWay(tgt, enc)) \div 2, 5460)
  <1> DEFINE way == ShortestWay(tgt, enc)
             dist == AzDist(tgt, enc)
             dir == AzDir(tgt, enc)
  <1>1. /\ ToUInt16(tgt - enc) = IF tgt < enc THEN tgt - enc + 65536 ELSE tgt - enc
        /\ ToUInt16(enc - tgt) = IF enc < tgt THEN enc - tgt + 65536 ELSE enc - tgt
    BY ToUInt16OfDifference
  <1>2. way \in Int /\ -32768 <= way /\ way <= 32767 /\ way # 0
    BY AzMustMoveWay, NarrowTypes DEF ShortestWay
  <1>3. /\ dir = Sign(way)
        /\ dist = abs(way)
    BY <1>1, NarrowTypes DEF ShortestWay, AzDir, AzDirDiff, AzDist, Sign, abs
  <1> HIDE DEF way, dist, dir
  <1>4. dist \in Int /\ 0 < dist /\ dist <= 32768
    BY <1>2, <1>3 DEF abs
  <1>5. dir = 1 \/ dir = -1
    BY <1>2, <1>3 DEF Sign
  <1> DEFINE half == dist \div 2
  <1>6. CDiv(dir * dist, 2) = dir * half
    <2>1. CASE dir = 1
      BY <1>4, <2>1 DEF CDiv
    <2>2. CASE dir = -1
      BY <1>4, <2>2 DEF CDiv
    <2> QED BY <1>5, <2>1, <2>2
  <1>7. half \in Int /\ 0 <= half /\ half <= 16384
    BY <1>4
  <1> HIDE DEF half
  <1>8. AzTgtSpd(tgt, enc) = dir * Between(364, half, 5460)
    <2>1. CASE dir = 1
      BY <1>6, <1>7, <2>1 DEF AzTgtSpd, AzMinSpd, AzMaxSpd, Between, abs, dir, dist
    <2>2. CASE dir = -1
      BY <1>6, <1>7, <2>2 DEF AzTgtSpd, AzMinSpd, AzMaxSpd, Between, abs, dir, dist
    <2> QED BY <1>5, <2>1, <2>2
  <1> QED
    BY <1>3, <1>8 DEF way, half

\* The azimuth demand is a speed between 2 and 30 degrees per second.
LEMMA AzTgtSpdRange ==
    ASSUME NEW tgt \in UInt16, NEW enc \in UInt16, AzMustMove(tgt, enc)
    PROVE  /\ AzTgtSpd(tgt, enc) \in Int16
           /\ 364 <= abs(AzTgtSpd(tgt, enc)) /\ abs(AzTgtSpd(tgt, enc)) <= 5460
  <1> DEFINE way == ShortestWay(tgt, enc)
             spd == Between(364, abs(way) \div 2, 5460)
  <1>1. way \in Int
    BY NarrowTypes DEF ShortestWay
  <1> HIDE DEF way
  <1>2. spd \in Int /\ 364 <= spd /\ spd <= 5460
    BY <1>1 DEF Between, abs
  <1>3. AzTgtSpd(tgt, enc) = Sign(way) * spd
    BY AzTgtSpdWay DEF way
  <1> HIDE DEF spd
  <1>4. AzTgtSpd(tgt, enc) = spd \/ AzTgtSpd(tgt, enc) = -spd
    BY <1>2, <1>3 DEF Sign
  <1> QED
    BY <1>2, <1>4, NarrowTypes DEF abs

\* The limiter bounds any integer.
LEMMA LimitBounds ==
    ASSUME NEW x \in Int
    PROVE  /\ Limit(x, MaxTrq) \in Int8 /\ abs(Limit(x, MaxTrq)) <= 25
           /\ Limit(x, MaxTrq) = Between(-25, x, 25)
           /\ Limit(x, MaxTrq) > 0 => x > 0
           /\ Limit(x, MaxTrq) < 0 => x < 0
           /\ x >= 25 \/ x <= -25 => abs(Limit(x, MaxTrq)) = 25
  <1>1. /\ Limit(x, MaxTrq) \in Int
        /\ -25 <= Limit(x, MaxTrq) /\ Limit(x, MaxTrq) <= 25
        /\ Limit(x, MaxTrq) = Between(-25, x, 25)
    BY DEF Limit, MaxTrq, Between
  <1>2. /\ Limit(x, MaxTrq) > 0 => x > 0
        /\ Limit(x, MaxTrq) < 0 => x < 0
        /\ x >= 25 => Limit(x, MaxTrq) = 25
        /\ x <= -25 => Limit(x, MaxTrq) = -25
    BY DEF Limit, MaxTrq
  <1> QED BY <1>1, <1>2, NarrowTypes DEF abs

\* Whatever the speeds, the azimuth torque is within the limiter's bounds.
LEMMA AzTrqLimited ==
    ASSUME NEW tgt \in Int16, NEW act \in Int16
    PROVE  AzTrq(tgt, act) \in Int8 /\ abs(AzTrq(tgt, act)) <= 25
  <1> DEFINE raw == CDiv(tgt - act, 60) + StaticTrq * (IF tgt > 0 THEN 1 ELSE -1)
  <1>1. raw \in Int
    BY NarrowTypes, CDivTyped DEF StaticTrq
  <1> HIDE DEF raw
  <1>2. ToInt8(raw) \in Int
    BY <1>1, NarrowingTyped, NarrowTypes
  <1>3. AzTrq(tgt, act) = Limit(ToInt8(raw), MaxTrq)
    BY DEF AzTrq, raw
  <1> QED
    BY <1>2, <1>3, LimitBounds

\* The int8_t of ctrl.c:181 does not wrap while the speed error is below 7080.
LEMMA AzTrqExact ==
    ASSUME NEW tgt \in Int16, NEW act \in Int16, tgt # 0, abs(tgt - act) < 7080
    PROVE  AzTrq(tgt, act) = Between(-25, CDiv(tgt - act, 60) + 10 * Sign(tgt), 25)
  <1> DEFINE quot == CDiv(tgt - act, 60)
             raw == quot + 10 * Sign(tgt)
  <1>1. quot \in Int /\ -117 <= quot /\ quot <= 117
    BY NarrowTypes DEF CDiv, abs
  <1>2. AzTrq(tgt, act) = Limit(ToInt8(raw), MaxTrq)
    BY NarrowTypes DEF AzTrq, Sign, StaticTrq
  <1> HIDE DEF quot
  <1>3. raw \in Int /\ -127 <= raw /\ raw <= 127
    BY <1>1 DEF Sign
  <1>4. ToInt8(raw) = raw
    BY <1>3 DEF ToInt8
  <1> QED
    BY <1>2, <1>3, <1>4, LimitBounds DEF quot

\* Inside the null zone the holding torque is 3 either way.
LEMMA AzHoldTrqLimited ==
    ASSUME NEW trq
    PROVE  AzHoldTrq(trq) \in Int8 /\ abs(AzHoldTrq(trq)) <= 25
  BY NarrowTypes DEF AzHoldTrq, HoldTrq, abs

\* The elevation demand is an int16_t of at most 15 degrees per second.
LEMMA ElTgtSpdRange ==
    ASSUME NEW tgt \in Int16, NEW pos \in Int16
    PROVE  ElTgtSpd(tgt, pos) \in Int16 /\ abs(ElTgtSpd(tgt, pos)) <= 2730
  <1> DEFINE dist == ToInt16(tgt - pos)
  <1>1. dist \in Int /\ -32768 <= dist /\ dist <= 32767
    BY NarrowTypes, NarrowingTyped
  <1> HIDE DEF dist
  <1> QED
    BY <1>1, NarrowTypes DEF ElTgtSpd, ConstSpeedRange, ElMinSpd, ElMaxSpd, abs, dist

\* The difference of two positions in 16 bits is the shorter way round.
LEMMA ToInt16OfDifference ==
    ASSUME NEW tgt \in Int16, NEW pos \in Int16
    PROVE  /\ ToInt16(tgt - pos) = ShortestWay(tgt, pos)
           /\ ShortestWay(tgt, pos) \in Int
           /\ -32768 <= ShortestWay(tgt, pos) /\ ShortestWay(tgt, pos) < 32768
  <1>1. tgt - pos \in Int /\ -65536 < tgt - pos /\ tgt - pos < 65536
    BY NarrowTypes
  <1>2. ASSUME NEW d \in Int, -65536 < d, d < 65536
        PROVE  ToInt16(d) = IF d >= 32768 THEN d - 65536 ELSE IF d < -32768 THEN d + 65536 ELSE d
    BY <1>2 DEF ToInt16
  <1>3. ToInt16(tgt - pos) = ShortestWay(tgt, pos)
    BY <1>1, <1>2 DEF ShortestWay
  <1>4. /\ ShortestWay(tgt, pos) \in Int
        /\ -32768 <= ShortestWay(tgt, pos) /\ ShortestWay(tgt, pos) < 32768
    BY <1>1 DEF ShortestWay
  <1> QED BY <1>3, <1>4

\* The demand is the shorter way to the target, at least 1 degree per second
\* beyond 45 counts and at most 15.
LEMMA ElTgtSpdWay ==
    ASSUME NEW tgt \in Int16, NEW pos \in Int16
    PROVE  ElTgtSpd(tgt, pos) =
               LET way == ShortestWay(tgt, pos)
               IN  Sign(way) * (IF abs(way) <= 45 THEN abs(way) ELSE Between(182, abs(way), 2730))
  <1> DEFINE way == ShortestWay(tgt, pos)
  <1>1. way \in Int /\ -32768 <= way /\ way < 32768 /\ ToInt16(tgt - pos) = way
    BY ToInt16OfDifference
  <1> HIDE DEF way
  <1>2. ElTgtSpd(tgt, pos) =
            Sign(way) * (IF abs(way) <= 45 THEN abs(way) ELSE Between(182, abs(way), 2730))
    BY <1>1 DEF ElTgtSpd, ConstSpeedRange, ElMinSpd, ElMaxSpd, abs, Sign, Between
  <1> QED
    BY <1>2 DEF way

\* The elevation torque is within the limiter's bounds and has the sign of the
\* speed error, saturated from an error of 250 on.
LEMMA ElTrqSign ==
    ASSUME NEW tgt \in Int16, NEW tested \in Int16, NEW rate \in Int16,
           abs(tgt) <= 2730,
           NEW used, used = IF abs(tested) < 150 THEN 0 ELSE rate
    PROVE  /\ ElTrq(tgt, tested, rate) \in Int8
           /\ abs(ElTrq(tgt, tested, rate)) <= 25
           /\ ElTrq(tgt, tested, rate) > 0 => tgt > used
           /\ ElTrq(tgt, tested, rate) < 0 => tgt < used
           /\ abs(tgt - used) >= 250 => abs(ElTrq(tgt, tested, rate)) = 25
  <1> DEFINE err == tgt - used
             quot == CDiv(err, 10)
  <1>1. used \in Int /\ err \in Int /\ -35500 <= err /\ err <= 35500
    BY NarrowTypes DEF abs
  <1>2. ElTrq(tgt, tested, rate) = Limit(ToInt16(quot), MaxTrq)
    BY DEF ElTrq, ElSpdDeadband
  <1>3. tgt \in Int
    BY NarrowTypes
  <1>4. err > 0 <=> tgt > used
    BY <1>1, <1>3
  <1> HIDE DEF err
  <1>5. /\ quot \in Int /\ -3550 <= quot /\ quot <= 3550
        /\ quot > 0 => err > 0
        /\ quot < 0 => err < 0
        /\ abs(err) >= 250 => quot >= 25 \/ quot <= -25
    BY <1>1 DEF CDiv, abs
  <1> HIDE DEF quot
  <1>6. ToInt16(quot) = quot
    BY <1>5 DEF ToInt16
  <1>7. /\ Limit(quot, MaxTrq) \in Int8 /\ abs(Limit(quot, MaxTrq)) <= 25
        /\ Limit(quot, MaxTrq) > 0 => quot > 0
        /\ Limit(quot, MaxTrq) < 0 => quot < 0
        /\ quot >= 25 \/ quot <= -25 => abs(Limit(quot, MaxTrq)) = 25
    BY <1>5, LimitBounds
  <1>8. err < 0 <=> tgt < used
    BY <1>1, <1>3 DEF err
  <1>9. ElTrq(tgt, tested, rate) = Limit(quot, MaxTrq)
    BY <1>2, <1>6
  <1>10. abs(tgt - used) >= 250 => quot >= 25 \/ quot <= -25
    BY <1>5 DEF err
  <1> HIDE DEF quot
  <1> QED
    BY <1>4, <1>5, <1>7, <1>8, <1>9, <1>10

\* Whatever the speeds, the elevation torque is within the limiter's bounds.
LEMMA ElTrqLimited ==
    ASSUME NEW tgt \in Int16, NEW tested \in Int16, NEW rate \in Int16
    PROVE  ElTrq(tgt, tested, rate) \in Int8 /\ abs(ElTrq(tgt, tested, rate)) <= 25
  <1> DEFINE used == IF abs(tested) < ElSpdDeadband THEN 0 ELSE rate
             quot == CDiv(tgt - used, 10)
  <1>1. tgt \in Int /\ used \in Int
    BY NarrowTypes
  <1> HIDE DEF used
  <1>2. quot \in Int
    BY <1>1, CDivTyped
  <1> HIDE DEF quot
  <1>3. ToInt16(quot) \in Int
    BY <1>2, NarrowingTyped, NarrowTypes
  <1>4. ElTrq(tgt, tested, rate) = Limit(ToInt16(quot), MaxTrq)
    BY DEF ElTrq, quot, used
  <1> QED BY <1>3, <1>4, LimitBounds
=============================================================================
