---------------------------- MODULE Timing_proofs ----------------------------
(***************************************************************************)
(* The guard of StallGuard and the speed of Encoder for all durations and  *)
(* every size of the system time, 2^32 included, and of the encoder.       *)
(*                                                                         *)
(* The stored times say how long ago the last iteration ended only up to   *)
(* whole turns of the clock; Clock says that the guard is exact up to      *)
(* these, and CommAge that a test which succeeded still vouches for the    *)
(* control thread until the next test.  Measured says the same of the time *)
(* and of the position since the last reading of the encoder, whose sample *)
(* and whose two reads of the clock are apart by less than a burst.        *)
(***************************************************************************)
EXTENDS Encoder, TLAPS

\* The remainder of a number in 0 .. n - 1 shifted by a turn.
LEMMA ModFacts ==
    ASSUME NEW n \in Nat \ {0}, NEW x \in 0 .. n - 1
    PROVE  x % n = x /\ n % n = 0 /\ (x - n) % n = x
  OBVIOUS

\* The product of a smaller number is smaller.
LEMMA MulMonotone ==
    ASSUME NEW a \in Int, NEW b \in Int, NEW n \in Nat, a <= b
    PROVE  a * n <= b * n
  OBVIOUS

\* The quotient of a division that rounds down, and its remainder.
LEMMA Division ==
    ASSUME NEW x \in Int, NEW n \in Nat \ {0}
    PROVE  /\ x \div n \in Int
           /\ n * (x \div n) <= x /\ x < n * ((x \div n) + 1)
           /\ x % n = x - n * (x \div n)
  OBVIOUS

\* The remainder is below the divisor.
LEMMA Remainder ==
    ASSUME NEW x \in Int, NEW n \in Nat \ {0}
    PROVE  x % n \in 0 .. n - 1
  OBVIOUS

\* There is one multiple of n in a range of n numbers.
LEMMA OneMultiple ==
    ASSUME NEW n \in Nat \ {0}, NEW p \in Int, NEW q \in Int,
           n * p < n * (q + 1), n * q < n * (p + 1)
    PROVE  p = q
  <1>1. ASSUME p >= q + 1 PROVE FALSE
    <2>1. (q + 1) * n <= p * n
      BY <1>1, MulMonotone
    <2> QED BY <2>1
  <1>2. ASSUME q >= p + 1 PROVE FALSE
    <2>1. (p + 1) * n <= q * n
      BY <1>2, MulMonotone
    <2> QED BY <2>1
  <1> QED BY <1>1, <1>2

\* Whole turns do not change a remainder.
LEMMA ModTurns ==
    ASSUME NEW n \in Nat \ {0}, NEW x \in 0 .. n - 1, NEW m \in Int
    PROVE  (x + n * m) % n = x
  <1> DEFINE y == x + n * m
             q == y \div n
  <1>1. y \in Int /\ n * m \in Int
    OBVIOUS
  <1>2. q \in Int /\ n * q <= y /\ y < n * (q + 1) /\ y % n = y - n * q
    BY <1>1, Division
  <1>3. n * (m + 1) = n * m + n /\ n * (q + 1) = n * q + n
    BY <1>2
  <1>4. n * m <= y /\ y < n * (m + 1)
    BY <1>1, <1>3
  <1> HIDE DEF q
  <1>5. n * m < n * (q + 1) /\ n * q < n * (m + 1)
    <2>1. n * m \in Int /\ n * q \in Int /\ n * (m + 1) \in Int /\ n * (q + 1) \in Int
      BY <1>2
    <2> HIDE DEF y
    <2> QED BY <1>1, <1>2, <1>4, <2>1
  <1>6. m = q
    BY <1>2, <1>5, OneMultiple
  <1> QED BY <1>1, <1>2, <1>6

\* Turns in the middle of a sum do not change its remainder,
LEMMA ModSum ==
    ASSUME NEW n \in Nat \ {0}, NEW x \in Int, NEW d \in Int
    PROVE  ((x % n) + d) % n = (x + d) % n
  <1> DEFINE q == x \div n
             p == (x + d) \div n
             z == (x + d) % n
  <1>1. q \in Int /\ x % n = x - n * q
    BY Division
  <1>2. x + d \in Int
    OBVIOUS
  <1>3. p \in Int /\ z = (x + d) - n * p /\ z \in 0 .. n - 1
    BY <1>2, Division, Remainder
  <1> HIDE DEF q, p, z
  <1>4. n * (p - q) = n * p - n * q /\ n * p \in Int /\ n * q \in Int /\ p - q \in Int
    BY <1>1, <1>3
  <1>5. (x % n) + d = z + n * (p - q)
    BY <1>1, <1>3, <1>4
  <1>6. (z + n * (p - q)) % n = z
    BY <1>3, <1>4, ModTurns
  <1> QED BY <1>5, <1>6 DEF z

\* and one more adds one or begins the next turn.
LEMMA ModNext ==
    ASSUME NEW n \in Nat \ {0}, NEW x \in Int
    PROVE  (x + 1) % n = (x % n) + 1 \/ (x + 1) % n = 0
  <1> DEFINE r == x % n
  <1>1. r \in 0 .. n - 1 /\ (r + 1) % n = (x + 1) % n
    <2>1. r \in 0 .. n - 1
      BY Remainder
    <2>2. ((x % n) + 1) % n = (x + 1) % n
      <3>1. 1 \in Int
        OBVIOUS
      <3> QED BY <3>1, ModSum, Zenon
    <2> QED BY <2>1, <2>2
  <1> HIDE DEF r
  <1>2. CASE r + 1 \in 0 .. n - 1
    BY <1>1, <1>2, ModFacts DEF r
  <1>3. CASE r + 1 = n
    <2>1. 0 \in 0 .. n - 1
      BY <1>1
    <2> QED BY <1>1, <1>3, <2>1, ModFacts
  <1> QED BY <1>1, <1>2, <1>3

\* Less than LimitMs milliseconds, rounded up, in ticks.
LEMMA MsFacts ==
    ASSUME NEW t \in Nat
    PROVE  TIME_I2MS(t) < LimitMs <=> t <= (LimitMs - 1) * TicksPerMs
  <1> DEFINE k == TIME_I2MS(t)
  <1>1. /\ TicksPerMs \in Nat \ {0} /\ LimitMs \in Nat \ {0}
    BY StallGuardAssumption
  <1>2. k \in Int /\ k * TicksPerMs <= t + TicksPerMs - 1 /\ t + TicksPerMs - 1 < (k + 1) * TicksPerMs
    BY <1>1 DEF TIME_I2MS
  <1> HIDE DEF k
  <1>3. ASSUME k < LimitMs PROVE t <= (LimitMs - 1) * TicksPerMs
    <2>1. k * TicksPerMs <= (LimitMs - 1) * TicksPerMs
      BY <1>1, <1>2, <1>3, MulMonotone
    <2>2. (k + 1) * TicksPerMs = k * TicksPerMs + TicksPerMs
      BY <1>1, <1>2
    <2> QED BY <1>1, <1>2, <2>1, <2>2
  <1>4. ASSUME ~(k < LimitMs) PROVE ~(t <= (LimitMs - 1) * TicksPerMs)
    <2>1. LimitMs * TicksPerMs <= k * TicksPerMs
      BY <1>1, <1>2, <1>4, MulMonotone
    <2>2. LimitMs * TicksPerMs = (LimitMs - 1) * TicksPerMs + TicksPerMs
      BY <1>1
    <2> QED BY <1>1, <1>2, <2>1, <2>2
  <1> QED BY <1>3, <1>4 DEF k

-----------------------------------------------------------------------------

MaxRunning == (LimitMs - 1) * TicksPerMs

Clock ==
    /\ now \in 0 .. TimeMod - 1 /\ last_loop_update \in 0 .. TimeMod - 1
    /\ age \in Nat /\ cwait \in Nat /\ mwait \in 0 .. MdeSleep + BurstTime
    /\ now = (last_loop_update + age) % TimeMod
    /\ ctrl = "sleep" => age + cwait <= CtrlSleep

CommAge == comm => (age % TimeMod) + mwait <= MaxRunning + MdeSleep + BurstTime

\* The durations are positive.
LEMMA Durations ==
    /\ TimeMod \in Nat \ {0} /\ TicksPerMs \in Nat \ {0} /\ LimitMs \in Nat \ {0}
    /\ CtrlSleep \in Nat \ {0} /\ CalSleep \in Nat \ {0} /\ MdeSleep \in Nat \ {0}
    /\ BurstTime \in Nat /\ MaxRunning \in Nat
    /\ CtrlSleep <= MaxRunning /\ CtrlSleep < TimeMod
  <1>1. /\ TimeMod \in Nat \ {0} /\ TicksPerMs \in Nat \ {0} /\ LimitMs \in Nat \ {0}
        /\ CtrlSleep \in Nat \ {0} /\ CalSleep \in Nat \ {0} /\ MdeSleep \in Nat \ {0}
        /\ BurstTime \in Nat
    BY StallGuardAssumption
  <1>2. MaxRunning \in Int /\ CtrlSleep <= MaxRunning /\ MaxRunning < CalSleep
    BY <1>1, StallGuardAssumption DEF MaxRunning
  <1> QED BY <1>1, <1>2, StallGuardAssumption

\* The age up to whole turns.
LEMMA AgeOfTurn == Clock => age % TimeMod \in Nat
  <1>1. Clock => age \in Int /\ TimeMod \in Nat \ {0}
    BY Durations DEF Clock
  <1>2. Clock => age % TimeMod \in 0 .. TimeMod - 1
    BY <1>1, Remainder
  <1> QED BY <1>1, <1>2

\* Up to whole turns of the clock the guard is exact.
LEMMA GuardExact ==
    ASSUME Clock
    PROVE  ctrl_is_running <=> age % TimeMod <= MaxRunning
  <1>1. TimeMod \in Nat \ {0} /\ last_loop_update + age \in Int /\ -last_loop_update \in Int
        /\ age \in Int
    BY Durations DEF Clock
  <1>2. (((last_loop_update + age) % TimeMod) + (-last_loop_update)) % TimeMod
        = ((last_loop_update + age) + (-last_loop_update)) % TimeMod
    BY <1>1, ModSum
  <1>3. (last_loop_update + age) + (-last_loop_update) = age
    BY <1>1 DEF Clock
  <1>4. now - last_loop_update = ((last_loop_update + age) % TimeMod) + (-last_loop_update)
    BY <1>1 DEF Clock
  <1>5. (now - last_loop_update) % TimeMod = age % TimeMod
    BY <1>2, <1>3, <1>4
  <1>6. age % TimeMod \in Nat
    BY AgeOfTurn
  <1> QED BY <1>5, <1>6, MsFacts DEF ctrl_is_running, MaxRunning

\* The initial state.
LEMMA ClockInit == Init => Clock /\ CommAge
  <1>1. 0 % TimeMod = 0 /\ 0 + 0 = 0 /\ 0 \in 0 .. TimeMod - 1
    BY Durations, ModFacts
  <1> QED BY <1>1, Durations DEF Init, Clock, CommAge

\* Every step keeps Clock.
LEMMA ClockNext == Clock /\ [Next]_vars => Clock'
  <1> SUFFICES ASSUME Clock, [Next]_vars PROVE Clock'
    OBVIOUS
  <1> USE Durations
  <1>1. CASE IterationEnds
    <2>1. now + 0 = now /\ now % TimeMod = now
      BY ModFacts DEF Clock
    <2> QED BY <1>1, <2>1 DEF IterationEnds, Clock
  <1>2. CASE CtrlCalibrate
    BY <1>2 DEF CtrlCalibrate, Clock
  <1>3. CASE CtrlStall
    BY <1>3 DEF CtrlStall, Clock
  <1>4. CASE MdeTest
    BY <1>4 DEF MdeTest, Clock
  <1>5. CASE Tick
    <2>1. now' = (now + 1) % TimeMod /\ age' = age + 1
      BY <1>5 DEF Tick
    <2>2. now' = (last_loop_update + age') % TimeMod
      <3>1. last_loop_update + age \in Int /\ (last_loop_update + age) + 1 = last_loop_update + age'
        BY <2>1 DEF Clock
      <3>2. (((last_loop_update + age) % TimeMod) + 1) % TimeMod
            = ((last_loop_update + age) + 1) % TimeMod
        BY <3>1, ModSum
      <3> QED BY <2>1, <3>1, <3>2 DEF Clock
    <2>3. now' \in 0 .. TimeMod - 1
      BY <2>1, Remainder DEF Clock
    <2>4. ctrl' = "sleep" => age' + cwait' <= CtrlSleep
      BY <1>5 DEF Tick, Clock
    <2> QED BY <1>5, <2>1, <2>2, <2>3, <2>4 DEF Tick, Clock
  <1>6. CASE UNCHANGED vars
    BY <1>6 DEF vars, Clock
  <1> QED BY <1>1, <1>2, <1>3, <1>4, <1>5, <1>6
          DEF Next, CtrlIteration, CtrlCalibrated, CtrlRecover

\* How long a test that succeeded vouches for the control thread.
LEMMA Vouched ==
    ASSUME NEW a \in Nat, a <= MaxRunning, NEW w \in MdeSleep .. MdeSleep + BurstTime
    PROVE  a + w <= MaxRunning + MdeSleep + BurstTime
  <1>1. MaxRunning \in Int /\ MdeSleep \in Int /\ BurstTime \in Int
    BY Durations
  <1> QED BY <1>1

\* Every step keeps CommAge.
LEMMA CommAgeNext == Clock /\ CommAge /\ [Next]_vars => CommAge'
  <1> SUFFICES ASSUME Clock, CommAge, [Next]_vars PROVE CommAge'
    OBVIOUS
  <1> USE Durations
  <1>1. CASE IterationEnds
    <2>1. age' = 0 /\ mwait' = mwait
      BY <1>1 DEF IterationEnds
    <2>2. 0 % TimeMod = 0
      BY ModFacts
    <2> QED BY <2>1, <2>2 DEF Clock, CommAge
  <1>2. CASE MdeTest
    <2>1. ctrl_is_running <=> age % TimeMod <= MaxRunning
      BY GuardExact
    <2>2. age' = age /\ (comm' => ctrl_is_running)
      BY <1>2 DEF MdeTest
    <2>3. mwait' \in MdeSleep .. MdeSleep + BurstTime /\ age % TimeMod \in Nat
      <3>1. mwait' \in MdeSleep .. MdeSleep + BurstTime
        BY <1>2 DEF MdeTest
      <3> QED BY <3>1, AgeOfTurn
    <2>4. ASSUME comm' PROVE age % TimeMod <= MaxRunning
      BY <2>1, <2>2, <2>4
    <2>5. ASSUME age % TimeMod <= MaxRunning
          PROVE  (age % TimeMod) + mwait' <= MaxRunning + MdeSleep + BurstTime
      BY <2>3, <2>5, Vouched
    <2> QED BY <2>2, <2>4, <2>5 DEF CommAge
  <1>3. CASE Tick
    <2>1. comm' = comm /\ age' = age + 1 /\ mwait' = mwait - 1 /\ mwait \in 1 .. MdeSleep + BurstTime
      BY <1>3 DEF Tick, Clock
    <2>2. (age + 1) % TimeMod = (age % TimeMod) + 1 \/ (age + 1) % TimeMod = 0
      <3>1. age \in Int /\ TimeMod \in Nat \ {0}
        BY DEF Clock
      <3> QED BY <3>1, ModNext, Zenon
    <2>3. age % TimeMod \in Nat
      BY AgeOfTurn
    <2> QED BY <2>1, <2>2, <2>3 DEF CommAge
  <1>4. CASE CtrlCalibrate \/ CtrlStall \/ UNCHANGED vars
    <2>1. comm' = comm /\ age' = age /\ mwait' = mwait
      BY <1>4 DEF CtrlCalibrate, CtrlStall, vars
    <2> QED BY <2>1 DEF CommAge
  <1> QED BY <1>1, <1>2, <1>3, <1>4
          DEF Next, CtrlIteration, CtrlCalibrated, CtrlRecover

\* For every size of the clock: ctrl_is_running (ctrl.c:269-272) never keeps a
\* control thread that does its iterations from reaching the drive.
THEOREM IterationsKeep == Spec => []IterationsKeepComm
  <1>1. Clock => IterationsKeepComm
    <2> SUFFICES ASSUME Clock, ctrl = "sleep" PROVE ctrl_is_running
      BY DEF IterationsKeepComm
    <2>1. age <= CtrlSleep
      BY Durations DEF Clock
    <2>2. age % TimeMod = age
      BY <2>1, Durations, ModFacts DEF Clock
    <2> QED BY <2>1, <2>2, Durations, GuardExact DEF Clock
  <1> QED BY <1>1, ClockInit, ClockNext, PTL DEF Spec

\* For every size of the clock and however long a stall lasts: up to whole turns
\* of the clock, the drive is talked to (mde.c:128) only within the limit after
\* an iteration of the control thread.
THEOREM StallStops == Spec => []StallStopsComm
  <1>1. Clock /\ CommAge => StallStopsComm
    <2> SUFFICES ASSUME Clock, CommAge, comm
                 PROVE  age % TimeMod <= (LimitMs - 1) * TicksPerMs + MdeSleep + BurstTime
      BY DEF StallStopsComm
    <2>1. age % TimeMod \in Nat /\ mwait \in Nat
      BY AgeOfTurn, Durations DEF Clock
    <2>2. age % TimeMod <= MaxRunning + MdeSleep + BurstTime
      BY <2>1, Durations DEF CommAge
    <2> QED BY <2>2 DEF MaxRunning
  <1> QED BY <1>1, ClockInit, ClockNext, CommAgeNext, PTL DEF Spec

-----------------------------------------------------------------------------
(* The speed.  All positions and times are known up to whole turns.        *)

\* p is the position of an antenna that showed the count x some n ticks ago.
After(r, p, x, n) ==
    \E f \in 0 .. Freq - 1, m \in Int : p = x * Freq + f + r * n + m * (Turn * Freq)

\* What is stored fits the last sample and the last stamp.
Measured ==
    /\ rate \in Rates /\ pos \in 0 .. Turn * Freq - 1 /\ enc_az \in Int /\ old_x \in Int
    /\ old_t \in 0 .. TimeMod - 1 /\ since \in Nat
    /\ step # "rest" => mwait >= MdeSleep
    /\ readings # 0 /\ step # "stamp" =>
          /\ since < TimeMod => now = old_t + since \/ now = old_t + since - TimeMod
          /\ \E lost \in 0 .. BurstTime : After(rate, pos, old_x, since + lost)
    /\ step \in {"speed", "stamp"} =>
          \E late \in Nat : /\ late + mwait <= MdeSleep + BurstTime
                           /\ After(rate, pos, enc_az, late)
    /\ step = "stamp" => old_x = enc_az

\* The encoder's range is even.
LEMMA Encoders ==
    /\ Turn \in Nat \ {0} /\ Freq \in Nat \ {0} /\ Rates \subseteq Int
    /\ Turn \div 2 \in Nat /\ Turn = 2 * (Turn \div 2)
    /\ Turn * Freq \in Nat \ {0}
  <1>1. Turn \in Nat \ {0} /\ Freq \in Nat \ {0} /\ Turn % 2 = 0 /\ Rates \subseteq Int
    BY EncoderAssumption
  <1>2. Turn \div 2 \in Nat /\ Turn = 2 * (Turn \div 2)
    BY <1>1
  <1>3. Turn * Freq \in Nat \ {0}
    <2>1. 1 * Freq <= Turn * Freq
      BY <1>1, MulMonotone
    <2> QED BY <1>1, <2>1
  <1> QED BY <1>1, <1>2, <1>3

\* Narrowing takes away whole turns,
LEMMA SignedTurns ==
    ASSUME NEW x \in Int
    PROVE  \E m \in Int : Signed(x) = x + Turn * m
  <1> DEFINE h == Turn \div 2
             q == (x + h) \div Turn
  <1>1. h \in Nat /\ x + h \in Int /\ Turn \in Nat \ {0}
    BY Encoders
  <1>2. q \in Int /\ (x + h) % Turn = (x + h) - Turn * q
    BY <1>1, Division
  <1>3. Signed(x) = ((x + h) % Turn) - h
    BY DEF Signed
  <1> HIDE DEF h, q
  <1>4. -q \in Int /\ Turn * (-q) = -(Turn * q) /\ Turn * q \in Int
    BY <1>1, <1>2
  <1>5. Signed(x) = x + Turn * (-q)
    BY <1>1, <1>2, <1>3, <1>4
  <1> QED BY <1>4, <1>5

\* and nothing else from a number that is in the range without them.
LEMMA SignedFits ==
    ASSUME NEW y \in Int, NEW m \in Int, -Turn < 2 * y, 2 * y < Turn
    PROVE  Signed(y + Turn * m) = y
  <1> DEFINE h == Turn \div 2
  <1>1. h \in Nat /\ Turn = 2 * h /\ Turn \in Nat \ {0} /\ Turn * m \in Int
    BY Encoders
  <1>2. Signed(y + Turn * m) = (((y + Turn * m) + h) % Turn) - h
    BY DEF Signed
  <1> HIDE DEF h
  <1>3. y + h \in 0 .. Turn - 1
    BY <1>1
  <1>4. ((y + h) + Turn * m) % Turn = y + h
    BY <1>1, <1>3, ModTurns
  <1>5. (y + Turn * m) + h = (y + h) + Turn * m
    BY <1>1
  <1> QED BY <1>1, <1>2, <1>4, <1>5

\* The difference of two positions is the way the antenna has gone, if that is
\* less than half a turn.
LEMMA WayMeasured ==
    ASSUME NEW a \in Int, NEW b \in Int, NEW way \in Int, NEW m \in Int,
           a = b + way + m * Turn, -Turn < 2 * way, 2 * way < Turn
    PROVE  Signed(Signed(a) - Signed(b)) = way
  <1>1. PICK i \in Int : Signed(a) = a + Turn * i
    BY SignedTurns
  <1>2. PICK j \in Int : Signed(b) = b + Turn * j
    BY SignedTurns
  <1>3. Turn * (m + i - j) = Turn * m + Turn * i - Turn * j
    BY Encoders
  <1>4. Signed(a) - Signed(b) = way + Turn * (m + i - j)
    <2>1. Turn * m \in Int /\ Turn * i \in Int /\ Turn * j \in Int /\ m * Turn = Turn * m
      BY Encoders
    <2> QED BY <1>1, <1>2, <1>3, <2>1
  <1>5. m + i - j \in Int
    OBVIOUS
  <1> QED BY <1>4, <1>5, SignedFits

\* A sample shows the count of the position.
LEMMA SampleAfter ==
    ASSUME NEW r \in Int, NEW p \in Int
    PROVE  p \div Freq \in Int /\ After(r, p, p \div Freq, 0)
  <1> DEFINE x == p \div Freq
             f == p - Freq * x
  <1>1. Freq \in Nat \ {0} /\ Turn * Freq \in Int
    BY Encoders
  <1>2. x \in Int /\ Freq * x <= p /\ p < Freq * (x + 1)
    BY <1>1, Division
  <1> HIDE DEF x
  <1>3. Freq * (x + 1) = Freq * x + Freq /\ Freq * x \in Int /\ x * Freq = Freq * x
    BY <1>1, <1>2
  <1>4. f \in 0 .. Freq - 1
    BY <1>1, <1>2, <1>3
  <1>5. r * 0 = 0 /\ 0 * (Turn * Freq) = 0 /\ 0 \in Int
    BY <1>1
  <1>6. p = x * Freq + f + r * 0 + 0 * (Turn * Freq)
    BY <1>1, <1>2, <1>3, <1>5
  <1> HIDE DEF f
  <1>7. After(r, p, x, 0)
    BY <1>4, <1>5, <1>6 DEF After
  <1> QED BY <1>2, <1>7 DEF x

\* A tick later.
LEMMA TickAfter ==
    ASSUME NEW r \in Int, NEW p \in Int, NEW x \in Int, NEW n \in Nat, After(r, p, x, n)
    PROVE  After(r, (p + r) % (Turn * Freq), x, n + 1)
  <1> DEFINE full == Turn * Freq
  <1>1. full \in Nat \ {0} /\ Freq \in Nat \ {0}
    BY Encoders
  <1>2. PICK f \in 0 .. Freq - 1, m \in Int : p = x * Freq + f + r * n + m * full
    BY DEF After
  <1> HIDE DEF full
  <1>3. p + r \in Int
    OBVIOUS
  <1>4. PICK q \in Int : (p + r) % full = (p + r) - full * q
    BY <1>1, <1>3, Division
  <1>5. /\ r * (n + 1) = r * n + r /\ r * n \in Int /\ x * Freq \in Int
        /\ (m - q) * full = m * full - full * q /\ m * full \in Int /\ full * q \in Int
        /\ m - q \in Int /\ f \in Int
    BY <1>1
  <1>6. (p + r) % full = x * Freq + f + r * (n + 1) + (m - q) * full
    BY <1>2, <1>4, <1>5
  <1> QED BY <1>5, <1>6 DEF After, full

\* Two counts of the same position: their difference, up to whole turns, is the
\* way between the samples within one count.
LEMMA TwoSamples ==
    ASSUME NEW r \in Int, NEW p \in Int, NEW x \in Int, NEW y \in Int,
           NEW i \in Int, NEW j \in Int, After(r, p, x, i), After(r, p, y, j)
    PROVE  \E w \in Int, k \in Int :
               /\ x = y + w + k * Turn
               /\ w * Freq - r * (j - i) < Freq /\ r * (j - i) - w * Freq < Freq
  <1> DEFINE full == Turn * Freq
  <1>1. PICK f \in 0 .. Freq - 1, m \in Int : p = x * Freq + f + r * i + m * full
    BY DEF After
  <1>2. PICK g \in 0 .. Freq - 1, n \in Int : p = y * Freq + g + r * j + n * full
    BY DEF After
  <1> DEFINE k == n - m
             w == x - y - k * Turn
  <1>3. Freq \in Nat \ {0} /\ Turn \in Nat \ {0} /\ f \in Int /\ g \in Int /\ full \in Int
    BY Encoders
  <1>4. k \in Int /\ w \in Int /\ x = y + w + k * Turn
    BY <1>3
  <1>5. w * Freq = x * Freq - y * Freq - (k * Turn) * Freq
    BY <1>3, <1>4
  <1>6. (k * Turn) * Freq = n * full - m * full
    BY <1>3, <1>4
  <1>7. r * (j - i) = r * j - r * i
    OBVIOUS
  <1>8. /\ x * Freq \in Int /\ y * Freq \in Int /\ n * full \in Int /\ m * full \in Int
        /\ r * i \in Int /\ r * j \in Int /\ w * Freq \in Int /\ (k * Turn) * Freq \in Int
    BY <1>3, <1>4
  <1> HIDE DEF k, w, full
  <1>9. w * Freq - r * (j - i) = g - f
    BY <1>1, <1>2, <1>3, <1>5, <1>6, <1>7, <1>8
  <1>10. w * Freq - r * (j - i) < Freq /\ r * (j - i) - w * Freq < Freq
    BY <1>3, <1>7, <1>8, <1>9
  <1> QED BY <1>4, <1>10

\* Truncation towards zero loses less than the divisor.
LEMMA CDivFacts ==
    ASSUME NEW a \in Int, NEW t \in Nat \ {0}
    PROVE  /\ CDiv(a, t) \in Int
           /\ CDiv(a, t) * t - a < t /\ a - CDiv(a, t) * t < t
           /\ a >= 0 => 0 <= CDiv(a, t) * t /\ CDiv(a, t) * t <= a
           /\ a <= 0 => a <= CDiv(a, t) * t /\ CDiv(a, t) * t <= 0
  <1>1. ASSUME NEW b \in Nat
        PROVE  /\ b \div t \in Int /\ (b \div t) * t <= b /\ b - (b \div t) * t < t
               /\ 0 <= (b \div t) * t
    <2> DEFINE q == b \div t
    <2>1. q \in Nat /\ t * q <= b /\ b < t * (q + 1)
      <3>1. q \in Int /\ t * q <= b /\ b < t * (q + 1)
        BY Division
      <3>2. b \div t \in Nat
        OBVIOUS
      <3> QED BY <3>1, <3>2
    <2> HIDE DEF q
    <2>2. t * (q + 1) = t * q + t /\ q * t = t * q /\ t * q \in Nat
      BY <2>1
    <2>3. q \in Int /\ q * t <= b /\ b - q * t < t /\ 0 <= q * t
      BY <2>1, <2>2
    <2> QED BY <2>3 DEF q
  <1>2. CASE a < 0
    <2> DEFINE q == (-a) \div t
    <2>1. -a \in Nat
      BY <1>2
    <2>2. q \in Int /\ q * t <= -a /\ -a - q * t < t /\ 0 <= q * t
      BY <1>1, <2>1
    <2>3. CDiv(a, t) = -q
      BY <1>2 DEF CDiv
    <2> HIDE DEF q
    <2>4. (-q) * t = -(q * t) /\ q * t \in Int
      BY <2>2
    <2> QED BY <1>2, <2>2, <2>3, <2>4
  <1>3. CASE ~(a < 0)
    <2> DEFINE q == a \div t
    <2>1. a \in Nat
      BY <1>3
    <2>2. q \in Int /\ q * t <= a /\ a - q * t < t /\ 0 <= q * t
      BY <1>1, <2>1
    <2>3. CDiv(a, t) = q
      BY <1>3 DEF CDiv
    <2> HIDE DEF q
    <2>4. q * t \in Int
      BY <2>2
    <2> QED BY <1>3, <2>2, <2>3, <2>4
  <1> QED BY <1>2, <1>3

\* The size of a product.
LEMMA AbsProduct ==
    ASSUME NEW a \in Int, NEW n \in Nat
    PROVE  abs(a) \in Nat /\ abs(a) * n \in Nat /\ abs(a) * n = abs(a * n)
  <1>1. abs(a) \in Nat
    BY DEF abs
  <1>2. CASE a < 0
    <2>1. abs(a) = -a /\ (-a) * n = -(a * n)
      BY <1>2 DEF abs
    <2>2. a * n <= 0 * n
      BY <1>2, MulMonotone
    <2>3. a * n \in Int /\ a * n <= 0
      BY <2>2
    <2>4. abs(a * n) = -(a * n)
      BY <2>3 DEF abs
    <2> QED BY <1>1, <2>1, <2>3, <2>4
  <1>3. CASE ~(a < 0)
    <2>1. 0 * n <= a * n
      BY <1>3, MulMonotone
    <2>2. a * n \in Int /\ 0 <= a * n
      BY <2>1
    <2>3. abs(a * n) = a * n /\ abs(a) = a
      BY <1>3, <2>2 DEF abs
    <2> QED BY <1>1, <2>2, <2>3
  <1> QED BY <1>2, <1>3

\* The way at a rate in at most n ticks.
LEMMA WayBound ==
    ASSUME NEW r \in Int, NEW d \in Int, NEW n \in Nat, -n <= d, d <= n
    PROVE  /\ abs(r) * n \in Nat
           /\ r * d <= abs(r) * n /\ -(abs(r) * n) <= r * d
  <1>1. abs(r) \in Nat /\ abs(r) * n \in Nat
    BY AbsProduct
  <1> DEFINE u == abs(r)
  <1>2. d * u <= n * u /\ (-n) * u <= d * u /\ d * u \in Int
    BY <1>1, MulMonotone
  <1>3. (-n) * u = -(n * u) /\ n * u = u * n
    BY <1>1
  <1>4. r * d = d * u \/ r * d = -(d * u)
    BY DEF abs
  <1> HIDE DEF u
  <1>5. u * n \in Int
    BY <1>1 DEF u
  <1>6. r * d <= u * n /\ -(u * n) <= r * d
    BY <1>2, <1>3, <1>4, <1>5
  <1> QED BY <1>1, <1>6 DEF u

\* The speed from a way w and a time t, if the way fits into t ticks at the rate
\* up to a burst and a count.
LEMMA SpeedMeasured ==
    ASSUME NEW r \in Int, NEW w \in Int, NEW t \in Nat \ {0}, NEW s \in Int,
           Dt = t, Dx = w, NEW speed \in Speeds,
           w * Freq - r * s < Freq, r * s - w * Freq < Freq,
           s - t <= BurstTime, t - s <= BurstTime,
           2 * (abs(r) * (t + BurstTime) + Freq) <= Turn * t
    PROVE  abs(speed - r) * t < Freq + t + abs(r) * BurstTime
  <1> DEFINE a == w * Freq
             q == CDiv(a, t)
             below == IF q > 0 THEN q - 1 ELSE q + 1
  <1>1. /\ Freq \in Nat \ {0} /\ Turn \in Nat \ {0} /\ BurstTime \in Nat /\ a \in Int
        /\ Turn \div 2 \in Nat /\ Turn = 2 * (Turn \div 2)
    BY Encoders, Durations
  <1>2. /\ abs(r) * (t + BurstTime) \in Nat
        /\ r * s <= abs(r) * (t + BurstTime) /\ -(abs(r) * (t + BurstTime)) <= r * s
    <2>1. t + BurstTime \in Nat /\ -(t + BurstTime) <= s /\ s <= t + BurstTime
      BY <1>1
    <2> QED BY <2>1, WayBound
  <1>3. /\ abs(r) * BurstTime \in Nat /\ r * (s - t) \in Int
        /\ r * (s - t) <= abs(r) * BurstTime /\ -(abs(r) * BurstTime) <= r * (s - t)
    <2> DEFINE d == s - t
    <2>1. d \in Int /\ -BurstTime <= d /\ d <= BurstTime
      BY <1>1
    <2> HIDE DEF d
    <2>2. /\ abs(r) * BurstTime \in Nat
          /\ r * d <= abs(r) * BurstTime /\ -(abs(r) * BurstTime) <= r * d
      BY <1>1, <2>1, WayBound
    <2>3. r * d \in Int
      BY <2>1
    <2> QED BY <2>2, <2>3 DEF d
  <1>4. /\ q \in Int /\ q * t - a < t /\ a - q * t < t
        /\ a >= 0 => 0 <= q * t /\ q * t <= a
        /\ a <= 0 => a <= q * t /\ q * t <= 0
    BY <1>1, CDivFacts
  <1>5. Dt # 0 /\ CDiv(Dx * Freq, Dt) = q /\ Dx * Freq = a /\ Dt = t
    OBVIOUS
  <1>6. speed \in IF q \notin Int16s THEN Int16s
                  ELSE {q} \cup {x \in {below} : Dx # 0 /\ q * t = a}
    BY <1>5 DEF Speeds
  <1>7. q * t \in Int /\ r * s \in Int /\ Turn * t \in Int /\ (Turn \div 2) * t \in Int
        /\ Turn * t = 2 * ((Turn \div 2) * t)
    BY <1>1, <1>4
  <1> HIDE DEF a, q
  <1>8. q * t < (Turn \div 2) * t /\ -((Turn \div 2) * t) < q * t
    BY <1>1, <1>2, <1>4, <1>7 DEF a
  <1>9. q \in Int16s
    <2>1. ASSUME q >= Turn \div 2 PROVE FALSE
      <3>1. (Turn \div 2) * t <= q * t
        BY <1>1, <1>4, <2>1, MulMonotone
      <3> QED BY <1>7, <1>8, <3>1
    <2>2. ASSUME q <= -(Turn \div 2) PROVE FALSE
      <3>1. q * t <= (-(Turn \div 2)) * t
        BY <1>1, <1>4, <2>2, MulMonotone
      <3>2. (-(Turn \div 2)) * t = -((Turn \div 2) * t)
        BY <1>1
      <3> QED BY <1>7, <1>8, <3>1, <3>2
    <2> QED BY <1>1, <1>4, <2>1, <2>2 DEF Int16s
  <1>10. speed = q \/ (q * t = a /\ speed = below)
    BY <1>6, <1>9
  <1>11. speed \in Int /\ speed * t - a <= t /\ a - speed * t <= t
    <2>1. CASE speed = q
      BY <1>1, <1>4, <1>7, <2>1
    <2>2. CASE q * t = a /\ speed = below
      <3>1. (q - 1) * t = q * t - t /\ (q + 1) * t = q * t + t
        BY <1>4
      <3> QED BY <1>1, <1>4, <1>7, <2>2, <3>1
    <2> QED BY <1>10, <2>1, <2>2
  <1>12. r * (s - t) = r * s - r * t /\ (speed - r) * t = speed * t - r * t
         /\ r * t \in Int /\ speed * t \in Int
    BY <1>11
  <1>13. /\ (speed - r) * t < Freq + t + abs(r) * BurstTime
         /\ -((speed - r) * t) < Freq + t + abs(r) * BurstTime
    <2>1. a - r * s < Freq /\ r * s - a < Freq
      BY DEF a
    <2> DEFINE v == abs(r) * BurstTime
    <2>2. v \in Nat /\ r * (s - t) <= v /\ -v <= r * (s - t)
      BY <1>3
    <2> HIDE DEF v
    <2>3. /\ (speed - r) * t < Freq + t + v
          /\ -((speed - r) * t) < Freq + t + v
      BY <1>1, <1>7, <1>11, <1>12, <2>1, <2>2
    <2> QED BY <2>3 DEF v
  <1>14. abs(speed - r) * t = abs((speed - r) * t) /\ (speed - r) * t \in Int
    BY <1>11, AbsProduct
  <1>15. \A z \in Int : abs(z) = z \/ abs(z) = -z
    BY DEF abs
  <1> QED BY <1>13, <1>14, <1>15

\* The way between two samples is less than half a turn.
LEMMA HalfTurn ==
    ASSUME NEW r \in Int, NEW w \in Int, NEW t \in Nat, NEW s \in Int,
           w * Freq - r * s < Freq, r * s - w * Freq < Freq,
           s - t <= BurstTime, t - s <= BurstTime,
           2 * (abs(r) * (t + BurstTime) + Freq) <= Turn * Freq
    PROVE  -Turn < 2 * w /\ 2 * w < Turn
  <1>1. Freq \in Nat \ {0} /\ Turn \in Nat \ {0} /\ BurstTime \in Nat
    BY Encoders, Durations
  <1>2. t + BurstTime \in Nat /\ -(t + BurstTime) <= s /\ s <= t + BurstTime
    BY <1>1
  <1> DEFINE v == abs(r) * (t + BurstTime)
  <1>3. v \in Nat /\ r * s <= v /\ -v <= r * s
    BY <1>2, WayBound
  <1>4. w * Freq \in Int /\ r * s \in Int /\ Turn * Freq \in Int
    BY <1>1
  <1>5. 2 * (v + Freq) <= Turn * Freq
    OBVIOUS
  <1> HIDE DEF v
  <1>6. 2 * (w * Freq) < Turn * Freq /\ -(Turn * Freq) < 2 * (w * Freq)
    BY <1>1, <1>3, <1>4, <1>5
  <1>7. (2 * w) * Freq = 2 * (w * Freq) /\ (-Turn) * Freq = -(Turn * Freq)
    BY <1>1
  <1>8. ASSUME 2 * w >= Turn PROVE FALSE
    <2>1. Turn * Freq <= (2 * w) * Freq
      BY <1>1, <1>8, MulMonotone
    <2> QED BY <1>4, <1>6, <1>7, <2>1
  <1>9. ASSUME 2 * w <= -Turn PROVE FALSE
    <2>1. (2 * w) * Freq <= (-Turn) * Freq
      BY <1>1, <1>9, MulMonotone
    <2> QED BY <1>4, <1>6, <1>7, <2>1
  <1> QED BY <1>1, <1>8, <1>9

\* Encoder adds nothing that the guard could notice.
LEMMA EncoderStep == [EncNext]_<<vars, evars>> => [Next]_vars
  BY DEF EncNext, Burst, Sample, Publish, Stamp, Turning, ControlThread, Next, vars

\* The initial state: there is no reading yet.
LEMMA MeasuredInit == EncInit => Measured /\ SpeedTrue
  BY Encoders, Durations DEF EncInit, Measured, SpeedTrue

\* A burst begins, or is left out.
LEMMA MeasuredBurst ==
    ASSUME Clock, Measured, Burst
    PROVE  Measured'
  <1>1. /\ mwait = 0 /\ now' = now /\ mwait' >= MdeSleep /\ UNCHANGED <<rate, pos, enc_az>>
        /\ UNCHANGED <<old_x, old_t, readings, since>>
    BY Durations DEF Burst, MdeTest
  <1>2. step = "rest"
    BY <1>1, Durations DEF Measured
  <1>3. step' \in {"rest", "sample"}
    BY <1>2 DEF Burst
  <1> QED BY <1>1, <1>2, <1>3 DEF Measured

\* The drive is read.
LEMMA MeasuredSample ==
    ASSUME Clock, Measured, Sample
    PROVE  Measured'
  <1>1. /\ mwait' = mwait /\ now' = now /\ step = "sample" /\ UNCHANGED <<rate, pos>>
        /\ UNCHANGED <<old_x, old_t, readings, since>>
    BY DEF Sample, vars
  <1>2. /\ rate \in Int /\ pos \in Int /\ mwait >= MdeSleep /\ mwait \in Nat
        /\ mwait <= MdeSleep + BurstTime
    BY <1>1, Encoders, Durations DEF Clock, Measured
  <1>3. CASE enc_az' = pos \div Freq /\ step' = "speed"
    <2>1. enc_az' \in Int /\ After(rate, pos, enc_az', 0)
      BY <1>2, <1>3, SampleAfter
    <2>2. 0 \in Nat /\ 0 + mwait <= MdeSleep + BurstTime
      BY <1>2
    <2>3. \E late \in Nat : late + mwait <= MdeSleep + BurstTime /\ After(rate, pos, enc_az', late)
      BY <2>1, <2>2
    <2> QED BY <1>1, <1>3, <2>1, <2>3 DEF Measured
  <1>4. CASE enc_az' = enc_az /\ step' = "rest"
    BY <1>1, <1>4 DEF Measured
  <1> QED BY <1>3, <1>4 DEF Sample

\* The speed is published: it is right.
LEMMA MeasuredPublish ==
    ASSUME Clock, Measured, Publish
    PROVE  Measured' /\ SpeedTrue'
  <1>1. /\ mwait' = mwait /\ now' = now /\ step = "speed" /\ step' = "stamp"
        /\ enc_az_speed' \in Speeds /\ old_x' = enc_az /\ interval' = since
        /\ readings' = IF readings = 0 THEN 1 ELSE 2
        /\ UNCHANGED <<rate, pos, enc_az, old_t, since>>
    BY DEF Publish, vars
  <1>2. /\ rate \in Int /\ pos \in Int /\ enc_az \in Int /\ old_x \in Int /\ since \in Nat
        /\ mwait >= MdeSleep /\ mwait \in Nat /\ BurstTime \in Nat
        /\ now \in 0 .. TimeMod - 1 /\ old_t \in 0 .. TimeMod - 1
    BY <1>1, Encoders, Durations DEF Clock, Measured
  <1>3. Measured'
    BY <1>1, <1>2 DEF Measured
  <1>4. SpeedTrue'
    <2> DEFINE way == abs(rate) * (since + BurstTime) + Freq
    <2> SUFFICES ASSUME readings # 0, since < TimeMod,
                        2 * way <= Turn * Freq, 2 * way <= Turn * since
                 PROVE  abs(enc_az_speed' - rate) * since < Freq + since + abs(rate) * BurstTime
      BY <1>1 DEF SpeedTrue, Way
    <2>1. PICK late \in Nat : late + mwait <= MdeSleep + BurstTime /\ After(rate, pos, enc_az, late)
      BY <1>1 DEF Measured
    <2>2. PICK lost \in 0 .. BurstTime : After(rate, pos, old_x, since + lost)
      BY <1>1 DEF Measured
    <2> DEFINE s == (since + lost) - late
    <2>3. late <= BurstTime
      BY <1>2, <2>1, Durations
    <2>4. s \in Int /\ s - since <= BurstTime /\ since - s <= BurstTime /\ since + lost \in Int
      BY <1>2, <2>3
    <2>5. PICK w \in Int, k \in Int :
              /\ enc_az = old_x + w + k * Turn
              /\ w * Freq - rate * s < Freq /\ rate * s - w * Freq < Freq
      BY <1>2, <2>1, <2>2, <2>4, TwoSamples
    <2> HIDE DEF s, way
    <2>6. since \in Nat \ {0}
      <3>1. abs(rate) * (since + BurstTime) \in Nat
        <4>1. since + BurstTime \in Nat
          BY <1>2
        <4> QED BY <1>2, <4>1, AbsProduct
      <3>2. way \in Nat /\ way >= Freq /\ Freq \in Nat \ {0}
        BY <3>1, Encoders DEF way
      <3>3. Turn * 0 = 0
        BY Encoders
      <3> QED BY <1>2, <3>2, <3>3
    <2>7. -Turn < 2 * w /\ 2 * w < Turn
      BY <1>2, <2>4, <2>5, HalfTurn DEF way
    <2>8. Dx = w
      BY <1>2, <2>5, <2>7, WayMeasured DEF Dx
    <2>9. Dt = since
      <3>1. now - old_t = since \/ now - old_t = since - TimeMod
        BY <1>1, <1>2, Durations DEF Measured
      <3>2. since \in 0 .. TimeMod - 1
        BY <1>2, Durations
      <3> QED BY <3>1, <3>2, Durations, ModFacts DEF Dt
    <2>10. 2 * (abs(rate) * (since + BurstTime) + Freq) <= Turn * since
      BY DEF way
    <2> QED BY <1>1, <1>2, <2>4, <2>5, <2>6, <2>8, <2>9, <2>10, SpeedMeasured
  <1> QED BY <1>3, <1>4

\* The clock is read for the next burst.
LEMMA MeasuredStamp ==
    ASSUME Clock, Measured, Stamp
    PROVE  Measured'
  <1>1. /\ mwait' = mwait /\ now' = now /\ step = "stamp" /\ step' = "rest"
        /\ old_t' = now /\ since' = 0 /\ UNCHANGED <<rate, pos, enc_az, old_x, readings>>
    BY DEF Stamp, vars
  <1>2. now \in 0 .. TimeMod - 1 /\ mwait \in Nat /\ mwait >= MdeSleep /\ BurstTime \in Nat
    BY <1>1, Durations DEF Clock, Measured
  <1>3. PICK late \in Nat : late + mwait <= MdeSleep + BurstTime /\ After(rate, pos, old_x, late)
    BY <1>1 DEF Measured
  <1>4. late \in 0 .. BurstTime /\ 0 + late = late
    BY <1>2, <1>3, Durations
  <1>5. \E lost \in 0 .. BurstTime : After(rate, pos, old_x, 0 + lost)
    BY <1>3, <1>4
  <1>6. now' = old_t' + since'
    BY <1>1, <1>2
  <1> QED BY <1>1, <1>2, <1>5, <1>6 DEF Measured

\* Time goes on and the antenna turns.
LEMMA MeasuredTurning ==
    ASSUME Clock, Measured, Turning
    PROVE  Measured'
  <1>1. /\ now' = (now + 1) % TimeMod /\ mwait' = mwait - 1
        /\ step # "rest" => mwait > MdeSleep
        /\ pos' = (pos + rate) % (Turn * Freq) /\ since' = since + 1
        /\ UNCHANGED <<rate, step, enc_az, old_x, old_t, readings>>
    BY DEF Turning, Tick
  <1>2. /\ now \in 0 .. TimeMod - 1 /\ mwait \in Nat /\ rate \in Int /\ pos \in Int
        /\ old_x \in Int /\ enc_az \in Int /\ since \in Nat /\ old_t \in 0 .. TimeMod - 1
    BY Encoders, Durations DEF Clock, Measured
  <1>3. pos' \in 0 .. Turn * Freq - 1 /\ since' \in Nat
    <2>1. pos + rate \in Int /\ since' \in Nat
      BY <1>1, <1>2
    <2>2. (pos + rate) % (Turn * Freq) \in 0 .. Turn * Freq - 1
      BY <2>1, Encoders, Remainder
    <2> QED BY <1>1, <2>1, <2>2
  <1>4. step' # "rest" => mwait' >= MdeSleep
    BY <1>1, <1>2, Durations
  <1>5. ASSUME readings # 0, step # "stamp"
        PROVE  /\ since' < TimeMod => now' = old_t + since' \/ now' = old_t + since' - TimeMod
               /\ \E lost \in 0 .. BurstTime : After(rate, pos', old_x, since' + lost)
    <2>1. \/ now + 1 \in 0 .. TimeMod - 1 /\ now' = now + 1
          \/ now + 1 = TimeMod /\ now' = 0
      <3>1. CASE now + 1 \in 0 .. TimeMod - 1
        BY <1>1, <3>1, Durations, ModFacts
      <3>2. CASE now + 1 = TimeMod
        <4>1. 0 \in 0 .. TimeMod - 1
          BY Durations
        <4> QED BY <1>1, <3>2, <4>1, Durations, ModFacts
      <3> QED BY <1>2, <3>1, <3>2, Durations
    <2>2. since' < TimeMod => now' = old_t + since' \/ now' = old_t + since' - TimeMod
      BY <1>1, <1>2, <1>5, <2>1, Durations DEF Measured
    <2>3. PICK lost \in 0 .. BurstTime : After(rate, pos, old_x, since + lost)
      BY <1>5 DEF Measured
    <2>4. since + lost \in Nat /\ (since + lost) + 1 = since' + lost
      BY <1>1, <1>2
    <2>5. After(rate, pos', old_x, (since + lost) + 1)
      BY <1>1, <1>2, <2>3, <2>4, TickAfter
    <2> QED BY <2>2, <2>4, <2>5
  <1>6. ASSUME step \in {"speed", "stamp"}
        PROVE  \E late \in Nat : /\ late + mwait' <= MdeSleep + BurstTime
                                /\ After(rate, pos', enc_az, late)
    <2>1. PICK late \in Nat : late + mwait <= MdeSleep + BurstTime /\ After(rate, pos, enc_az, late)
      BY <1>6 DEF Measured
    <2>2. late + 1 \in Nat /\ (late + 1) + mwait' <= MdeSleep + BurstTime
      BY <1>1, <1>2, <2>1, Durations
    <2>3. After(rate, pos', enc_az, late + 1)
      BY <1>1, <1>2, <2>1, TickAfter
    <2> QED BY <2>2, <2>3
  <1>7. step = "stamp" => old_x = enc_az
    BY DEF Measured
  <1>8. rate \in Rates
    BY DEF Measured
  <1> QED BY <1>1, <1>2, <1>3, <1>4, <1>5, <1>6, <1>7, <1>8 DEF Measured

\* Every step keeps Measured and SpeedTrue.
LEMMA MeasuredNext ==
    Clock /\ Measured /\ SpeedTrue /\ [EncNext]_<<vars, evars>> => Measured' /\ SpeedTrue'
  <1> SUFFICES ASSUME Clock, Measured, SpeedTrue, [EncNext]_<<vars, evars>>
               PROVE  Measured' /\ SpeedTrue'
    OBVIOUS
  <1>1. CASE Publish
    BY <1>1, MeasuredPublish
  <1>2. CASE Burst \/ Sample \/ Stamp \/ Turning
    <2>1. Measured'
      BY <1>2, MeasuredBurst, MeasuredSample, MeasuredStamp, MeasuredTurning
    <2>2. UNCHANGED <<readings, interval, rate, enc_az_speed>>
      BY <1>2 DEF Burst, Sample, Stamp, Turning
    <2> QED BY <2>1, <2>2 DEF SpeedTrue, Way
  <1>3. CASE ControlThread \/ UNCHANGED <<vars, evars>>
    <2>1. mwait' = mwait /\ now' = now /\ UNCHANGED evars
      BY <1>3 DEF ControlThread, CtrlIteration, CtrlCalibrate, CtrlCalibrated,
                  CtrlStall, CtrlRecover, IterationEnds, vars
    <2> QED BY <2>1 DEF evars, Measured, SpeedTrue, Way
  <1> QED BY <1>1, <1>2, <1>3 DEF EncNext

\* For every size of the clock and of the encoder, every tick, every rate and
\* every duration of the bursts: the speed of mde.c:141-150 is that of the antenna
\* up to a count and the way in a burst per interval, also across north, across
\* the wrap of the clock and after a pause of the bursts.
THEOREM SpeedIsTrue == EncSpec => []SpeedTrue
  <1>1. EncInit => Init
    BY DEF EncInit
  <1>2. EncInit => Clock /\ Measured /\ SpeedTrue
    BY <1>1, ClockInit, MeasuredInit
  <1>3. Clock /\ Measured /\ SpeedTrue /\ [EncNext]_<<vars, evars>>
        => Clock' /\ Measured' /\ SpeedTrue'
    BY EncoderStep, ClockNext, MeasuredNext
  <1> QED BY <1>2, <1>3, PTL DEF EncSpec

=============================================================================
