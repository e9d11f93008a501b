------------------------------- MODULE Encoder -------------------------------
(***************************************************************************)
(* The azimuth encoder as the mde thread measures it: in every burst that  *)
(* the stall guard lets happen it publishes the position, and the speed    *)
(* from the position and the system time of the burst before.  Both wrap   *)
(* round, and the time between two bursts is long when the control thread  *)
(* stalls or calibrates in between.                                        *)
(*                                                                         *)
(* The drive is powered and the antenna turns at a constant rate, of which *)
(* the encoder shows whole counts.  Time goes on between the sample of the *)
(* drive, the read of the clock for the speed, and the read that is stored *)
(* for the next burst.  The two bytes of a position are taken as a single  *)
(* sample: that the drive latches them is not visible in this code.        *)
(***************************************************************************)
EXTENDS StallGuard, CInt

CONSTANTS Turn,   \* encoder counts of a full turn (65536)
          Freq,   \* ticks per second (100000)
          Rates   \* rates of the antenna, in counts per second

ASSUME EncoderAssumption ==
    Turn \in Nat \ {0} /\ Turn % 2 = 0 /\ Freq \in Nat \ {0} /\ Rates \subseteq Int

VARIABLES rate, pos,        \* the antenna; its position is in 1/Freq of a count
          step,             \* where in a burst the thread is
          enc_az, enc_az_speed,
          old_x, old_t,     \* locals of the thread
          readings,         \* speeds published: 0, 1, or 2 for more
          since,            \* history: ticks since old_t was stored, and as
          interval          \* many at the read of the clock for the last speed

evars == <<rate, pos, step, enc_az, enc_az_speed, old_x, old_t, readings, since, interval>>

\* The conversion to int16_t, and its values.
Signed(x) == ((x + Turn \div 2) % Turn) - Turn \div 2
Int16s    == -(Turn \div 2) .. Turn \div 2 - 1

\* Mutant: the difference is not narrowed.
Dx_Wide == enc_az - old_x

Dx == Signed(Signed(enc_az) - Signed(old_x))
Dt == (now - old_t) % TimeMod

\* The quotient of two doubles, truncated: one that is a whole number may be
\* rounded to just below it.  The conversion of a number that does not fit, and
\* of what a division by zero gives, is undefined.
Speeds ==
    LET whole == CDiv(Dx * Freq, Dt)
        below == IF whole > 0 THEN whole - 1 ELSE whole + 1
    IN  IF Dt = 0 \/ whole \notin Int16s THEN Int16s
        ELSE {whole} \cup {x \in {below} : Dx # 0 /\ whole * Dt = Dx * Freq}

\* Whether an exchange with the drive succeeded: the function says so always.
mde_exchange == TRUE

\* The exchanges that fetch the position.
Sample ==
    /\ step = "sample"
    /\ IF mde_exchange THEN enc_az' = pos \div Freq /\ step' = "speed"
                       ELSE enc_az' = enc_az /\ step' = "rest"
    /\ UNCHANGED <<vars, rate, pos, enc_az_speed, old_x, old_t, readings, since, interval>>

\* The speed, with the first read of the clock.
Publish ==
    /\ step = "speed"
    /\ enc_az_speed' \in Speeds
    /\ old_x' = enc_az
    /\ readings' = IF readings = 0 THEN 1 ELSE 2
    /\ interval' = since /\ step' = "stamp"
    /\ UNCHANGED <<vars, rate, pos, enc_az, old_t, since>>

\* The second read of the clock, for the next burst.
Stamp ==
    /\ step = "stamp"
    /\ old_t' = now
    /\ since' = 0 /\ step' = "rest"
    /\ UNCHANGED <<vars, rate, pos, enc_az, enc_az_speed, old_x, readings, interval>>

\* The test at the beginning of a burst.
Burst ==
    /\ MdeTest
    /\ step' = IF comm' THEN "sample" ELSE step
    /\ UNCHANGED <<rate, pos, enc_az, enc_az_speed, old_x, old_t, readings, since, interval>>

\* The sleep after a burst begins when the burst is over.
Turning ==
    /\ Tick
    /\ step # "rest" => mwait > MdeSleep
    /\ pos' = (pos + rate) % (Turn * Freq) /\ since' = since + 1
    /\ UNCHANGED <<rate, step, enc_az, enc_az_speed, old_x, old_t, readings, interval>>

ControlThread ==
    /\ CtrlIteration \/ CtrlCalibrate \/ CtrlCalibrated \/ CtrlStall \/ CtrlRecover
    /\ UNCHANGED evars

\* old_x and old_t are not initialised by the code.
EncInit ==
    /\ Init
    /\ rate \in Rates /\ pos = 0 /\ enc_az = 0 /\ enc_az_speed = 0
    /\ old_x \in 0 .. Turn - 1 /\ old_t \in 0 .. TimeMod - 1
    /\ step = "rest" /\ readings = 0 /\ since = 0 /\ interval = 0

EncNext == Burst \/ Sample \/ Publish \/ Stamp \/ Turning \/ ControlThread
EncSpec == EncInit /\ [][EncNext]_<<vars, evars>>

-----------------------------------------------------------------------------
(* Properties.                                                             *)

\* How far the antenna turned between two samples at most, and one count, in
\* 1/Freq of a count.
Way == abs(rate) * (interval + BurstTime) + Freq

\* From the second reading on, the published speed is the speed of the antenna
\* in counts per second, up to one count and the way of the antenna during one
\* burst, both per measured interval, and to the truncation: across north,
\* across the wrap of the system time and after a pause of the bursts, unless
\* the antenna turned by half a turn or more, or the clock by a whole one, in the
\* interval, or the speed has no 16 bits.
SpeedTrue ==
    readings = 2 /\ interval < TimeMod /\ 2 * Way <= Turn * Freq /\ 2 * Way <= Turn * interval
        => abs(enc_az_speed - rate) * interval < Freq + interval + abs(rate) * BurstTime

=============================================================================
