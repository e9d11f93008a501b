----------------------------- MODULE StallGuard ------------------------------
(***************************************************************************)
(* The guard by which the mde thread notices that the control thread has   *)
(* stalled: ctrl.c stores the system time at the end of each iteration,    *)
(* and mde.c talks to the (powered) drive only if that was less than       *)
(* 100 ms ago.  System time wraps round: it has 32 bits at 100 kHz.        *)
(*                                                                         *)
(* Time is in ticks.  A thread whose sleep is over runs before time moves  *)
(* on: the work of an iteration takes far less than a tick of the model.   *)
(* The exchanges of a burst do take time.                                  *)
(***************************************************************************)
EXTENDS Integers

CONSTANTS TimeMod,      \* system time is modulo TimeMod (2^32)
          TicksPerMs,   \* 100
          LimitMs,      \* 100
          CtrlSleep,    \* sleep at the end of an iteration (20 ms)
          CalSleep,     \* sleep inside of a calibration (1000 ms)
          MdeSleep,     \* sleep of the mde thread between two bursts (3 ms)
          BurstTime,    \* longest duration of a burst
          MaxAge        \* bound on the length of a stall

\* An iteration's sleep is within the limit, a calibration's is not.
ASSUME StallGuardAssumption ==
    /\ {TimeMod, TicksPerMs, LimitMs, CtrlSleep, CalSleep, MdeSleep, MaxAge} \subseteq Nat \ {0}
    /\ BurstTime \in Nat
    /\ CtrlSleep <= (LimitMs - 1) * TicksPerMs
    /\ (LimitMs - 1) * TicksPerMs < CalSleep
    /\ CalSleep < MaxAge /\ CalSleep < TimeMod

VARIABLES now,                \* chVTGetSystemTimeX()
          last_loop_update,
          ctrl,               \* what the control thread does
          cwait,              \* rest of its sleep
          mwait,              \* rest of burst and sleep of the mde thread
          comm,               \* the last test let the communication happen
          age                 \* history: ticks since the last iteration ended

vars == <<now, last_loop_update, ctrl, cwait, mwait, comm, age>>

TIME_I2MS(interval) == (interval + TicksPerMs - 1) \div TicksPerMs

\* Mutants: the two times are converted before they are subtracted; the
\* operands are swapped.
ctrl_is_running_NoWrap  == TIME_I2MS(now) - TIME_I2MS(last_loop_update) < LimitMs
ctrl_is_running_Swapped == TIME_I2MS((last_loop_update - now) % TimeMod) < LimitMs

ctrl_is_running == TIME_I2MS((now - last_loop_update) % TimeMod) < LimitMs

\* The end of an iteration.
IterationEnds ==
    /\ last_loop_update' = now /\ age' = 0
    /\ ctrl' = "sleep" /\ cwait' = CtrlSleep
    /\ UNCHANGED <<now, mwait, comm>>

CtrlIteration == ctrl = "sleep" /\ cwait = 0 /\ IterationEnds

\* A calibration begins with a long sleep in the middle of an iteration.
CtrlCalibrate ==
    /\ ctrl = "sleep" /\ cwait = 0
    /\ ctrl' = "calsleep" /\ cwait' = CalSleep
    /\ UNCHANGED <<now, last_loop_update, mwait, comm, age>>

CtrlCalibrated == ctrl = "calsleep" /\ cwait = 0 /\ IterationEnds

\* The thread crashes or stalls, and perhaps recovers.
CtrlStall ==
    /\ ctrl # "stalled" /\ cwait = 0
    /\ ctrl' = "stalled"
    /\ UNCHANGED <<now, last_loop_update, cwait, mwait, comm, age>>

CtrlRecover == ctrl = "stalled" /\ IterationEnds

MdeTest ==
    /\ mwait = 0
    /\ comm' = ctrl_is_running
    /\ IF ctrl_is_running THEN mwait' \in MdeSleep .. MdeSleep + BurstTime
                          ELSE mwait' = MdeSleep
    /\ UNCHANGED <<now, last_loop_update, ctrl, cwait, age>>

Tick ==
    /\ ctrl = "stalled" \/ cwait > 0
    /\ mwait > 0
    /\ age < MaxAge
    /\ now' = (now + 1) % TimeMod
    /\ age' = age + 1
    /\ mwait' = mwait - 1
    /\ cwait' = IF cwait > 0 THEN cwait - 1 ELSE 0
    /\ UNCHANGED <<last_loop_update, ctrl, comm>>

Init ==
    /\ now = 0 /\ last_loop_update = 0 /\ age = 0
    /\ ctrl = "sleep" /\ cwait = 0
    /\ mwait = 0 /\ comm = FALSE

Next == \/ CtrlIteration \/ CtrlCalibrate \/ CtrlCalibrated \/ CtrlStall \/ CtrlRecover
        \/ MdeTest \/ Tick
Spec == Init /\ [][Next]_vars

-----------------------------------------------------------------------------
(* Properties.                                                             *)

\* The drive is talked to only if the control thread completed an iteration
\* within the limit before the test, wherever in its range the time is.  This
\* holds up to whole turns of the clock: of a thread that has crashed for good
\* the guard says once in a turn (11.9 hours), for as long as the limit, that it
\* is running.
StallStopsComm ==
    comm => age % TimeMod <= (LimitMs - 1) * TicksPerMs + MdeSleep + BurstTime

\* The guard never keeps a control thread that does its iterations from
\* reaching the drive, also when the time wraps round between two of them.
IterationsKeepComm == ctrl = "sleep" => ctrl_is_running

=============================================================================
