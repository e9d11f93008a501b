--------------------------------- MODULE Ocxo ---------------------------------
(***************************************************************************)
(* The frequency loop of the reference oscillator (ocxo.c).  At every      *)
(* pulse of the GPS receiver (1 Hz) an interrupt stores how many periods   *)
(* of the oscillator (20 MHz) have passed since the last one, into the     *)
(* next of three counters.  A thread looks at them every 10 ms; when all   *)
(* three agree it moves the tuning voltage by one step.                    *)
(*                                                                         *)
(* The interrupt comes between any two accesses of the thread.  After it   *)
(* the thread ends the pass it was in and does at least a whole one before *)
(* the next interrupt: it does a hundred in a second.                      *)
(***************************************************************************)
EXTENDS CInt

CONSTANTS Centre,      \* value of dac_val at which the frequency is nominal
          PerCount,    \* change of dac_val that changes a count by one
          BadCounts,   \* counts after a lost or additional pulse
          MaxBad       \* bound on the number of such pulses

Step    == 10
Nominal == 20000000
Start   == 2050   \* initial value of dac_val

\* Two steps change a count by at most one.
ASSUME OcxoAssumption ==
    /\ Centre \in UInt16 /\ PerCount \in Nat /\ PerCount >= 2 * Step
    /\ BadCounts \subseteq Nat /\ MaxBad \in Nat

Slots == 0 .. 2

VARIABLES ocxo_cntr, cntr_i, out_ocxo_cntr, dac_val,
          pc,       \* where the thread is
          r0, r1,   \* the counters as the comparison has read them
          wakes,    \* passes begun since the last pulse: 0, 1, or 2 for more
          then,     \* dac_val at the last pulse
          bad       \* number of wrong counts so far

vars == <<ocxo_cntr, cntr_i, out_ocxo_cntr, dac_val, pc, r0, r1, wakes, then, bad>>

\* The oscillator: periods in a second, rounded down.  The converter takes
\* the low 12 bits of dac_val.
Deviation(dac) == ((dac % 4096) - Centre) \div PerCount
Counts(dac)    == {Nominal + Deviation(dac), Nominal + Deviation(dac) + 1}

Store(count) ==
    /\ ocxo_cntr' = [ocxo_cntr EXCEPT ![cntr_i] = count]
    /\ cntr_i' = (cntr_i + 1) % 3
    /\ wakes' = 0 /\ then' = dac_val
    /\ UNCHANGED <<out_ocxo_cntr, dac_val, pc, r0, r1>>

\* exti_cb: a count of a second in which the voltage may have changed.
Pulse ==
    /\ wakes = 2
    /\ \E count \in Counts(then) \cup Counts(dac_val) : Store(count)
    /\ UNCHANGED bad

\* The same after a lost pulse, or at an additional one.
BadPulse ==
    /\ wakes = 2
    /\ bad < MaxBad /\ bad' = bad + 1
    /\ \E count \in BadCounts : Store(count)

-----------------------------------------------------------------------------
(* The thread, one action per access that an interrupt can separate.       *)

Jump(from, to) == pc = from /\ pc' = to

\* The first two counters are compared.
CompareFirst ==
    /\ Jump("top", IF ocxo_cntr[0] = ocxo_cntr[1] THEN "second" ELSE "sleep")
    /\ r0' = ocxo_cntr[0] /\ r1' = ocxo_cntr[1]
    /\ UNCHANGED <<ocxo_cntr, cntr_i, out_ocxo_cntr, dac_val, wakes, then, bad>>

\* The last two are; the compiler may keep the second one or read it again.
CompareSecond ==
    /\ \E second \in {r1, ocxo_cntr[1]} :
          Jump("second", IF second = ocxo_cntr[2] THEN "take" ELSE "sleep")
    /\ UNCHANGED <<ocxo_cntr, cntr_i, out_ocxo_cntr, dac_val, r0, r1, wakes, then, bad>>

\* The same holds for the first counter.
Take ==
    /\ Jump("take", "mark")
    /\ out_ocxo_cntr' \in {r0, ocxo_cntr[0]}
    /\ UNCHANGED <<ocxo_cntr, cntr_i, dac_val, r0, r1, wakes, then, bad>>

\* Mutant: the counters stay equal.
Mark_Missing ==
    /\ Jump("mark", "adjust")
    /\ UNCHANGED <<ocxo_cntr, cntr_i, out_ocxo_cntr, dac_val, r0, r1, wakes, then, bad>>

\* No further step until the first counter has a new count.
Mark ==
    /\ Jump("mark", "adjust")
    /\ ocxo_cntr' = [ocxo_cntr EXCEPT ![0] = -1]
    /\ UNCHANGED <<cntr_i, out_ocxo_cntr, dac_val, r0, r1, wakes, then, bad>>

\* Mutants: a step in the wrong direction; a digit missing in a limit.
NewDac_Swapped == IF out_ocxo_cntr > 20000001 THEN ToUInt16(dac_val + Step)
                  ELSE IF out_ocxo_cntr < 19999999 THEN ToUInt16(dac_val - Step)
                  ELSE dac_val

NewDac_Limit == IF out_ocxo_cntr > 20000001 THEN ToUInt16(dac_val - Step)
                ELSE IF out_ocxo_cntr < 1999999 THEN ToUInt16(dac_val + Step)
                ELSE dac_val

NewDac == IF out_ocxo_cntr > 20000001 THEN ToUInt16(dac_val - Step)
          ELSE IF out_ocxo_cntr < 19999999 THEN ToUInt16(dac_val + Step)
          ELSE dac_val

Adjust ==
    /\ Jump("adjust", "sleep")
    /\ dac_val' = NewDac
    /\ UNCHANGED <<ocxo_cntr, cntr_i, out_ocxo_cntr, r0, r1, wakes, then, bad>>

Wake ==
    /\ Jump("sleep", "top")
    /\ wakes' = IF wakes = 2 THEN 2 ELSE wakes + 1
    /\ UNCHANGED <<ocxo_cntr, cntr_i, out_ocxo_cntr, dac_val, r0, r1, then, bad>>

Init ==
    /\ ocxo_cntr = [i \in Slots |-> i]
    /\ cntr_i = 0 /\ out_ocxo_cntr = 0 /\ dac_val = Start
    /\ pc = "top" /\ r0 = 0 /\ r1 = 0
    /\ wakes = 2 /\ then = Start /\ bad = 0

Thread == CompareFirst \/ CompareSecond \/ Take \/ Mark \/ Adjust \/ Wake
Next   == Thread \/ Pulse \/ BadPulse
Spec   == Init /\ [][Next]_vars

\* The thread has the highest priority, and the receiver sends its pulses.
FairSpec == Spec /\ WF_vars(Thread) /\ WF_vars(Pulse)

-----------------------------------------------------------------------------
(* Properties.                                                             *)

Locked == Deviation(dac_val) \in -2 .. 1

\* As long as every count is right, no step takes the frequency further away
\* from nominal, unless it ends within the dead band, whenever the interrupt
\* comes and although two of the three counters may be older than the last step.
NeverWorse ==
    [][bad' = 0 => \/ abs(Deviation(dac_val')) <= abs(Deviation(dac_val))
                   \/ Locked']_vars

\* As long as every count is right, the tuning value goes at most one step
\* beyond the value at which the frequency is nominal: although the code puts
\* no limit to it, it does not leave the range of the converter.
NoOvershoot ==
    bad = 0 => /\ dac_val <= Centre + Step \/ dac_val <= Start
               /\ dac_val >= Centre - Step \/ dac_val >= Start

\* The loop ends up within its dead band and stays there, also after wrong
\* counts, unless from some time on the three counters never agree: then the
\* code makes no step at all.
EventuallyLocked ==
    []<>(ocxo_cntr[0] = ocxo_cntr[1] /\ ocxo_cntr[1] = ocxo_cntr[2]) => <>[]Locked

=============================================================================
