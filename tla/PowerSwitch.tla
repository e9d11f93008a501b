----------------------------- MODULE PowerSwitch -----------------------------
(***************************************************************************)
(* What the power commands of the motor drive electronics (MDE) promise.   *)
(* The power line changes only because of a command that asks for the      *)
(* state the drive is not in; a change that has begun is completed; a      *)
(* drive that is switched on becomes ready, one that is switched off stays *)
(* off until it is switched on.  Commands given during a change are looked *)
(* at when it is over: it may end with the opposite being wanted.          *)
(***************************************************************************)
VARIABLES wanted,   \* the state that the commands ask for: TRUE is "on"
          line,     \* the power line is high
          ready     \* the drive takes part in the communication

vars == <<wanted, line, ready>>

Init == wanted = FALSE /\ line = FALSE /\ ready = FALSE

Command == wanted = ready /\ line = ready /\ wanted' = ~wanted /\ UNCHANGED <<line, ready>>

Rise   == wanted /\ ~line /\ ~ready /\ line' = TRUE /\ UNCHANGED <<wanted, ready>>
Ready  == wanted /\ line /\ ~ready /\ ready' = TRUE /\ wanted' \in BOOLEAN /\ UNCHANGED line
Fall   == ~wanted /\ line /\ ready /\ line' = FALSE /\ UNCHANGED <<wanted, ready>>
Settle == ~wanted /\ ~line /\ ready /\ ready' = FALSE /\ wanted' \in BOOLEAN /\ UNCHANGED line

Act  == Rise \/ Ready \/ Fall \/ Settle
Next == Command \/ Act

Safe == Init /\ [][Next]_vars
Spec == Safe /\ WF_vars(Act)

=============================================================================
