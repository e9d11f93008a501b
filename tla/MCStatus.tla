------------------------------- MODULE MCStatus -------------------------------
(***************************************************************************)
(* The three threads whose data the web server only shows, in /state.json: *)
(* the GPS receiver, the power monitor and the oscillator.  They share no  *)
(* variable, so that one of them runs in each behaviour.                   *)
(*                                                                         *)
(* Messages have two to four characters, where a position shorter than     *)
(* four lacks its last field, in a buffer of five: two lines whose end is  *)
(* lost overflow it.  The monitor has two chips, and two channels.  The    *)
(* oscillator is a few counts off when it is switched on, and the receiver *)
(* may lose pulses, so that three counts in a row are twice too large.     *)
(***************************************************************************)
EXTENDS Gps, Ina3221, Ocxo

MCLengths  == [GPGGA |-> {2, 4}, PGRMF |-> {3}, other |-> {4}]
MCFields   == [GPGGA |-> {1, 3}, PGRMF |-> {2}, other |-> {}]
MCChips    == <<"pcfg_40", "pcfg_41">>
MCChannels == <<"mon_ch1", "mon_ch2">>

VARIABLE thread

mcVars == <<gpsVars, inaVars, vars, thread>>

MCInit == thread \in {"gps", "ina3221", "ocxo"} /\ GpsInit /\ InaInit /\ Init

\* After the last line of the instance the receiver is silent.
Silent == N = MaxLines /\ k > line[N].len /\ UNCHANGED gpsVars

GpsThread  == thread = "gps" /\ (GpsNext \/ Silent) /\ UNCHANGED <<inaVars, vars, thread>>
InaThread  == thread = "ina3221" /\ InaNext /\ UNCHANGED <<gpsVars, vars, thread>>
Oscillator == thread = "ocxo" /\ UNCHANGED <<gpsVars, inaVars, thread>>

MCNext == GpsThread \/ InaThread \/ (Oscillator /\ Next)

\* The fairness of Ocxo, for the behaviours of its thread.
MCSpec == /\ MCInit /\ [][MCNext]_mcVars
          /\ WF_mcVars(Oscillator /\ Thread) /\ WF_mcVars(Oscillator /\ Pulse)

=============================================================================
