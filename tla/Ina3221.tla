-------------------------------- MODULE Ina3221 --------------------------------
(***************************************************************************)
(* The power monitor (ina3221.c).  A thread resets and configures two      *)
(* chips and then reads, channel by channel, the voltage at the shunt and  *)
(* the one of the bus over I2C; each transfer may fail.  A channel is      *)
(* published for the web server when both have succeeded.                  *)
(*                                                                         *)
(* A measured value is the number of the round in which it was measured,   *)
(* 1 to MaxRounds and again from 1; 0 is the initial value, and what a     *)
(* failed transfer leaves.                                                 *)
(***************************************************************************)
EXTENDS Naturals, Sequences

CONSTANTS Chips,      \* sequence of chips, in the order of their setup
          Channels,   \* sequence of channels, in the order of a round
          MaxRounds   \* number of rounds told apart

ASSUME InaAssumption == Len(Chips) > 0 /\ Len(Channels) > 0 /\ MaxRounds \in Nat \ {0}

VARIABLES ipc,      \* what the thread does next, and for which chip or channel
          round,
          chan,     \* shunt, bus, and ret of ina3221_get_chan
          mon,      \* shunt_volt and bus_volt of every channel
          error

inaVars == <<ipc, round, chan, mon, error>>

ChannelSet == {Channels[i] : i \in 1 .. Len(Channels)}
Goto(from, to) == ipc = from /\ ipc' = to

-----------------------------------------------------------------------------
(* The setup: a failed transfer, or a wrong configuration, is recorded and *)
(* the thread goes on.                                                     *)

Reset(i) ==
    /\ Goto(<<"reset", i>>, <<"config", i>>)
    /\ error' \in {error, TRUE}
    /\ UNCHANGED <<round, chan, mon>>

Config(i) ==
    /\ Goto(<<"config", i>>, <<"verify", i>>)
    /\ error' \in {error, TRUE}
    /\ UNCHANGED <<round, chan, mon>>

Verify(i) ==
    /\ Goto(<<"verify", i>>, IF i < Len(Chips) THEN <<"reset", i + 1>> ELSE <<"shunt", 1>>)
    /\ error' \in {error, TRUE}
    /\ UNCHANGED <<round, chan, mon>>

-----------------------------------------------------------------------------
(* The loop.                                                               *)

\* sysReadI2C16: the value, or failure.
Transfer == {round, 0}

\* ina3221_get_chan, the first transfer.
ReadShunt(i) ==
    /\ Goto(<<"shunt", i>>, <<"bus", i>>)
    /\ \E v \in Transfer : chan' = [chan EXCEPT !.shunt = v, !.ret = (v = 0)]
    /\ UNCHANGED <<round, mon, error>>

\* Mutant: the second transfer overwrites the failure of the first.
Failed_Last(ret, v) == v = 0

\* ret |= true
Failed(ret, v) == ret \/ v = 0

\* The second transfer, and ina3221_update_chan.
ReadBus(i) ==
    /\ Goto(<<"bus", i>>, IF i < Len(Channels) THEN <<"shunt", i + 1>> ELSE <<"sleep", 0>>)
    /\ \E v \in Transfer :
          /\ chan' = [chan EXCEPT !.bus = v, !.ret = Failed(chan.ret, v)]
          /\ mon' = IF chan'.ret THEN mon
                    ELSE [mon EXCEPT ![Channels[i]] = [shunt |-> chan.shunt, bus |-> v]]
    /\ UNCHANGED <<round, error>>

Sleep ==
    /\ Goto(<<"sleep", 0>>, <<"shunt", 1>>)
    /\ round' = (round % MaxRounds) + 1
    /\ UNCHANGED <<chan, mon, error>>

InaInit ==
    /\ ipc = <<"reset", 1>> /\ round = 1 /\ error = FALSE
    /\ chan = [shunt |-> 0, bus |-> 0, ret |-> FALSE]
    /\ mon = [c \in ChannelSet |-> [shunt |-> 0, bus |-> 0]]

InaNext ==
    \/ \E i \in 1 .. Len(Chips) : Reset(i) \/ Config(i) \/ Verify(i)
    \/ \E i \in 1 .. Len(Channels) : ReadShunt(i) \/ ReadBus(i)
    \/ Sleep

InaSpec == InaInit /\ [][InaNext]_inaVars

-----------------------------------------------------------------------------
(* Properties.                                                             *)

\* The two voltages of a channel always come from one round in which both
\* transfers went well: what a failed one leaves is never published.
PairOfOneRound == \A c \in ChannelSet : mon[c].shunt = mon[c].bus

=============================================================================
