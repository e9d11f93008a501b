---------------------------------- MODULE Gps ----------------------------------
(***************************************************************************)
(* The receiver thread of the GPS messages (gps.c).  It collects the       *)
(* characters of the serial line in a buffer until one of the two          *)
(* characters that end a line, and takes the fields of two kinds of        *)
(* messages from fixed places of the buffer.                               *)
(*                                                                         *)
(* A character is known by its line and its place there, <<l, k>>; the     *)
(* first one stands for the name of the message.  The thread starts in the *)
(* middle of a line, and characters can be lost on the way.  No checksum   *)
(* is tested, and the buffer keeps what is behind the terminator.          *)
(***************************************************************************)
EXTENDS Integers, Sequences, FiniteSets

CONSTANTS Kinds,       \* kinds of lines
          Lengths,     \* their possible numbers of characters
          Fields,      \* places of the fields; none if the kind is not parsed
          BufSize,     \* sizeof(buf), 128
          MaxLines,    \* bound on the number of lines
          MaxLost      \* bound on the number of lost characters

ASSUME GpsAssumption ==
    /\ Lengths \in [Kinds -> SUBSET (Nat \ {0})] /\ Fields \in [Kinds -> SUBSET (Nat \ {0})]
    /\ BufSize \in Nat /\ BufSize > 1 /\ MaxLines \in Nat /\ MaxLost \in Nat

VARIABLES buf, idx,
          m_data,     \* per kind, the line it was parsed from and its fields
          line,       \* the lines sent so far, kinds and lengths
          k,          \* place of the next character in the last of them
          lost        \* characters that were lost

gpsVars == <<buf, idx, m_data, line, k, lost>>

N          == Len(line)
Char       == <<N, k>>
IsEnd      == k >= line[N].len    \* \r, then \n
Terminator == <<0, 0>>
Junk       == <<0, 1>>
Lines      == UNION {[kind : {x}, len : Lengths[x]] : x \in Kinds}

\* strncmp of the name, and the assignments from the fields.
gps_parse(str) ==
    m_data' = [kind \in Kinds |->
                 IF /\ Fields[kind] # {}
                    /\ str[0][1] # 0 /\ str[0][2] = 0 /\ line[str[0][1]].kind = kind
                 THEN [from |-> str[0][1], value |-> [p \in Fields[kind] |-> str[p]]]
                 ELSE m_data[kind]]

\* Mutant: the index is not reset at the end of a line.
EndOfLine_NoReset ==
    /\ buf' = [buf EXCEPT ![idx] = Terminator]
    /\ gps_parse(buf')
    /\ UNCHANGED idx

EndOfLine ==
    /\ buf' = [buf EXCEPT ![idx] = Terminator]
    /\ gps_parse(buf')
    /\ idx' = 0

\* Mutants: the buffer is used up to its last character, so that there is no
\* room for the terminator; a line too long goes on behind its first character.
Collect_Full ==
    /\ IF idx < BufSize
       THEN buf' = [i \in DOMAIN buf \cup {idx} |-> IF i = idx THEN Char ELSE buf[i]]
            /\ idx' = idx + 1
       ELSE idx' = 0 /\ UNCHANGED buf
    /\ UNCHANGED m_data

Collect_KeepsFirst ==
    /\ IF idx < BufSize - 1
       THEN buf' = [buf EXCEPT ![idx] = Char] /\ idx' = idx + 1
       ELSE idx' = 1 /\ UNCHANGED buf
    /\ UNCHANGED m_data

\* A line too long for the buffer is restarted in the middle.
Collect ==
    /\ IF idx < BufSize - 1
       THEN buf' = [buf EXCEPT ![idx] = Char] /\ idx' = idx + 1
       ELSE idx' = 0 /\ UNCHANGED buf
    /\ UNCHANGED m_data

\* The line behind the serial driver: its next character, or the next line.
Advance ==
    \/ k <= line[N].len /\ k' = k + 1 /\ UNCHANGED line
    \/ /\ k = line[N].len + 1 /\ N < MaxLines
       /\ \E l \in Lines : line' = Append(line, l)
       /\ k' = 0

\* One pass of the thread.
Receive == Advance /\ (IF IsEnd THEN EndOfLine ELSE Collect) /\ UNCHANGED lost

\* A character that never gets to the thread.
Lose ==
    /\ Cardinality(lost) < MaxLost
    /\ lost' = lost \cup {Char}
    /\ Advance /\ UNCHANGED <<buf, idx, m_data>>

GpsInit ==
    /\ \E l \in Lines : line = <<l>> /\ k \in 0 .. l.len + 1
    /\ buf = [i \in 0 .. BufSize - 1 |-> Junk] /\ idx = 0
    /\ m_data = [kind \in Kinds |-> [from |-> 0, value |-> <<>>]]
    /\ lost = {}

GpsNext == Receive \/ Lose
GpsSpec == GpsInit /\ [][GpsNext]_gpsVars

-----------------------------------------------------------------------------
(* Properties.                                                             *)

LostOf(l) == {i \in 0 .. line[l].len + 1 : <<l, i>> \in lost}

\* The terminator of a line always has room in the buffer.
InBuffer == idx \in 0 .. BufSize - 1

\* What gps_parse has taken from a message is the message's own field, unless
\* the message itself was damaged or too short: neither a start in the middle
\* of a line nor lost line ends and an overflow before it matter.
FieldsGenuine ==
    \A kind \in Kinds :
        LET d == m_data[kind] IN
        \/ d.from = 0
        \/ \E i \in LostOf(d.from) : i < line[d.from].len
        \/ \A p \in Fields[kind] :
              p < line[d.from].len => d.value[p] = <<d.from, p>>

\* A message that arrives whole after any end of the line before it is always
\* taken, whatever was lost earlier.
GoodLineTaken ==
    ( /\ N > 1 /\ k = line[N].len + 1 /\ line[N].len < BufSize
      /\ Fields[line[N].kind] # {} /\ LostOf(N) = {}
      /\ ~({line[N - 1].len, line[N - 1].len + 1} \subseteq LostOf(N - 1)) )
    => m_data[line[N].kind].from = N

=============================================================================
