---------------------------- MODULE Status_proofs ----------------------------
(***************************************************************************)
(* The properties of the three threads that make what the status page      *)
(* shows: the GPS receiver for every size of the buffer, all lengths of    *)
(* the messages and any number of lost characters; the power monitor for   *)
(* any chips and channels; the frequency loop of the oscillator for any    *)
(* slope and any nominal point in the range of the converter.              *)
(***************************************************************************)
EXTENDS Gps, Ina3221, Ocxo, TLAPS

-----------------------------------------------------------------------------
(* The GPS receiver.  The idea: as long as nothing of a line is lost, what *)
(* the buffer holds of it stands at its own place (Collected); and if an   *)
(* end of the line before was received, the line is collected from the     *)
(* start of the buffer (InStep).                                           *)

Whole(l) == \A i \in 0 .. line[l].len - 1 : <<l, i>> \notin lost

\* An end of line l was received.
Ended(l) == <<l, line[l].len>> \notin lost \/ <<l, line[l].len + 1>> \notin lost

Types ==
    /\ line \in Seq(Lines) /\ N >= 1
    /\ k \in Nat /\ k <= line[N].len + 1
    /\ buf \in [0 .. BufSize - 1 -> (0 .. N) \X Nat]
    /\ idx \in Nat /\ idx <= BufSize - 1
    /\ \A kind \in Kinds : m_data[kind].from \in 0 .. N
    /\ DOMAIN m_data = Kinds

Collected ==
    \A l \in 1 .. N : idx > 0 /\ buf[0] = <<l, 0>> /\ Whole(l) =>
        /\ l = N /\ k <= line[l].len => idx = k
        /\ l < N \/ k > line[l].len => idx >= line[l].len
        /\ \A i \in 0 .. idx - 1 : i < line[l].len => buf[i] = <<l, i>>

Genuine ==
    \A kind \in Kinds, l \in 1 .. N : m_data[kind].from = l /\ Whole(l) =>
        \A p \in Fields[kind] : p < line[l].len => m_data[kind].value[p] = <<l, p>>

\* At the second end of a line the buffer is empty unless the first was lost.
Emptied == k > line[N].len /\ <<N, line[N].len>> \notin lost => idx = 0

InStep ==
    \A l \in 1 .. N - 1 :
        /\ l + 1 = N /\ Ended(l) /\ line[N].len < BufSize
        /\ \A i \in 0 .. k - 1 : <<N, i>> \notin lost
        =>
        /\ k <= line[N].len => idx = k /\ (k > 0 => buf[0] = <<N, 0>>)
        /\ k > line[N].len /\ Fields[line[N].kind] # {} => m_data[line[N].kind].from = N

IInv == Types /\ Collected /\ Genuine /\ Emptied /\ InStep

-----------------------------------------------------------------------------

\* A line has a kind and at least one character.
LEMMA LineTyped ==
    ASSUME NEW l \in Lines
    PROVE  l.kind \in Kinds /\ l.len \in Nat /\ l.len > 0
  BY GpsAssumption DEF Lines

\* The same for the lines sent so far.
LEMMA LinesTyped ==
    ASSUME Types
    PROVE  /\ N \in Nat /\ N >= 1
           /\ \A l \in 1 .. N : /\ line[l] \in Lines /\ line[l].kind \in Kinds
                                /\ line[l].len \in Nat /\ line[l].len > 0
  <1>1. N \in Nat /\ N >= 1 /\ \A l \in 1 .. N : line[l] \in Lines
    BY DEF Types, N
  <1> QED BY <1>1, LineTyped

\* The initial state.
LEMMA IInvInit == GpsInit => IInv
  <1> SUFFICES ASSUME GpsInit PROVE IInv
    OBVIOUS
  <1> USE GpsAssumption
  <1>1. PICK l \in Lines : line = <<l>> /\ k \in 0 .. l.len + 1
    BY DEF GpsInit
  <1>2. N = 1 /\ line[1] = l /\ line \in Seq(Lines) /\ l.len \in Nat /\ l.len > 0
    BY <1>1, LineTyped DEF N
  <1>3. Types
    <2>1. <<0, 1>> \in (0 .. N) \X Nat
      BY <1>2
    <2> QED BY <1>1, <1>2, <2>1 DEF GpsInit, Types, Junk
  <1>4. Collected /\ Emptied
    BY <1>2 DEF GpsInit, Collected, Emptied
  <1>5. Genuine /\ InStep
    BY <1>2 DEF GpsInit, Genuine, InStep
  <1> QED BY <1>3, <1>4, <1>5 DEF IInv

\* The line goes on, or the next one begins.
LEMMA Advanced ==
    ASSUME Types, Advance
    PROVE  \/ k <= line[N].len /\ k' = k + 1 /\ line' = line /\ N' = N
           \/ /\ k = line[N].len + 1 /\ k' = 0
              /\ line' \in Seq(Lines) /\ N' = N + 1
              /\ \A l \in 1 .. N : line'[l] = line[l]
              /\ line'[N + 1] \in Lines
  <1>1. CASE k <= line[N].len /\ k' = k + 1 /\ UNCHANGED line
    BY <1>1 DEF N
  <1>2. ASSUME k = line[N].len + 1, k' = 0, NEW l \in Lines, line' = Append(line, l)
        PROVE  /\ line' \in Seq(Lines) /\ N' = N + 1
               /\ \A m \in 1 .. N : line'[m] = line[m]
               /\ line'[N + 1] \in Lines
    BY <1>2 DEF N, Types
  <1> QED BY <1>1, <1>2 DEF Advance

\* A character is lost: the line is damaged, or an end of it is missing.
LEMMA IInvLose ==
    ASSUME IInv, Lose
    PROVE  IInv'
  <1> USE GpsAssumption
  <1>1. /\ lost' = lost \cup {<<N, k>>} /\ Advance
        /\ buf' = buf /\ idx' = idx /\ m_data' = m_data
    BY DEF Lose, Char
  <1>2. /\ N \in Nat /\ N >= 1 /\ k \in Nat /\ N \in 1 .. N
        /\ \A l \in 1 .. N : /\ line[l] \in Lines /\ line[l].kind \in Kinds
                             /\ line[l].len \in Nat /\ line[l].len > 0
    <2>1. k \in Nat
      BY DEF IInv, Types
    <2> QED BY <2>1, LinesTyped DEF IInv
  <1>3. CASE k <= line[N].len /\ k' = k + 1 /\ line' = line /\ N' = N
    <2>1. Types'
      <3>1. buf' \in [0 .. BufSize - 1 -> (0 .. N') \X Nat]
        BY <1>1, <1>3 DEF IInv, Types
      <3>2. k' \in Nat /\ k' <= line'[N'].len + 1
        BY <1>2, <1>3
      <3> QED BY <1>1, <1>3, <3>1, <3>2 DEF IInv, Types
    <2>2. \A l \in 1 .. N : Whole(l)' => Whole(l) /\ (l = N => k = line[N].len)
      <3> SUFFICES ASSUME NEW l \in 1 .. N,
                          \A i \in 0 .. line[l].len - 1 : <<l, i>> \notin lost'
                   PROVE  Whole(l) /\ (l = N => k = line[N].len)
        BY <1>3 DEF Whole
      <3>1. Whole(l)
        BY <1>1 DEF Whole
      <3>2. l = N => k = line[N].len
        <4> SUFFICES ASSUME l = N, k # line[N].len PROVE FALSE
          OBVIOUS
        <4>1. k \in 0 .. line[l].len - 1
          BY <1>2, <1>3
        <4> QED BY <1>1, <4>1
      <3> QED BY <3>1, <3>2
    <2>3. Collected'
      <3> SUFFICES ASSUME NEW l \in 1 .. N, idx > 0, buf[0] = <<l, 0>>, Whole(l)'
                   PROVE  /\ l = N /\ k + 1 <= line[l].len => idx = k + 1
                          /\ l < N \/ k + 1 > line[l].len => idx >= line[l].len
                          /\ \A i \in 0 .. idx - 1 : i < line[l].len => buf[i] = <<l, i>>
        BY <1>1, <1>3 DEF Collected
      <3>1. Whole(l) /\ (l = N => k = line[N].len)
        BY <2>2
      <3>2. /\ l = N /\ k <= line[l].len => idx = k
            /\ l < N \/ k > line[l].len => idx >= line[l].len
            /\ \A i \in 0 .. idx - 1 : i < line[l].len => buf[i] = <<l, i>>
        BY <3>1 DEF IInv, Collected
      <3> QED BY <1>2, <3>1, <3>2
    <2>4. Genuine'
      <3> SUFFICES ASSUME NEW kind \in Kinds, NEW l \in 1 .. N,
                          m_data[kind].from = l, Whole(l)'
                   PROVE  \A p \in Fields[kind] : p < line[l].len =>
                              m_data[kind].value[p] = <<l, p>>
        BY <1>1, <1>3 DEF Genuine
      <3> QED BY <2>2 DEF IInv, Genuine
    <2>5. Emptied'
      BY <1>1, <1>2, <1>3 DEF Emptied
    <2>6. InStep'
      <3>1. k \in 0 .. k' - 1 /\ <<N, k>> \in lost'
        BY <1>1, <1>2, <1>3
      <3> QED BY <1>3, <3>1 DEF InStep
    <2> QED BY <2>1, <2>3, <2>4, <2>5, <2>6 DEF IInv
  <1>4. CASE /\ k = line[N].len + 1 /\ k' = 0
             /\ line' \in Seq(Lines) /\ N' = N + 1
             /\ \A l \in 1 .. N : line'[l] = line[l]
             /\ line'[N + 1] \in Lines
    <2>7. line'[N + 1].len \in Nat /\ line'[N + 1].len > 0
      BY <1>4, LineTyped
    <2>1. Types'
      <3>1. \A x \in (0 .. N) \X Nat : x \in (0 .. N') \X Nat
        BY <1>2, <1>4
      <3>2. buf' \in [0 .. BufSize - 1 -> (0 .. N') \X Nat]
        BY <1>1, <3>1 DEF IInv, Types
      <3>3. N' >= 1 /\ k' \in Nat /\ k' <= line'[N'].len + 1
        BY <1>2, <1>4, <2>7
      <3>4. \A kind \in Kinds : m_data'[kind].from \in 0 .. N'
        <4>1. \A x \in 0 .. N : x \in 0 .. N'
          BY <1>2, <1>4
        <4>2. m_data' = m_data /\ \A kind \in Kinds : m_data[kind].from \in 0 .. N
          BY <1>1 DEF IInv, Types
        <4> QED BY <4>1, <4>2
      <3> QED BY <1>1, <1>4, <3>2, <3>3, <3>4 DEF IInv, Types
    <2>2. \A l \in 1 .. N : Whole(l)' => Whole(l)
      BY <1>1, <1>4 DEF Whole
    <2>3. Collected'
      <3> SUFFICES ASSUME NEW l \in 1 .. N + 1, idx > 0, buf[0] = <<l, 0>>, Whole(l)'
                   PROVE  /\ l = N + 1 => idx = 0
                          /\ l < N + 1 => idx >= line'[l].len
                          /\ \A i \in 0 .. idx - 1 : i < line'[l].len => buf[i] = <<l, i>>
        BY <1>1, <1>2, <1>4, <2>7 DEF Collected
      <3>1. l \in 1 .. N
        <4>1. 0 \in 0 .. BufSize - 1
          OBVIOUS
        <4>2. buf[0] \in (0 .. N) \X Nat
          BY <4>1 DEF IInv, Types
        <4> QED BY <1>2, <4>2
      <3>2. Whole(l) /\ line'[l] = line[l]
        BY <1>4, <2>2, <3>1
      <3>3. /\ l < N \/ k > line[l].len => idx >= line[l].len
            /\ \A i \in 0 .. idx - 1 : i < line[l].len => buf[i] = <<l, i>>
        BY <3>1, <3>2 DEF IInv, Collected
      <3> QED BY <1>2, <1>4, <3>1, <3>2, <3>3
    <2>4. Genuine'
      <3> SUFFICES ASSUME NEW kind \in Kinds, NEW l \in 1 .. N + 1,
                          m_data[kind].from = l, Whole(l)'
                   PROVE  \A p \in Fields[kind] : p < line'[l].len =>
                              m_data[kind].value[p] = <<l, p>>
        BY <1>1, <1>4 DEF Genuine
      <3>1. l \in 1 .. N
        BY <1>2 DEF IInv, Types
      <3>2. line'[l] = line[l] /\ Whole(l)
        BY <1>4, <2>2, <3>1
      <3> QED BY <3>1, <3>2 DEF IInv, Genuine
    <2>5. Emptied'
      BY <1>4, <2>7 DEF Emptied
    <2>6. InStep'
      <3> SUFFICES ASSUME NEW l \in 1 .. N, l = N, Ended(l)' PROVE idx = 0
        BY <1>1, <1>2, <1>4, <2>7 DEF InStep
      <3>1. \/ <<l, line[l].len>> \notin lost'
            \/ <<l, line[l].len + 1>> \notin lost'
        BY <1>4 DEF Ended
      <3>2. <<N, line[N].len>> \notin lost
        BY <1>1, <1>4, <3>1
      <3>3. k > line[N].len
        BY <1>2, <1>4
      <3> QED BY <3>2, <3>3 DEF IInv, Emptied
    <2> QED BY <2>1, <2>3, <2>4, <2>5, <2>6 DEF IInv
  <1> QED BY <1>1, <1>3, <1>4, Advanced DEF IInv

\* A character of a line is received.
LEMMA IInvCollect ==
    ASSUME IInv, Receive, ~IsEnd
    PROVE  IInv'
  <1> USE GpsAssumption
  <1>1. /\ Advance /\ lost' = lost /\ m_data' = m_data
        /\ IF idx < BufSize - 1
           THEN buf' = [buf EXCEPT ![idx] = <<N, k>>] /\ idx' = idx + 1
           ELSE idx' = 0 /\ buf' = buf
    BY DEF Receive, Collect, Char
  <1>2. /\ N \in Nat /\ N >= 1 /\ k \in Nat /\ N \in 1 .. N /\ idx \in Nat
        /\ \A l \in 1 .. N : /\ line[l] \in Lines /\ line[l].kind \in Kinds
                             /\ line[l].len \in Nat /\ line[l].len > 0
    <2>1. k \in Nat /\ idx \in Nat
      BY DEF IInv, Types
    <2> QED BY <2>1, LinesTyped DEF IInv
  <1>3. k < line[N].len
    BY <1>2 DEF IsEnd
  <1>4. k' = k + 1 /\ line' = line /\ N' = N
    BY <1>1, <1>2, <1>3, Advanced DEF IInv
  <1>5. \A l \in 1 .. N : (Whole(l)' <=> Whole(l)) /\ (Ended(l)' <=> Ended(l))
    BY <1>1, <1>4 DEF Whole, Ended
  <1>6. Genuine' /\ Emptied'
    BY <1>1, <1>2, <1>3, <1>4, <1>5 DEF IInv, Genuine, Emptied
  <1>7. CASE idx < BufSize - 1
    <2>1. /\ buf' = [buf EXCEPT ![idx] = <<N, k>>] /\ idx' = idx + 1
          /\ idx \in 0 .. BufSize - 1 /\ <<N, k>> \in (0 .. N) \X Nat
          /\ buf \in [0 .. BufSize - 1 -> (0 .. N) \X Nat]
      <3>1. buf' = [buf EXCEPT ![idx] = <<N, k>>] /\ idx' = idx + 1
        BY <1>1, <1>7
      <3>2. idx \in 0 .. BufSize - 1 /\ <<N, k>> \in (0 .. N) \X Nat
        BY <1>2, <1>7
      <3>3. buf \in [0 .. BufSize - 1 -> (0 .. N) \X Nat]
        BY DEF IInv, Types
      <3> QED BY <3>1, <3>2, <3>3
    <2>2. /\ buf' \in [0 .. BufSize - 1 -> (0 .. N) \X Nat] /\ buf'[idx] = <<N, k>>
          /\ \A i \in 0 .. BufSize - 1 : i # idx => buf'[i] = buf[i]
      BY <2>1
    <2>3. Types'
      <3>1. k' \in Nat /\ k' <= line'[N'].len + 1
        BY <1>2, <1>3, <1>4
      <3>2. idx' \in Nat /\ idx' <= BufSize - 1
        BY <1>2, <1>7, <2>1
      <3>3. /\ line' \in Seq(Lines) /\ N' >= 1 /\ DOMAIN m_data' = Kinds
            /\ \A kind \in Kinds : m_data'[kind].from \in 0 .. N'
        BY <1>1, <1>4 DEF IInv, Types
      <3>4. buf' \in [0 .. BufSize - 1 -> (0 .. N') \X Nat]
        BY <1>4, <2>2
      <3> QED BY <3>1, <3>2, <3>3, <3>4 DEF Types
    <2>4. Collected'
      <3> SUFFICES ASSUME NEW l \in (1 .. N)', (idx > 0)', (buf[0] = <<l, 0>>)', Whole(l)'
                   PROVE  ( /\ l = N /\ k <= line[l].len => idx = k
                            /\ l < N \/ k > line[l].len => idx >= line[l].len
                            /\ \A i \in 0 .. idx - 1 : i < line[l].len => buf[i] = <<l, i>> )'
        BY DEF Collected
      <3>3. l \in 1 .. N /\ buf'[0] = <<l, 0>> /\ Whole(l)
        BY <1>4, <1>5
      <3>4. SUFFICES /\ l = N => idx = k
                     /\ l < N => idx + 1 >= line[l].len
                     /\ \A i \in 0 .. idx : i < line[l].len => buf'[i] = <<l, i>>
        <4>1. idx' = idx + 1 /\ idx' - 1 = idx /\ k + 1 <= line[N].len
          <5>1. idx' = idx + 1
            BY <2>1
          <5>2. idx' - 1 = idx
            BY <1>2, <5>1
          <5>3. k + 1 <= line[N].len
            BY <1>2, <1>3
          <5> QED BY <5>1, <5>2, <5>3
        <4>2. line[l].len \in Nat /\ line' = line /\ N' = N /\ k' = k + 1
          BY <1>2, <1>4, <3>3
        <4>3. (l = N /\ k <= line[l].len => idx = k)'
          BY <4>1, <4>2
        <4>4. (l < N \/ k > line[l].len => idx >= line[l].len)'
          <5>1. CASE l = N
            BY <1>2, <4>1, <4>2, <5>1
          <5>2. CASE l # N
            BY <1>2, <3>3, <4>1, <4>2, <5>2
          <5> QED BY <5>1, <5>2
        <4>5. (\A i \in 0 .. idx - 1 : i < line[l].len => buf[i] = <<l, i>>)'
          BY <4>1, <4>2
        <4> QED BY <4>3, <4>4, <4>5
      <3>1. CASE idx = 0
        <4>1. l = N /\ k = 0
          BY <2>2, <3>1, <3>3
        <4> QED BY <1>2, <3>1, <3>3, <4>1
      <3>2. CASE idx # 0
        <4>1. idx > 0 /\ buf[0] = <<l, 0>>
          BY <1>2, <2>1, <2>2, <3>2, <3>3
        <4>2. /\ l = N /\ k <= line[l].len => idx = k
              /\ l < N \/ k > line[l].len => idx >= line[l].len
              /\ \A i \in 0 .. idx - 1 : i < line[l].len => buf[i] = <<l, i>>
          BY <3>3, <4>1 DEF IInv, Collected
        <4>3. ASSUME NEW i \in 0 .. idx, i < line[l].len PROVE buf'[i] = <<l, i>>
          <5>1. CASE i = idx
            <6>1. l = N
              <7> SUFFICES ASSUME l < N PROVE FALSE
                BY <1>2, <3>3
              <7> QED BY <1>2, <3>3, <4>2, <4>3, <5>1
            <6>2. idx = k BY <1>2, <1>3, <4>2, <6>1
            <6> QED BY <2>2, <5>1, <6>1, <6>2
          <5>2. CASE i # idx
            <6>1. i \in 0 .. idx - 1 /\ i \in 0 .. BufSize - 1
              BY <1>2, <1>7, <5>2
            <6> QED BY <2>2, <4>2, <4>3, <5>2, <6>1
          <5> QED BY <5>1, <5>2
        <4>4. l = N => idx = k
          BY <1>2, <1>3, <4>2
        <4>5. l < N => idx >= line[l].len
          BY <4>2
        <4> QED BY <1>2, <3>3, <4>3, <4>4, <4>5
      <3> QED BY <3>1, <3>2
    <2>5. InStep'
      <3> SUFFICES ASSUME NEW l \in (1 .. N - 1)',
                          ( /\ l + 1 = N /\ Ended(l) /\ line[N].len < BufSize
                            /\ \A i \in 0 .. k - 1 : <<N, i>> \notin lost )'
                   PROVE  (k <= line[N].len /\ idx = k /\ (k > 0 => buf[0] = <<N, 0>>))'
        BY <1>2, <1>3, <1>4 DEF InStep
      <3>3. /\ l \in 1 .. N - 1 /\ l + 1 = N /\ Ended(l) /\ line[N].len < BufSize
            /\ \A i \in 0 .. k - 1 : <<N, i>> \notin lost
        <4>1. l \in 1 .. N - 1 /\ l \in 1 .. N
          BY <1>2, <1>4
        <4>2. \A i \in 0 .. k - 1 : i \in 0 .. k' - 1
          BY <1>2, <1>4
        <4> QED BY <1>1, <1>4, <1>5, <4>1, <4>2
      <3>1. idx = k /\ (k > 0 => buf[0] = <<N, 0>>)
        BY <1>2, <1>3, <3>3 DEF IInv, InStep
      <3>2. 0 \in 0 .. BufSize - 1
        OBVIOUS
      <3>4. buf'[0] = <<N, 0>>
        <4>1. CASE k = 0
          BY <2>2, <3>1, <4>1
        <4>2. CASE k # 0
          <5>1. k > 0 /\ 0 # idx
            BY <1>2, <3>1, <4>2
          <5> QED BY <2>2, <3>1, <3>2, <5>1
        <4> QED BY <4>1, <4>2
      <3>5. k + 1 <= line[N].len
        BY <1>2, <1>3
      <3>6. k' <= line'[N'].len /\ idx' = k'
        BY <1>4, <2>1, <3>1, <3>5
      <3> QED BY <1>4, <3>4, <3>6
    <2> QED BY <1>6, <2>3, <2>4, <2>5 DEF IInv
  <1>8. CASE ~(idx < BufSize - 1)
    <2>1. idx' = 0 /\ buf' = buf
      BY <1>1, <1>8
    <2>2. Types'
      <3>1. k' \in Nat /\ k' <= line'[N'].len + 1
        BY <1>2, <1>3, <1>4
      <3> QED BY <1>1, <1>4, <2>1, <3>1 DEF IInv, Types
    <2>3. Collected'
      BY <2>1 DEF Collected
    <2>4. InStep'
      <3> SUFFICES ASSUME NEW l \in 1 .. N - 1, l + 1 = N, Ended(l), line[N].len < BufSize,
                          \A i \in 0 .. k : <<N, i>> \notin lost
                   PROVE  FALSE
        BY <1>1, <1>2, <1>3, <1>4, <1>5 DEF InStep
      <3>1. idx = k
        BY <1>2, <1>3 DEF IInv, InStep
      <3> QED BY <1>2, <1>3, <1>8, <3>1
    <2> QED BY <1>6, <2>2, <2>3, <2>4 DEF IInv
  <1> QED BY <1>7, <1>8

\* An end of a line is received: the buffer is terminated, parsed and emptied.
LEMMA IInvEnd ==
    ASSUME IInv, Receive, IsEnd
    PROVE  IInv'
  <1> USE GpsAssumption
  <1>1. /\ Advance /\ lost' = lost /\ idx' = 0
        /\ buf' = [buf EXCEPT ![idx] = <<0, 0>>] /\ gps_parse(buf')
    BY DEF Receive, EndOfLine, Terminator
  <1>2. /\ N \in Nat /\ N >= 1 /\ k \in Nat /\ N \in 1 .. N /\ idx \in Nat
        /\ \A l \in 1 .. N : /\ line[l] \in Lines /\ line[l].kind \in Kinds
                             /\ line[l].len \in Nat /\ line[l].len > 0
    <2>1. k \in Nat /\ idx \in Nat
      BY DEF IInv, Types
    <2> QED BY <2>1, LinesTyped DEF IInv
  <1>3. k >= line[N].len
    BY DEF IsEnd
  <1>4. /\ idx \in 0 .. BufSize - 1 /\ 0 \in 0 .. BufSize - 1
        /\ buf \in [0 .. BufSize - 1 -> (0 .. N) \X Nat] /\ <<0, 0>> \in (0 .. N) \X Nat
    <2>1. /\ idx \in Nat /\ idx <= BufSize - 1
          /\ buf \in [0 .. BufSize - 1 -> (0 .. N) \X Nat]
      BY DEF IInv, Types
    <2>2. idx \in 0 .. BufSize - 1 /\ 0 \in 0 .. BufSize - 1 /\ 0 \in 0 .. N
      BY <1>2, <2>1
    <2> QED BY <2>1, <2>2
  <1>5. /\ buf' \in [0 .. BufSize - 1 -> (0 .. N) \X Nat] /\ buf'[idx] = <<0, 0>>
        /\ \A i \in 0 .. BufSize - 1 : i # idx => buf'[i] = buf[i]
    BY <1>1, <1>4
  <1>6. PICK h \in 0 .. N, j \in Nat : buf'[0] = <<h, j>>
    <2>1. buf'[0] \in (0 .. N) \X Nat
      BY <1>4, <1>5
    <2> QED BY <2>1
  <1>7. /\ DOMAIN m_data' = Kinds
        /\ \A kind \in Kinds :
              m_data'[kind] = IF Fields[kind] # {} /\ h # 0 /\ j = 0 /\ line[h].kind = kind
                              THEN [from |-> h, value |-> [p \in Fields[kind] |-> buf'[p]]]
                              ELSE m_data[kind]
    <2>1. buf'[0][1] = h /\ buf'[0][2] = j
      BY <1>6
    <2> QED BY <1>1, <2>1 DEF gps_parse
  <1>8. h # 0 => h \in 1 .. N /\ idx > 0 /\ buf[0] = <<h, j>>
    <2> SUFFICES ASSUME h # 0 PROVE h \in 1 .. N /\ idx > 0 /\ buf[0] = <<h, j>>
      OBVIOUS
    <2>1. idx # 0
      BY <1>5, <1>6
    <2>2. h \in 1 .. N /\ idx > 0
      BY <1>2, <2>1
    <2> QED BY <1>4, <1>5, <1>6, <2>1, <2>2
  <1>9. ASSUME h # 0, j = 0, Whole(h), NEW p \in Nat, p < line[h].len
        PROVE  buf'[p] = <<h, p>>
    <2>1. h \in 1 .. N /\ idx > 0 /\ buf[0] = <<h, 0>>
      BY <1>8, <1>9
    <2>2. /\ h = N /\ k <= line[h].len => idx = k
          /\ h < N \/ k > line[h].len => idx >= line[h].len
          /\ \A i \in 0 .. idx - 1 : i < line[h].len => buf[i] = <<h, i>>
      BY <1>9, <2>1 DEF IInv, Collected
    <2>3. idx >= line[h].len
      BY <1>2, <1>3, <2>1, <2>2
    <2>4. p \in 0 .. idx - 1 /\ p \in 0 .. BufSize - 1 /\ p # idx
      <3>1. line[h].len \in Nat /\ idx <= BufSize - 1
        BY <1>2, <1>4, <2>1
      <3> QED BY <1>2, <1>9, <2>3, <3>1
    <2> QED BY <1>5, <1>9, <2>2, <2>4
  <1>10. ASSUME NEW kind \in Kinds, NEW l \in 1 .. N, m_data'[kind].from = l, Whole(l),
                NEW p \in Fields[kind], p < line[l].len
         PROVE  m_data'[kind].value[p] = <<l, p>>
    <2>1. CASE Fields[kind] # {} /\ h # 0 /\ j = 0 /\ line[h].kind = kind
      <3>1. m_data'[kind].from = h /\ m_data'[kind].value[p] = buf'[p]
        BY <1>7, <2>1
      <3>2. p \in Nat
        OBVIOUS
      <3> QED BY <1>9, <1>10, <2>1, <3>1, <3>2
    <2>2. CASE ~(Fields[kind] # {} /\ h # 0 /\ j = 0 /\ line[h].kind = kind)
      BY <1>7, <1>10, <2>2 DEF IInv, Genuine
    <2> QED BY <2>1, <2>2
  <1>11. ASSUME NEW kind \in Kinds PROVE m_data'[kind].from \in 0 .. N
    <2>1. CASE Fields[kind] # {} /\ h # 0 /\ j = 0 /\ line[h].kind = kind
      BY <1>7, <2>1
    <2>2. CASE ~(Fields[kind] # {} /\ h # 0 /\ j = 0 /\ line[h].kind = kind)
      BY <1>7, <2>2 DEF IInv, Types
    <2> QED BY <2>1, <2>2
  <1>12. CASE k <= line[N].len /\ k' = k + 1 /\ line' = line /\ N' = N
    <2>1. k = line[N].len
      BY <1>2, <1>3, <1>12
    <2>2. \A l \in 1 .. N : (Whole(l)' <=> Whole(l)) /\ (Ended(l)' <=> Ended(l))
      BY <1>1, <1>12 DEF Whole, Ended
    <2>3. Types'
      <3>1. k' \in Nat /\ k' <= line'[N'].len + 1
        BY <1>2, <1>12
      <3>2. idx' \in Nat /\ idx' <= BufSize - 1
        BY <1>1
      <3>3. /\ line' \in Seq(Lines) /\ N' >= 1 /\ DOMAIN m_data' = Kinds
            /\ \A kind \in Kinds : m_data'[kind].from \in 0 .. N'
        BY <1>7, <1>11, <1>12 DEF IInv, Types
      <3>4. buf' \in [0 .. BufSize - 1 -> (0 .. N') \X Nat]
        BY <1>5, <1>12
      <3> QED BY <3>1, <3>2, <3>3, <3>4 DEF Types
    <2>4. Collected' /\ Emptied'
      BY <1>1 DEF Collected, Emptied
    <2>5. Genuine'
      BY <1>10, <1>12, <2>2 DEF Genuine
    <2>6. InStep'
      <3> SUFFICES ASSUME NEW l \in (1 .. N - 1)',
                          ( /\ l + 1 = N /\ Ended(l) /\ line[N].len < BufSize
                            /\ \A i \in 0 .. k - 1 : <<N, i>> \notin lost )',
                          (Fields[line[N].kind] # {})'
                   PROVE  (k > line[N].len /\ m_data[line[N].kind].from = N)'
        <4>1. ~(k' <= line'[N'].len)
          BY <1>2, <1>12, <2>1
        <4> QED BY <1>2, <4>1 DEF InStep
      <3>1. /\ l \in 1 .. N - 1 /\ l + 1 = N /\ Ended(l) /\ line[N].len < BufSize
            /\ \A i \in 0 .. k - 1 : <<N, i>> \notin lost
        <4>1. l \in 1 .. N - 1 /\ l \in 1 .. N
          BY <1>2, <1>12
        <4>2. \A i \in 0 .. k - 1 : i \in 0 .. k' - 1
          BY <1>2, <1>12
        <4> QED BY <1>1, <1>12, <2>2, <4>1, <4>2
      <3>2. k > 0 /\ idx = k /\ buf[0] = <<N, 0>>
        BY <1>2, <2>1, <3>1 DEF IInv, InStep
      <3>3. h = N /\ j = 0
        <4>1. buf'[0] = buf[0]
          <5>1. 0 # idx
            BY <1>2, <3>2
          <5> QED BY <1>4, <1>5, <5>1
        <4> QED BY <1>6, <3>2, <4>1
      <3>4. m_data'[line[N].kind].from = N
        BY <1>2, <1>7, <1>12, <3>3
      <3>5. k' > line'[N'].len
        BY <1>2, <1>12, <2>1
      <3> QED BY <1>12, <3>4, <3>5
    <2> QED BY <2>3, <2>4, <2>5, <2>6 DEF IInv
  <1>13. CASE /\ k = line[N].len + 1 /\ k' = 0
              /\ line' \in Seq(Lines) /\ N' = N + 1
              /\ \A l \in 1 .. N : line'[l] = line[l]
              /\ line'[N + 1] \in Lines
    <2>1. line'[N + 1].len \in Nat /\ line'[N + 1].len > 0
      BY <1>13, LineTyped
    <2>2. \A l \in 1 .. N : Whole(l)' <=> Whole(l)
      BY <1>1, <1>13 DEF Whole
    <2>3. Types'
      <3>1. \A x \in (0 .. N) \X Nat : x \in (0 .. N') \X Nat
        BY <1>2, <1>13
      <3>2. buf' \in [0 .. BufSize - 1 -> (0 .. N') \X Nat]
        BY <1>5, <3>1
      <3>3. N' >= 1 /\ k' \in Nat /\ k' <= line'[N'].len + 1
        BY <1>2, <1>13, <2>1
      <3>4. \A kind \in Kinds : m_data'[kind].from \in 0 .. N'
        BY <1>2, <1>11, <1>13
      <3> QED BY <1>1, <1>7, <1>13, <3>2, <3>3, <3>4 DEF Types
    <2>4. Collected' /\ Emptied'
      BY <1>1 DEF Collected, Emptied
    <2>5. Genuine'
      <3> SUFFICES ASSUME NEW kind \in Kinds, NEW l \in (1 .. N)',
                          (m_data[kind].from = l)', Whole(l)',
                          NEW p \in Fields[kind], (p < line[l].len)'
                   PROVE  (m_data[kind].value[p] = <<l, p>>)'
        BY DEF Genuine
      <3>1. l \in 1 .. N
        BY <1>2, <1>11, <1>13
      <3> QED BY <1>10, <1>13, <2>2, <3>1
    <2>6. InStep'
      BY <1>1, <1>2, <1>13, <2>1 DEF InStep
    <2> QED BY <2>3, <2>4, <2>5, <2>6 DEF IInv
  <1> QED BY <1>1, <1>12, <1>13, Advanced DEF IInv

\* Every step.
LEMMA IInvNext == IInv /\ [GpsNext]_gpsVars => IInv'
  <1> SUFFICES ASSUME IInv, [GpsNext]_gpsVars PROVE IInv'
    OBVIOUS
  <1>1. CASE Receive
    BY <1>1, IInvCollect, IInvEnd
  <1>2. CASE Lose
    BY <1>2, IInvLose
  <1>3. CASE UNCHANGED gpsVars
    <2>1. /\ buf' = buf /\ idx' = idx /\ m_data' = m_data /\ line' = line
          /\ k' = k /\ lost' = lost /\ N' = N
      BY <1>3 DEF gpsVars, N
    <2>2. Types'
      BY <2>1 DEF IInv, Types
    <2>3. Collected' /\ Genuine'
      BY <2>1 DEF IInv, Collected, Genuine, Whole
    <2>4. Emptied' /\ InStep'
      BY <2>1 DEF IInv, Emptied, InStep, Ended
    <2> QED BY <2>2, <2>3, <2>4 DEF IInv
  <1> QED BY <1>1, <1>2, <1>3 DEF GpsNext

\* The invariant holds in every behaviour.
LEMMA IInvAlways == GpsSpec => []IInv
  BY IInvInit, IInvNext, PTL DEF GpsSpec

-----------------------------------------------------------------------------

\* The index never leaves the buffer, not even for the terminator, whatever
\* the length of the lines and of the buffer (gps.c, lines 64 to 73).
THEOREM StaysInBuffer == GpsSpec => []InBuffer
  <1>1. IInv => InBuffer
    BY GpsAssumption DEF IInv, Types, InBuffer
  <1> QED BY <1>1, IInvAlways, PTL

\* The fields taken from an undamaged message are its own, wherever the thread
\* started and whatever was lost around the message.
THEOREM FieldsAreGenuine == GpsSpec => []FieldsGenuine
  <1>1. ASSUME IInv PROVE FieldsGenuine
    <2> SUFFICES ASSUME NEW kind \in Kinds, m_data[kind].from # 0,
                        ~ \E i \in LostOf(m_data[kind].from) : i < line[m_data[kind].from].len
                 PROVE  \A p \in Fields[kind] : p < line[m_data[kind].from].len =>
                            m_data[kind].value[p] = <<m_data[kind].from, p>>
      BY DEF FieldsGenuine
    <2>1. PICK l \in 1 .. N : m_data[kind].from = l
      <3>1. m_data[kind].from \in 0 .. N /\ N \in Nat
        BY <1>1, LinesTyped DEF IInv, Types
      <3> QED BY <3>1
    <2>2. line[l].len \in Nat
      BY <1>1, LinesTyped DEF IInv
    <2>3. Whole(l)
      <3> SUFFICES ASSUME NEW i \in 0 .. line[l].len - 1, <<l, i>> \in lost PROVE FALSE
        BY DEF Whole
      <3>1. i \in 0 .. line[l].len + 1 /\ i < line[l].len
        BY <2>2
      <3> QED BY <2>1, <3>1 DEF LostOf
    <2> QED BY <1>1, <2>1, <2>3 DEF IInv, Genuine
  <1> QED BY <1>1, IInvAlways, PTL

\* A whole message behind a received end of line is always taken, whatever was
\* lost earlier: the receiver finds its way back by itself.
THEOREM GoodLinesTaken == GpsSpec => []GoodLineTaken
  <1>1. ASSUME IInv PROVE GoodLineTaken
    <2> SUFFICES ASSUME N > 1, k = line[N].len + 1, line[N].len < BufSize,
                        Fields[line[N].kind] # {}, LostOf(N) = {},
                        ~({line[N - 1].len, line[N - 1].len + 1} \subseteq LostOf(N - 1))
                 PROVE  m_data[line[N].kind].from = N
      BY DEF GoodLineTaken
    <2>1. /\ N \in Nat /\ N - 1 \in 1 .. N - 1 /\ (N - 1) + 1 = N
          /\ line[N].len \in Nat /\ line[N - 1].len \in Nat
      <3>1. N \in Nat /\ N >= 1 /\ \A l \in 1 .. N : line[l].len \in Nat
        BY <1>1, LinesTyped DEF IInv
      <3> QED BY <3>1
    <2>2. \A i \in 0 .. k - 1 : <<N, i>> \notin lost
      <3>1. k - 1 <= line[N].len + 1
        BY <2>1
      <3> QED BY <2>1, <3>1 DEF LostOf
    <2>3. Ended(N - 1)
      BY <2>1 DEF Ended, LostOf
    <2>4. k > line[N].len
      BY <2>1
    <2> QED BY <1>1, <2>1, <2>2, <2>3, <2>4 DEF IInv, InStep
  <1> QED BY <1>1, IInvAlways, PTL

-----------------------------------------------------------------------------
(* The power monitor.  The idea: when the second transfer of a channel     *)
(* starts and the first went well, that one was made in this round.        *)

ChanType == [shunt : Nat, bus : Nat, ret : BOOLEAN]

InaInv ==
    /\ round \in Nat \ {0}
    /\ chan \in ChanType
    /\ mon \in [ChannelSet -> [shunt : Nat, bus : Nat]]
    /\ ipc[1] = "bus" /\ ~chan.ret => chan.shunt = round
    /\ PairOfOneRound

\* After the first transfer of a channel.
LEMMA ShuntRead ==
    ASSUME chan \in ChanType, round \in Nat, NEW v \in {round, 0},
           chan' = [chan EXCEPT !.shunt = v, !.ret = (v = 0)]
    PROVE  chan' \in ChanType /\ chan'.shunt = v /\ (~chan'.ret => v = round)
  <1>1. CASE v = 0
    BY <1>1 DEF ChanType
  <1>2. CASE v # 0
    BY <1>2 DEF ChanType
  <1> QED BY <1>1, <1>2

\* After the second one, if b tells whether one of them failed.
LEMMA BusStored ==
    ASSUME NEW c \in ChanType, NEW v \in Nat, NEW b \in BOOLEAN,
           NEW d, d = [c EXCEPT !.bus = v, !.ret = b]
    PROVE  d \in ChanType /\ d.ret = b
  BY DEF ChanType

\* The initial state.
LEMMA InaInvInit == InaInit => InaInv
  BY DEF InaInit, InaInv, PairOfOneRound, ChanType

\* Every step keeps the invariant.
LEMMA InaInvNext == InaInv /\ [InaNext]_inaVars => InaInv'
  <1> SUFFICES ASSUME InaInv, [InaNext]_inaVars PROVE InaInv'
    OBVIOUS
  <1> USE DEF InaInv, PairOfOneRound, Goto
  <1>1. ASSUME NEW i \in 1 .. Len(Chips), Reset(i) \/ Config(i) \/ Verify(i)
        PROVE  InaInv'
    <2>1. ipc'[1] # "bus"
      <3>1. ASSUME Reset(i) PROVE ipc'[1] # "bus"
        BY <3>1 DEF Reset
      <3>2. ASSUME Config(i) PROVE ipc'[1] # "bus"
        BY <3>2 DEF Config
      <3>3. ASSUME Verify(i) PROVE ipc'[1] # "bus"
        BY <3>3 DEF Verify
      <3> QED BY <1>1, <3>1, <3>2, <3>3
    <2> QED BY <1>1, <2>1 DEF Reset, Config, Verify
  <1>2. ASSUME NEW i \in 1 .. Len(Channels), ReadShunt(i)
        PROVE  InaInv'
    <2>1. PICK v \in {round, 0} : chan' = [chan EXCEPT !.shunt = v, !.ret = (v = 0)]
      BY <1>2 DEF ReadShunt, Transfer
    <2>2. chan' \in ChanType /\ chan'.shunt = v /\ (~chan'.ret => v = round)
      BY <2>1, ShuntRead
    <2> QED BY <1>2, <2>2 DEF ReadShunt
  <1>3. ASSUME NEW i \in 1 .. Len(Channels), ReadBus(i)
        PROVE  InaInv'
    <2>1. PICK v \in {round, 0} :
             /\ chan' = [chan EXCEPT !.bus = v, !.ret = Failed(chan.ret, v)]
             /\ mon' = IF chan'.ret THEN mon
                       ELSE [mon EXCEPT ![Channels[i]] = [shunt |-> chan.shunt, bus |-> v]]
      BY <1>3 DEF ReadBus, Transfer
    <2>2. /\ ipc = <<"bus", i>> /\ round' = round
          /\ ipc' = IF i < Len(Channels) THEN <<"shunt", i + 1>> ELSE <<"sleep", 0>>
      BY <1>3 DEF ReadBus
    <2>3. /\ chan' \in ChanType
          /\ ~chan'.ret => chan.shunt = v
      <3>1. PICK b \in BOOLEAN : b = Failed(chan.ret, v)
        BY DEF Failed
      <3>2. chan' = [chan EXCEPT !.bus = v, !.ret = b]
        BY <2>1, <3>1, Zenon
      <3>3. chan' \in ChanType /\ chan'.ret = b
        <4>1. v \in Nat /\ chan \in ChanType
          OBVIOUS
        <4> QED BY <3>2, <4>1, BusStored
      <3>4. ASSUME ~b PROVE chan.shunt = v
        BY <2>2, <3>1, <3>4 DEF Failed
      <3> QED BY <3>3, <3>4
    <2>4. Channels[i] \in ChannelSet
      BY DEF ChannelSet
    <2>5. mon' \in [ChannelSet -> [shunt : Nat, bus : Nat]] /\ PairOfOneRound'
      <3>1. CASE chan'.ret
        BY <2>1, <3>1
      <3>2. CASE ~chan'.ret
        BY <2>1, <2>3, <2>4, <3>2
      <3> QED BY <3>1, <3>2
    <2> QED BY <2>2, <2>3, <2>5
  <1>4. CASE Sleep
    BY <1>4, InaAssumption DEF Sleep
  <1>5. CASE UNCHANGED inaVars
    BY <1>5 DEF inaVars
  <1> QED BY <1>1, <1>2, <1>3, <1>4, <1>5 DEF InaNext

\* For any chips and channels and whatever transfers fail: ina3221_update_chan
\* (ina3221.c:173-186) never publishes voltages of two rounds, or of a failed
\* transfer, as a pair.
THEOREM PairsOfOneRound == InaSpec => []PairOfOneRound
  <1>1. InaInv => PairOfOneRound
    BY DEF InaInv
  <1> QED BY <1>1, InaInvInit, InaInvNext, PTL DEF InaSpec

-----------------------------------------------------------------------------
(* The oscillator.  The idea: a count that the thread may still use was    *)
(* made with a tuning value at most two steps away from the present one,   *)
(* and two steps are less than one count.  So a count outside the dead     *)
(* band shows on which side of the nominal point the tuning value is.      *)

\* The range of the converter, with the nominal point not at its edge.
Range12 == {d \in Nat : d < 4096}
Tunable == Centre \in Step .. 4095 - Step

\* Count v is what the present tuning value gives, or one up to n steps away.
Shows(v, n) ==
    /\ v > 1
    /\ v > Nominal + 1 => dac_val >= Centre + PerCount - n * Step
    /\ v < Nominal - 1 => dac_val < Centre - PerCount + n * Step

Apart(a, b, n) == a <= b + n * Step /\ b <= a + n * Step

Moved(n) == Apart(then, dac_val, n)
Counted  == ocxo_cntr[0] # -1

Within(dac) == /\ dac <= Centre + Step \/ dac <= Start
               /\ dac >= Centre - Step \/ dac >= Start

OcxoTypes ==
    /\ ocxo_cntr \in [Slots -> Int] /\ cntr_i \in Slots
    /\ out_ocxo_cntr \in Int /\ r0 \in Int /\ r1 \in Int
    /\ dac_val \in UInt16 /\ then \in UInt16 /\ bad \in Nat
    /\ pc \in {"top", "second", "take", "mark", "adjust", "sleep"}

\* At most one step of the present and one of the last second, or both of
\* them after a step that no count has followed yet.
Recent ==
    /\ pc \in {"top", "sleep"} => Moved(IF Counted THEN 1 ELSE 2)
    /\ pc \in {"second", "take", "mark"} => Moved(1)
    /\ pc = "adjust" => Moved(IF Counted THEN 0 ELSE 1)

\* The first counter was written since the last step but one.
Fresh ==
    /\ ocxo_cntr[1] >= 1
    /\ pc \in {"top", "sleep"} => ocxo_cntr[0] \in {-1, 0} \/ Shows(ocxo_cntr[0], 2)
    /\ pc \in {"second", "take", "mark"} => Shows(ocxo_cntr[0], 2)
    /\ pc \in {"second", "take"} => Shows(r0, 2)
    /\ pc \in {"mark", "adjust"} => Shows(out_ocxo_cntr, 2)
    /\ pc = "adjust" => ocxo_cntr[0] = -1 \/ Shows(ocxo_cntr[0], 1)

OcxoInv ==
    /\ OcxoTypes
    /\ bad = 0 => Recent /\ Fresh /\ Within(dac_val) /\ Within(then)

\* The quotient of a division that rounds down (also of a negative number).
LEMMA Quotient ==
    ASSUME NEW x \in Int, NEW p \in Nat, p >= 1
    PROVE  x \div p \in Int /\ p * (x \div p) <= x /\ x < p * ((x \div p) + 1)
  OBVIOUS

\* How the deviation follows the tuning value.
LEMMA DeviationBounds ==
    ASSUME NEW dac \in Range12
    PROVE  /\ Deviation(dac) \in Int
           /\ PerCount * Deviation(dac) <= dac - Centre
           /\ dac - Centre < PerCount * (Deviation(dac) + 1)
  <1>0. dac \in Nat /\ dac < 4096
    BY DEF Range12
  <1>1. dac % 4096 = dac
    BY <1>0
  <1>2. Centre \in Int
    BY OcxoAssumption DEF UInt16
  <1>3. PerCount \in Nat /\ PerCount >= 20
    BY OcxoAssumption DEF Step
  <1>4. dac - Centre \in Int
    BY <1>0, <1>2
  <1>5. Deviation(dac) = (dac - Centre) \div PerCount
    BY <1>1 DEF Deviation
  <1>6. PerCount >= 1
    BY <1>3
  <1> QED BY <1>3, <1>4, <1>5, <1>6, Quotient

\* Numbers in the same order have multiples in the same order.
LEMMA Multiples ==
    ASSUME NEW p \in Nat, NEW n \in Int, NEW m \in Int, n <= m
    PROVE  p * n <= p * m
  OBVIOUS

\* What the proofs need to know of the constants.
LEMMA OcxoConstants ==
    /\ Centre \in Nat
    /\ PerCount \in Nat /\ PerCount >= 20
    /\ Tunable => Centre >= 10 /\ Centre <= 4085
  <1>1. Centre \in Nat
    BY OcxoAssumption DEF UInt16
  <1>2. PerCount \in Nat /\ PerCount >= 20
    BY OcxoAssumption DEF Step
  <1>3. ASSUME Tunable PROVE Centre >= 10 /\ Centre <= 4085
    BY <1>3 DEF Tunable, Step
  <1> QED BY <1>1, <1>2, <1>3

\* What a deviation outside the dead band says of the tuning value.
LEMMA DeviationSide ==
    ASSUME Tunable, NEW dac \in Range12
    PROVE  /\ Deviation(dac) \in Int
           /\ Deviation(dac) >= 1 => dac >= Centre + PerCount
           /\ Deviation(dac) <= -2 => dac < Centre - PerCount
           /\ Deviation(dac) > -5000
  <1> DEFINE d == Deviation(dac)
  <1>1. d \in Int /\ PerCount * d <= dac - Centre /\ dac - Centre < PerCount * (d + 1)
    BY DeviationBounds
  <1>0. dac \in Nat
    BY DEF Range12
  <1> HIDE DEF d
  <1>2. ASSUME d >= 1 PROVE dac >= Centre + PerCount
    <2>1. PerCount * 1 <= PerCount * d
      BY <1>1, <1>2, OcxoConstants, Multiples
    <2> QED BY <1>0, <1>1, <2>1, OcxoConstants
  <1>3. ASSUME d <= -2 PROVE dac < Centre - PerCount
    <2>1. PerCount * (d + 1) <= PerCount * (-1)
      <3>1. d + 1 \in Int /\ -1 \in Int /\ d + 1 <= -1
        BY <1>1, <1>3
      <3> QED BY <3>1, OcxoConstants, Multiples
    <2> QED BY <1>0, <1>1, <2>1, OcxoConstants
  <1>4. ASSUME d <= -5000 PROVE FALSE
    <2>1. PerCount * (d + 1) <= PerCount * (-4999)
      <3>1. d + 1 \in Int /\ -4999 \in Int /\ d + 1 <= -4999
        BY <1>1, <1>4
      <3> QED BY <3>1, OcxoConstants, Multiples
    <2> QED BY <1>0, <1>1, <2>1, OcxoConstants
  <1>5. d > -5000
    BY <1>1, <1>4
  <1> QED BY <1>1, <1>2, <1>3, <1>5 DEF d

\* A higher tuning value never gives a lower count.
LEMMA DeviationGrows ==
    ASSUME NEW lo \in Range12, NEW hi \in Range12, lo <= hi
    PROVE  Deviation(lo) <= Deviation(hi)
  <1> DEFINE d == Deviation(lo)
             e == Deviation(hi)
  <1>1. d \in Int /\ PerCount * d <= lo - Centre
    BY DeviationBounds
  <1>2. e \in Int /\ hi - Centre < PerCount * (e + 1)
    BY DeviationBounds
  <1>0. lo \in Nat /\ hi \in Nat
    BY DEF Range12
  <1> HIDE DEF d, e
  <1>3. ASSUME d > e PROVE FALSE
    <2>1. PerCount * (e + 1) <= PerCount * d
      <3>1. e + 1 \in Int /\ e + 1 <= d
        BY <1>1, <1>2, <1>3
      <3> QED BY <1>1, <3>1, OcxoConstants, Multiples
    <2> QED BY <1>0, <1>1, <1>2, <2>1, OcxoConstants
  <1>4. d <= e
    BY <1>1, <1>2, <1>3
  <1> QED BY <1>4 DEF d, e

\* Within one step of the nominal point the deviation is in the dead band.
LEMMA DeviationNear ==
    ASSUME NEW dac \in Range12
    PROVE  /\ dac >= Centre => Deviation(dac) >= 0
           /\ dac < Centre => Deviation(dac) <= -1
           /\ dac < Centre + 20 => Deviation(dac) <= 0
           /\ dac >= Centre - 20 => Deviation(dac) >= -1
  <1> DEFINE d == Deviation(dac)
  <1>1. d \in Int /\ PerCount * d <= dac - Centre /\ dac - Centre < PerCount * (d + 1)
    BY DeviationBounds
  <1>0. dac \in Nat
    BY DEF Range12
  <1> HIDE DEF d
  <1>2. ASSUME NEW n \in Int, d <= n PROVE PerCount * (d + 1) <= PerCount * (n + 1)
    <2>1. d + 1 \in Int /\ n + 1 \in Int /\ d + 1 <= n + 1
      BY <1>1, <1>2
    <2> QED BY <2>1, OcxoConstants, Multiples
  <1>3. ASSUME NEW n \in Int, d >= n PROVE PerCount * n <= PerCount * d
    BY <1>1, <1>3, OcxoConstants, Multiples
  <1>4. ASSUME dac >= Centre PROVE d >= 0
    <2>1. ASSUME d <= -1 PROVE FALSE
      <3>1. PerCount * (d + 1) <= PerCount * (-1 + 1)
        BY <1>2, <2>1
      <3> QED BY <1>0, <1>1, <1>4, <3>1, OcxoConstants
    <2> QED BY <1>1, <2>1
  <1>5. ASSUME dac < Centre PROVE d <= -1
    <2>1. ASSUME d >= 0 PROVE FALSE
      <3>1. PerCount * 0 <= PerCount * d
        BY <1>3, <2>1
      <3> QED BY <1>0, <1>1, <1>5, <3>1, OcxoConstants
    <2> QED BY <1>1, <2>1
  <1>6. ASSUME dac < Centre + 20 PROVE d <= 0
    <2>1. ASSUME d >= 1 PROVE FALSE
      <3>1. PerCount * 1 <= PerCount * d
        BY <1>3, <2>1
      <3> QED BY <1>0, <1>1, <1>6, <3>1, OcxoConstants
    <2> QED BY <1>1, <2>1
  <1>7. ASSUME dac >= Centre - 20 PROVE d >= -1
    <2>1. ASSUME d <= -2 PROVE FALSE
      <3>1. PerCount * (d + 1) <= PerCount * (-2 + 1)
        BY <1>2, <2>1
      <3> QED BY <1>0, <1>1, <1>7, <3>1, OcxoConstants
    <2> QED BY <1>1, <2>1
  <1> QED BY <1>4, <1>5, <1>6, <1>7 DEF d

\* A value within the bounds is in the range of the converter.
LEMMA WithinRange ==
    ASSUME Tunable, NEW dac \in Nat, Within(dac)
    PROVE  dac \in Range12
  BY OcxoConstants DEF Within, Range12, Step, Start

\* The bounds on the distance from the last pulse, one by one.
LEMMA MovedLess ==
    ASSUME OcxoTypes
    PROVE  /\ then \in Nat /\ dac_val \in Nat
           /\ Moved(0) => Moved(1)
           /\ Moved(1) => Moved(2)
  <1>1. then \in Nat /\ dac_val \in Nat
    BY DEF OcxoTypes, UInt16
  <1> QED BY <1>1 DEF Moved, Apart, Step

\* A count that is right for some value is right for more of them.
LEMMA ShowsMore ==
    ASSUME OcxoTypes, NEW v \in Int
    PROVE  Shows(v, 1) => Shows(v, 2)
  <1>1. dac_val \in Nat
    BY MovedLess
  <1> QED BY <1>1, OcxoConstants DEF Shows, Step

\* A right count of the second that ends now.
LEMMA CountShows ==
    ASSUME Tunable, OcxoTypes, dac_val \in Range12, then \in Range12,
           NEW n \in {1, 2}, Moved(n),
           NEW count \in Counts(then) \cup Counts(dac_val)
    PROVE  count \in Int /\ Shows(count, n)
  <1>1. PICK dac \in {then, dac_val} :
           count = Nominal + Deviation(dac) \/ count = Nominal + Deviation(dac) + 1
    BY DEF Counts
  <1>2. dac \in Range12
    BY <1>1
  <1> DEFINE d == Deviation(dac)
  <1>3. /\ d \in Int
        /\ d >= 1 => dac >= Centre + PerCount
        /\ d <= -2 => dac < Centre - PerCount
        /\ d > -5000
    BY <1>2, DeviationSide
  <1>4. then \in Nat /\ dac_val \in Nat
    BY MovedLess
  <1>5. dac \in Nat /\ dac - dac_val <= n * 10 /\ dac_val - dac <= n * 10
    <2>1. CASE n = 1
      BY <1>1, <1>4, <2>1 DEF Moved, Apart, Step
    <2>2. CASE n = 2
      BY <1>1, <1>4, <2>2 DEF Moved, Apart, Step
    <2> QED BY <2>1, <2>2
  <1>6. count = Nominal + d \/ count = Nominal + d + 1
    BY <1>1
  <1> HIDE DEF d
  <1>7. count \in Int /\ count > 1
    BY <1>3, <1>6 DEF Nominal
  <1>8. ASSUME count > Nominal + 1 PROVE dac_val >= Centre + PerCount - n * Step
    <2>1. d >= 1
      BY <1>3, <1>6, <1>8 DEF Nominal
    <2> QED BY <1>3, <1>4, <1>5, <2>1, OcxoConstants DEF Step
  <1>9. ASSUME count < Nominal - 1 PROVE dac_val < Centre - PerCount + n * Step
    <2>1. d <= -2
      BY <1>3, <1>6, <1>9 DEF Nominal
    <2> QED BY <1>3, <1>4, <1>5, <2>1, OcxoConstants DEF Step
  <1> QED BY <1>7, <1>8, <1>9 DEF Shows

\* The counters start with three numbers that are no counts.
LEMMA OcxoInvInit == Tunable /\ Init => OcxoInv
  <1> SUFFICES ASSUME Tunable, Init PROVE OcxoInv
    OBVIOUS
  <1>1. /\ ocxo_cntr \in [Slots -> Int] /\ ocxo_cntr[0] = 0 /\ ocxo_cntr[1] = 1
        /\ cntr_i \in Slots /\ pc = "top"
    BY DEF Init, Slots
  <1>2. dac_val = 2050 /\ then = 2050
    BY DEF Init, Start
  <1>3. OcxoTypes
    BY <1>1, <1>2 DEF Init, OcxoTypes, UInt16, UINT16_MAX
  <1>4. Recent
    BY <1>1, <1>2 DEF Recent, Moved, Apart, Counted, Step
  <1>5. Fresh
    BY <1>1 DEF Fresh
  <1>6. Within(dac_val) /\ Within(then)
    BY <1>2 DEF Within, Start
  <1> QED BY <1>3, <1>4, <1>5, <1>6 DEF OcxoInv

\* A pulse, right or wrong, stores a number.
LEMMA StoreTypes ==
    ASSUME OcxoTypes, NEW count \in Int, Store(count), bad' \in Nat
    PROVE  /\ OcxoTypes'
           /\ ocxo_cntr'[0] = IF cntr_i = 0 THEN count ELSE ocxo_cntr[0]
           /\ ocxo_cntr'[1] = IF cntr_i = 1 THEN count ELSE ocxo_cntr[1]
  <1>1. cntr_i \in {0, 1, 2} /\ cntr_i' = (cntr_i + 1) % 3
    BY DEF OcxoTypes, Slots, Store
  <1>2. cntr_i' \in Slots
    BY <1>1 DEF Slots
  <1> QED BY <1>1, <1>2 DEF OcxoTypes, Slots, Store

\* A count is a number, whatever the tuning value.
LEMMA CountTypes ==
    ASSUME Tunable, NEW dac \in UInt16, NEW count \in Counts(dac)
    PROVE  count \in Int
  <1>1. dac % 4096 \in Int
    BY DEF UInt16
  <1>2. (dac % 4096) - Centre \in Int
    BY <1>1, OcxoConstants
  <1>3. Deviation(dac) \in Int
    BY <1>2, OcxoConstants, Quotient DEF Deviation
  <1> QED BY <1>3 DEF Counts, Nominal

\* exti_cb: the new count is right for the present tuning value.
LEMMA PulseInv ==
    ASSUME Tunable, OcxoInv, Pulse
    PROVE  OcxoInv'
  <1>1. PICK count \in Counts(then) \cup Counts(dac_val) : Store(count)
    BY DEF Pulse
  <1>2. OcxoTypes /\ bad' = bad /\ bad \in Nat
    BY DEF OcxoInv, OcxoTypes, Pulse
  <1>3. count \in Int
    BY <1>1, <1>2, CountTypes DEF OcxoTypes
  <1>4. /\ OcxoTypes'
        /\ ocxo_cntr'[0] = IF cntr_i = 0 THEN count ELSE ocxo_cntr[0]
        /\ ocxo_cntr'[1] = IF cntr_i = 1 THEN count ELSE ocxo_cntr[1]
    BY <1>1, <1>2, <1>3, StoreTypes
  <1>5. /\ pc' = pc /\ r0' = r0 /\ r1' = r1 /\ out_ocxo_cntr' = out_ocxo_cntr
        /\ dac_val' = dac_val /\ then' = dac_val
    BY <1>1 DEF Store
  <1>6. ASSUME bad = 0
        PROVE  (Recent /\ Fresh /\ Within(dac_val) /\ Within(then))'
    <2>1. Recent /\ Fresh /\ Within(dac_val) /\ Within(then)
      BY <1>6 DEF OcxoInv
    <2>2. /\ then \in Nat /\ dac_val \in Nat
          /\ Moved(0) => Moved(1)
          /\ Moved(1) => Moved(2)
      BY <1>2, MovedLess
    <2>3. dac_val \in Range12 /\ then \in Range12
      BY <2>1, <2>2, WithinRange
    <2>4. Recent'
      BY <1>5, <2>2 DEF Recent, Moved, Apart, Counted, Step
    <2>5. ASSUME NEW n \in {1, 2}, Moved(n) PROVE Shows(count, n)
      BY <1>1, <1>2, <2>3, <2>5, CountShows
    <2>6. Shows(count, 1) => Shows(count, 2)
      BY <1>2, <1>3, ShowsMore
    <2>7. Moved(1) \/ Moved(2) => Shows(count, 2) /\ count >= 1
      BY <1>3, <2>5, <2>6 DEF Shows
    <2>8. Fresh'
      <3>1. CASE pc \in {"top", "sleep"}
        BY <1>4, <1>5, <2>1, <2>2, <2>7, <3>1 DEF Fresh, Recent, Shows
      <3>2. CASE pc \in {"second", "take", "mark"}
        BY <1>4, <1>5, <2>1, <2>2, <2>7, <3>2 DEF Fresh, Recent, Shows
      <3>3. CASE pc = "adjust"
        <4>1. Moved(1)
          BY <2>1, <2>2, <3>3 DEF Recent
        <4> QED BY <1>4, <1>5, <2>1, <2>5, <2>7, <3>3, <4>1 DEF Fresh, Shows
      <3> QED BY <1>2, <3>1, <3>2, <3>3 DEF OcxoTypes
    <2>9. Within(dac_val)' /\ Within(then)'
      BY <1>5, <2>1 DEF Within
    <2> QED BY <2>4, <2>8, <2>9
  <1> QED BY <1>2, <1>4, <1>6 DEF OcxoInv

\* After a wrong count nothing but the types is claimed.
LEMMA BadPulseInv ==
    ASSUME OcxoInv, BadPulse
    PROVE  OcxoInv'
  <1>1. PICK count \in BadCounts : Store(count)
    BY DEF BadPulse
  <1>2. OcxoTypes /\ bad' \in Nat /\ bad' # 0
    BY DEF OcxoInv, OcxoTypes, BadPulse
  <1>3. count \in Int
    BY <1>1, OcxoAssumption
  <1>4. OcxoTypes'
    BY <1>1, <1>2, <1>3, StoreTypes
  <1> QED BY <1>2, <1>4 DEF OcxoInv

\* The thread up to the step: what it goes on with is a count it has read.
LEMMA ReadInv ==
    ASSUME OcxoInv, CompareFirst \/ CompareSecond \/ Take \/ Mark \/ Wake
    PROVE  OcxoInv'
  <1>1. dac_val' = dac_val /\ then' = then /\ bad' = bad /\ OcxoTypes
    BY DEF OcxoInv, CompareFirst, CompareSecond, Take, Mark, Wake
  <1>2. OcxoTypes'
    <2>1. cntr_i' = cntr_i /\ ocxo_cntr' \in [Slots -> Int]
      BY <1>1 DEF OcxoTypes, CompareFirst, CompareSecond, Take, Mark, Wake
    <2>2. ocxo_cntr[0] \in Int /\ ocxo_cntr[1] \in Int
      BY <1>1 DEF OcxoTypes, Slots
    <2>3. out_ocxo_cntr' \in Int /\ r0' \in Int /\ r1' \in Int
      BY <1>1, <2>2 DEF OcxoTypes, CompareFirst, CompareSecond, Take, Mark, Wake
    <2>4. pc' \in {"top", "second", "take", "mark", "adjust", "sleep"}
      BY DEF CompareFirst, CompareSecond, Take, Mark, Wake, Jump
    <2> QED BY <1>1, <2>1, <2>3, <2>4 DEF OcxoTypes
  <1>3. ASSUME bad = 0
        PROVE  (Recent /\ Fresh /\ Within(dac_val) /\ Within(then))'
    <2>1. Recent /\ Fresh /\ Within(dac_val) /\ Within(then)
      BY <1>3 DEF OcxoInv
    <2>2. Moved(1) => Moved(2)
      BY <1>1, MovedLess
    <2>3. ASSUME NEW n \in {0, 1, 2} PROVE Moved(n)' <=> Moved(n)
      BY <1>1 DEF Moved
    <2>4. ocxo_cntr[0] \in Int /\ ocxo_cntr[1] \in Int
      BY <1>1 DEF OcxoTypes, Slots
    <2>5. CASE CompareFirst
      <3>1. ocxo_cntr' = ocxo_cntr /\ r0' = ocxo_cntr[0] /\ pc = "top"
        BY <2>5 DEF CompareFirst, Jump
      <3>2. CASE ocxo_cntr[0] = ocxo_cntr[1]
        <4>1. pc' = "second"
          BY <2>5, <3>2 DEF CompareFirst, Jump
        <4>2. ocxo_cntr[0] \notin {-1, 0}
          BY <2>1, <2>4, <3>2 DEF Fresh
        <4>3. Recent'
          BY <2>1, <2>3, <3>1, <4>1, <4>2 DEF Recent, Counted
        <4>4. Fresh'
          BY <1>1, <2>1, <3>1, <4>1, <4>2 DEF Fresh, Shows
        <4> QED BY <1>1, <2>1, <4>3, <4>4 DEF Within
      <3>3. CASE ocxo_cntr[0] # ocxo_cntr[1]
        <4>1. pc' = "sleep"
          BY <2>5, <3>3 DEF CompareFirst, Jump
        <4>2. Recent'
          BY <2>1, <2>3, <3>1, <4>1 DEF Recent, Counted
        <4>3. Fresh'
          BY <1>1, <2>1, <3>1, <4>1 DEF Fresh, Shows
        <4> QED BY <1>1, <2>1, <4>2, <4>3 DEF Within
      <3> QED BY <3>2, <3>3
    <2>6. CASE CompareSecond
      <3>1. /\ ocxo_cntr' = ocxo_cntr /\ r0' = r0
            /\ pc = "second" /\ pc' \in {"take", "sleep"}
        BY <2>6 DEF CompareSecond, Jump
      <3>2. Recent'
        BY <2>1, <2>2, <2>3, <3>1 DEF Recent, Counted
      <3>3. Fresh'
        BY <1>1, <2>1, <3>1 DEF Fresh, Shows
      <3> QED BY <1>1, <2>1, <3>2, <3>3 DEF Within
    <2>7. CASE Take
      <3>1. /\ ocxo_cntr' = ocxo_cntr /\ out_ocxo_cntr' \in {r0, ocxo_cntr[0]}
            /\ pc = "take" /\ pc' = "mark"
        BY <2>7 DEF Take, Jump
      <3>2. Recent'
        BY <2>1, <2>3, <3>1 DEF Recent, Counted
      <3>3. Fresh'
        BY <1>1, <2>1, <3>1 DEF Fresh, Shows
      <3> QED BY <1>1, <2>1, <3>2, <3>3 DEF Within
    <2>8. CASE Mark
      <3>1. /\ ocxo_cntr'[0] = -1 /\ ocxo_cntr'[1] = ocxo_cntr[1]
            /\ out_ocxo_cntr' = out_ocxo_cntr
            /\ pc = "mark" /\ pc' = "adjust"
        BY <1>1, <2>8 DEF Mark, Jump, OcxoTypes, Slots
      <3>2. Recent'
        BY <2>1, <2>3, <3>1 DEF Recent, Counted
      <3>3. Fresh'
        BY <1>1, <2>1, <3>1 DEF Fresh, Shows
      <3> QED BY <1>1, <2>1, <3>2, <3>3 DEF Within
    <2>9. CASE Wake
      <3>1. ocxo_cntr' = ocxo_cntr /\ pc = "sleep" /\ pc' = "top"
        BY <2>9 DEF Wake, Jump
      <3>2. Recent'
        BY <2>1, <2>3, <3>1 DEF Recent, Counted
      <3>3. Fresh'
        BY <1>1, <2>1, <3>1 DEF Fresh, Shows
      <3> QED BY <1>1, <2>1, <3>2, <3>3 DEF Within
    <2> QED BY <2>5, <2>6, <2>7, <2>8, <2>9
  <1> QED BY <1>1, <1>2, <1>3 DEF OcxoInv

\* The step goes towards the nominal point.
LEMMA AdjustStep ==
    ASSUME Tunable, OcxoInv, bad = 0, Adjust
    PROVE  /\ dac_val \in Range12
           /\ \/ dac_val' = dac_val
              \/ dac_val >= Centre /\ dac_val' = dac_val - 10
              \/ dac_val < Centre /\ dac_val' = dac_val + 10
  <1>1. /\ dac_val \in Nat /\ out_ocxo_cntr \in Int /\ Within(dac_val)
        /\ Shows(out_ocxo_cntr, 2)
    BY DEF OcxoInv, OcxoTypes, UInt16, Fresh, Adjust, Jump
  <1>2. dac_val \in Range12 /\ dac_val < 4096
    BY <1>1, WithinRange DEF Range12
  <1>3. CASE out_ocxo_cntr > 20000001
    <2>1. dac_val >= Centre
      BY <1>1, <1>3, OcxoConstants DEF Shows, Nominal, Step
    <2>2. (dac_val - 10) % 65536 = dac_val - 10
      BY <1>1, <1>2, <2>1, OcxoConstants
    <2> QED BY <1>2, <1>3, <2>1, <2>2 DEF Adjust, NewDac, ToUInt16, Step
  <1>4. CASE out_ocxo_cntr < 19999999
    <2>1. dac_val < Centre
      BY <1>1, <1>4, OcxoConstants DEF Shows, Nominal, Step
    <2>2. (dac_val + 10) % 65536 = dac_val + 10
      BY <1>1, <1>2, <2>1, OcxoConstants
    <2> QED BY <1>1, <1>2, <1>4, <2>1, <2>2 DEF Adjust, NewDac, ToUInt16, Step
  <1>5. CASE ~(out_ocxo_cntr > 20000001) /\ ~(out_ocxo_cntr < 19999999)
    BY <1>2, <1>5 DEF Adjust, NewDac
  <1> QED BY <1>3, <1>4, <1>5

\* A step adds at most its size to a distance.
LEMMA StepTaken ==
    ASSUME NEW a \in Nat, NEW b \in Nat, NEW t \in Nat, NEW c \in Nat,
           b = a \/ (a >= c /\ b = a - 10) \/ (a < c /\ b = a + 10)
    PROVE  /\ Apart(t, a, 0) => Apart(t, b, 1)
           /\ Apart(t, a, 1) => Apart(t, b, 2)
  BY DEF Apart, Step

\* The narrowing conversion yields a value of its type.
LEMMA NarrowTypes == \A x \in Int : ToUInt16(x) \in UInt16
  <1>1. \A x \in Int : ToUInt16(x) \in Nat /\ ToUInt16(x) <= 65535
    BY DEF ToUInt16
  <1>2. UINT16_MAX \in Nat /\ UINT16_MAX = 65535
    BY DEF UINT16_MAX
  <1>3. \A y \in Nat : y <= UINT16_MAX => y \in UInt16
    <2>1. UINT16_MAX \in Nat
      BY <1>2
    <2> QED BY <2>1 DEF UInt16
  <1> QED BY <1>1, <1>2, <1>3

\* The step: what was one step old before is two steps old now.
LEMMA AdjustInv ==
    ASSUME Tunable, OcxoInv, Adjust
    PROVE  OcxoInv'
  <1>1. /\ OcxoTypes /\ pc = "adjust" /\ pc' = "sleep" /\ ocxo_cntr' = ocxo_cntr
        /\ out_ocxo_cntr' = out_ocxo_cntr /\ r0' = r0 /\ r1' = r1
        /\ then' = then /\ bad' = bad /\ cntr_i' = cntr_i
    BY DEF OcxoInv, Adjust, Jump
  <1>2. dac_val' \in UInt16
    <2>1. dac_val \in Nat
      BY <1>1 DEF OcxoTypes, UInt16
    <2>2. dac_val - Step \in Int /\ dac_val + Step \in Int
      BY <2>1 DEF Step
    <2>3. ToUInt16(dac_val - Step) \in UInt16 /\ ToUInt16(dac_val + Step) \in UInt16
      BY <2>2, NarrowTypes
    <2> QED BY <1>1, <2>3 DEF Adjust, NewDac, OcxoTypes
  <1>3. OcxoTypes'
    BY <1>1, <1>2 DEF OcxoTypes
  <1>4. ASSUME bad = 0
        PROVE  (Recent /\ Fresh /\ Within(dac_val) /\ Within(then))'
    <2>1. Recent /\ Fresh /\ Within(dac_val) /\ Within(then)
      BY <1>4 DEF OcxoInv
    <2>2. /\ then \in Nat /\ dac_val \in Nat /\ dac_val' \in Nat
      BY <1>1, <1>2, MovedLess DEF UInt16
    <2>3. \/ dac_val' = dac_val
          \/ dac_val >= Centre /\ dac_val' = dac_val - 10
          \/ dac_val < Centre /\ dac_val' = dac_val + 10
      BY <1>4, AdjustStep
    <2>4. Recent'
      <3>1. then' = then
        BY <1>1
      <3>2. /\ Apart(then, dac_val, 0) => Apart(then, dac_val', 1)
            /\ Apart(then, dac_val, 1) => Apart(then, dac_val', 2)
        <4>1. Centre \in Nat
          BY OcxoConstants
        <4> QED BY <2>2, <2>3, <4>1, StepTaken
      <3>3. /\ Moved(0) => Moved(1)'
            /\ Moved(1) => Moved(2)'
        BY <3>1, <3>2 DEF Moved
      <3> QED BY <1>1, <2>1, <3>3 DEF Recent, Counted
    <2>5. Fresh'
      <3>1. ocxo_cntr[0] \in Int
        BY <1>1 DEF OcxoTypes, Slots
      <3>2. Shows(ocxo_cntr[0], 1) => Shows(ocxo_cntr[0], 2)'
        BY <1>1, <2>2, <2>3, <3>1, OcxoConstants DEF Shows, Step
      <3> QED BY <1>1, <2>1, <3>2 DEF Fresh
    <2>6. Within(dac_val)' /\ Within(then)'
      BY <1>1, <2>1, <2>2, <2>3, OcxoConstants DEF Within, Step, Start
    <2> QED BY <2>4, <2>5, <2>6
  <1> QED BY <1>1, <1>3, <1>4 DEF OcxoInv

\* Every step of the thread and of the interrupt.
LEMMA OcxoInvNext ==
    ASSUME Tunable, OcxoInv, [Next]_vars
    PROVE  OcxoInv'
  <1>1. CASE CompareFirst \/ CompareSecond \/ Take \/ Mark \/ Wake
    BY <1>1, ReadInv
  <1>2. CASE Adjust
    BY <1>2, AdjustInv
  <1>3. CASE Pulse
    BY <1>3, PulseInv
  <1>4. CASE BadPulse
    BY <1>4, BadPulseInv
  <1>5. CASE UNCHANGED vars
    <2>1. /\ ocxo_cntr' = ocxo_cntr /\ cntr_i' = cntr_i /\ pc' = pc
          /\ out_ocxo_cntr' = out_ocxo_cntr /\ r0' = r0 /\ r1' = r1
          /\ dac_val' = dac_val /\ then' = then /\ bad' = bad
      BY <1>5 DEF vars
    <2>2. OcxoTypes <=> OcxoTypes'
      BY <2>1 DEF OcxoTypes
    <2>3. Recent <=> Recent'
      BY <2>1 DEF Recent, Moved, Counted
    <2>4. Fresh <=> Fresh'
      BY <2>1 DEF Fresh, Shows
    <2>5. (Within(dac_val) <=> Within(dac_val')) /\ (Within(then) <=> Within(then'))
      BY <2>1
    <2>6. Within(dac_val)' = Within(dac_val') /\ Within(then)' = Within(then')
      BY DEF Within
    <2> QED BY <2>1, <2>2, <2>3, <2>4, <2>5, <2>6 DEF OcxoInv
  <1> QED BY <1>1, <1>2, <1>3, <1>4, <1>5 DEF Next, Thread

\* For every slope and every nominal point in the range of the converter: as
\* long as no count is wrong, the unlimited dac_val (ocxo.c:49-53) goes at most
\* one step beyond the nominal point, whenever the interrupt comes.
THEOREM DacNeverOvershoots == Tunable => (Spec => []NoOvershoot)
  <1> SUFFICES ASSUME Tunable PROVE Spec => []NoOvershoot
    OBVIOUS
  <1>1. OcxoInv => NoOvershoot
    BY DEF OcxoInv, NoOvershoot, Within
  <1>2. Init => OcxoInv
    BY OcxoInvInit
  <1>3. OcxoInv /\ [Next]_vars => OcxoInv'
    BY OcxoInvNext
  <1> QED BY <1>1, <1>2, <1>3, PTL DEF Spec

\* For every slope and nominal point likewise: no step of the thread takes the
\* frequency further away, unless it ends within the dead band, although the
\* interrupt (ocxo.c:63-72) may replace a counter between any two accesses.
THEOREM StepsNeverWorse == Tunable => (Spec => NeverWorse)
  <1> SUFFICES ASSUME Tunable PROVE Spec => NeverWorse
    OBVIOUS
  <1> DEFINE Better == \/ abs(Deviation(dac_val')) <= abs(Deviation(dac_val))
                       \/ Locked'
  <1>1. ASSUME OcxoInv, OcxoInv', [Next]_vars, bad' = 0
        PROVE  Better
    <2>1. bad = 0
      <3>1. bad \in Nat
        BY <1>1 DEF OcxoInv, OcxoTypes
      <3>2. CASE Thread
        BY <1>1, <3>2 DEF Thread, CompareFirst, CompareSecond, Take, Mark, Adjust, Wake
      <3>3. CASE Pulse
        BY <1>1, <3>3 DEF Pulse
      <3>4. CASE BadPulse
        BY <1>1, <3>1, <3>4 DEF BadPulse
      <3>5. CASE UNCHANGED vars
        BY <1>1, <3>5 DEF vars
      <3> QED BY <1>1, <3>2, <3>3, <3>4, <3>5 DEF Next
    <2>2. /\ dac_val \in Nat /\ dac_val \in Range12
          /\ dac_val' \in Nat /\ dac_val' \in Range12
      <3>1. dac_val \in Nat /\ dac_val' \in Nat
        BY <1>1 DEF OcxoInv, OcxoTypes, UInt16
      <3>2. Within(dac_val) /\ Within(dac_val')
        BY <1>1, <2>1 DEF OcxoInv, Within
      <3> QED BY <1>1, <3>1, <3>2, WithinRange
    <2> DEFINE d == Deviation(dac_val)
               e == Deviation(dac_val')
    <2>3. d \in Int /\ e \in Int
      BY <2>2, DeviationBounds
    <2>4. ASSUME Adjust PROVE Better
      <3>1. CASE dac_val' = dac_val
        <4>1. d = e
          BY <3>1
        <4> QED BY <2>3, <4>1 DEF abs
      <3>2. CASE dac_val >= Centre /\ dac_val' = dac_val - 10
        <4>1. CASE dac_val' >= Centre
          <5>1. d >= 0 /\ e >= 0
            BY <2>2, <3>2, <4>1, DeviationNear
          <5>2. dac_val' <= dac_val
            BY <2>2, <3>2
          <5>3. e <= d
            BY <2>2, <5>2, DeviationGrows
          <5> QED BY <2>3, <5>1, <5>3 DEF abs
        <4>2. CASE dac_val' < Centre
          <5>1. dac_val' >= Centre - 20
            BY <2>2, <3>2, OcxoConstants
          <5>2. e <= -1 /\ e >= -1
            BY <2>2, <4>2, <5>1, DeviationNear
          <5> QED BY <2>3, <5>2 DEF Locked
        <4> QED BY <2>2, <4>1, <4>2, OcxoConstants
      <3>3. CASE dac_val < Centre /\ dac_val' = dac_val + 10
        <4>1. CASE dac_val' < Centre
          <5>1. d <= -1 /\ e <= -1
            BY <2>2, <3>3, <4>1, DeviationNear
          <5>2. dac_val <= dac_val'
            BY <2>2, <3>3
          <5>3. d <= e
            BY <2>2, <5>2, DeviationGrows
          <5> QED BY <2>3, <5>1, <5>3 DEF abs
        <4>2. CASE dac_val' >= Centre
          <5>1. dac_val' < Centre + 20
            BY <2>2, <3>3, OcxoConstants
          <5>2. e >= 0 /\ e <= 0
            BY <2>2, <4>2, <5>1, DeviationNear
          <5> QED BY <2>3, <5>2 DEF Locked
        <4> QED BY <2>2, <4>1, <4>2, OcxoConstants
      <3> QED BY <1>1, <2>1, <2>4, <3>1, <3>2, <3>3, AdjustStep
    <2>5. ASSUME dac_val' = dac_val PROVE Better
      <3>1. d = e
        BY <2>5
      <3> QED BY <2>3, <3>1 DEF abs
    <2>6. Adjust \/ dac_val' = dac_val
      BY <1>1 DEF Next, Thread, CompareFirst, CompareSecond, Take, Mark, Wake,
                  Pulse, BadPulse, Store, vars
    <2> QED BY <2>4, <2>5, <2>6
  <1>2. Init => OcxoInv
    BY OcxoInvInit
  <1>3. OcxoInv /\ [Next]_vars => OcxoInv'
    BY OcxoInvNext
  <1>4. OcxoInv /\ OcxoInv' /\ [Next]_vars => [bad' = 0 => Better]_vars
    BY <1>1
  <1> QED BY <1>2, <1>3, <1>4, PTL DEF Spec, NeverWorse

=============================================================================
