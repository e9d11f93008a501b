----------------------------- MODULE Debug_proofs -----------------------------
(***************************************************************************)
(* The safety properties of Debug for every size of the bucket and all     *)
(* lengths of the texts.                                                   *)
(*                                                                         *)
(* The idea: a thread writes only at or behind the end of the text it has  *)
(* found, and everything before that end is not zero.  So a thread that    *)
(* interrupts another one finds an end behind what the other one has       *)
(* copied so far (Nested, Behind), and cannot disturb it (Copied).         *)
(***************************************************************************)
EXTENDS Debug, TLAPS

Threads == Writers \cup {"http"}

Types ==
    /\ bucket \in [Index -> Nat]
    /\ pc \in [Threads -> {"idle", "copy", "empty"}]
    /\ used \in [Writers -> Nat] /\ in_len \in [Writers -> Nat]
    /\ at \in [Threads -> Nat]
    /\ ret \in Seq(Nat)

\* What a writer has copied is in place, and follows a text.
Copied ==
    \A t \in Writers : pc[t] = "copy" =>
        /\ used[t] + in_len[t] < Size - 1 /\ at[t] <= in_len[t]
        /\ \A i \in 0 .. used[t] - 1 : bucket[i] # 0
        /\ \A i \in 0 .. at[t] - 1 : bucket[used[t] + i] = in_len[t] - i

\* The OCXO thread writes behind what the control thread has copied.
Nested ==
    pc["ocxo"] = "copy" /\ pc["ctrl"] = "copy" => used["ctrl"] + at["ctrl"] <= used["ocxo"]

\* The writers write behind what the web server has copied.
Behind ==
    pc["http"] # "idle" =>
        /\ at["http"] < Size
        /\ \A i \in 0 .. at["http"] - 1 : bucket[i] # 0
        /\ \A t \in Writers : pc[t] = "copy" => at["http"] <= used[t]

IInv == Types /\ bucket[Size - 1] = 0 /\ Copied /\ Nested /\ Behind

\* The initial state.
LEMMA IInvInit == Init => IInv
  BY DebugAssumption
  DEF Init, IInv, Types, Copied, Nested, Behind, Threads, Writers, Index

\* A writer looks for the end of the text.
LEMMA IInvPrint ==
    ASSUME IInv, NEW t \in Writers, debug_print(t)
    PROVE  IInv'
  <1> USE DebugAssumption DEF IInv
  <1>1. PICK n \in Index, len \in Lens[t] :
           /\ IsStrlen(n)
           /\ used' = [used EXCEPT ![t] = n]
           /\ in_len' = [in_len EXCEPT ![t] = len]
           /\ pc' = [pc EXCEPT ![t] = IF Fits(n, len) THEN "copy" ELSE "idle"]
    BY DEF debug_print
  <1>2. /\ at' = [at EXCEPT ![t] = 0] /\ bucket' = bucket /\ ret' = ret
        /\ pc[t] = "idle" /\ CanRun(t)
    BY DEF debug_print
  <1>3. len \in Nat /\ n \in Nat /\ n < Size
    BY DEF Index
  <1>4. Types'
    BY <1>1, <1>2, <1>3 DEF Types, Threads
  <1>5. Fits(n, len) => n + len < Size - 1
    BY <1>3 DEF Fits
  <1>6. \A i \in 0 .. n - 1 : bucket[i] # 0
    BY <1>1 DEF IsStrlen
  <1>7. Copied'
    <2> SUFFICES ASSUME NEW u \in Writers, pc'[u] = "copy"
                 PROVE  /\ used'[u] + in_len'[u] < Size - 1 /\ at'[u] <= in_len'[u]
                        /\ \A i \in 0 .. used'[u] - 1 : bucket[i] # 0
                        /\ \A i \in 0 .. at'[u] - 1 : bucket[used'[u] + i] = in_len'[u] - i
      BY <1>2 DEF Copied
    <2>1. CASE u = t
      <3>1. Fits(n, len) /\ used'[t] = n /\ in_len'[t] = len /\ at'[t] = 0
        BY <1>1, <1>2, <2>1 DEF Types, Threads
      <3>2. 0 .. at'[t] - 1 = {}
        BY <3>1
      <3> QED BY <1>3, <1>5, <1>6, <2>1, <3>1, <3>2
    <2>2. CASE u # t
      <3>1. /\ pc[u] = "copy" /\ used'[u] = used[u] /\ in_len'[u] = in_len[u]
            /\ at'[u] = at[u]
        BY <1>1, <1>2, <2>2 DEF Types, Threads
      <3> QED BY <3>1 DEF Copied
    <2> QED BY <2>1, <2>2
  <1>8. Nested'
    <2>1. CASE t = "ctrl"
      BY <1>1, <1>2, <2>1 DEF Nested, Types, Threads, CanRun, Higher
    <2>2. CASE t = "ocxo" /\ pc["ctrl"] = "copy"
      <3>1. ASSUME NEW i \in 0 .. used["ctrl"] + at["ctrl"] - 1 PROVE bucket[i] # 0
        <4>1. CASE i < used["ctrl"]
          <5>1. i \in 0 .. used["ctrl"] - 1
            BY <4>1 DEF Types, Writers, Threads
          <5> QED BY <2>2, <5>1 DEF Copied, Writers
        <4>2. CASE i >= used["ctrl"]
          <5>1. used["ctrl"] \in Nat /\ at["ctrl"] \in Nat
            BY DEF Types, Writers, Threads
          <5>2. /\ i - used["ctrl"] \in 0 .. at["ctrl"] - 1
                /\ used["ctrl"] + (i - used["ctrl"]) = i
            BY <4>2, <5>1
          <5>3. bucket[i] = in_len["ctrl"] - (i - used["ctrl"])
            BY <2>2, <5>2 DEF Copied, Writers
          <5>4. at["ctrl"] <= in_len["ctrl"]
            BY <2>2 DEF Copied, Writers
          <5>5. in_len["ctrl"] \in Nat
            BY DEF Types, Writers
          <5> QED BY <5>1, <5>2, <5>3, <5>4, <5>5
        <4> QED BY <4>1, <4>2 DEF Types, Writers
      <3>2. bucket[n] = 0
        BY <1>1 DEF IsStrlen
      <3>3. used["ctrl"] + at["ctrl"] <= n
        BY <1>3, <3>1, <3>2 DEF Types, Writers, Threads
      <3> QED BY <1>1, <1>2, <2>2, <3>3 DEF Nested, Types, Threads, Writers
    <2>3. CASE t = "ocxo" /\ pc["ctrl"] # "copy"
      BY <1>1, <1>2, <2>3 DEF Nested, Types, Threads, Writers
    <2> QED BY <2>1, <2>2, <2>3 DEF Writers
  <1>9. Behind'
    <2>1. pc["http"] # "idle" => at["http"] <= n
      BY <1>1, <1>3 DEF IsStrlen, Behind, Types, Threads
    <2>2. pc'["http"] = pc["http"] /\ at'["http"] = at["http"]
      BY <1>1, <1>2 DEF Types, Threads, Writers
    <2> QED BY <1>1, <1>2, <2>1, <2>2 DEF Behind, Types, Threads, Writers
  <1> QED BY <1>2, <1>4, <1>7, <1>8, <1>9

\* A writer copies a byte.
LEMMA IInvCopy ==
    ASSUME IInv, NEW t \in Writers, Copy(t)
    PROVE  IInv'
  <1> USE DebugAssumption DEF IInv
  <1>1. /\ bucket' = [bucket EXCEPT ![used[t] + at[t]] = in_len[t] - at[t]]
        /\ at' = [at EXCEPT ![t] = @ + 1]
        /\ pc' = [pc EXCEPT ![t] = IF at[t] < in_len[t] THEN "copy" ELSE "idle"]
        /\ UNCHANGED <<used, in_len, ret>>
        /\ CanRun(t) /\ pc[t] = "copy"
    BY DEF Copy
  <1>2. /\ used[t] \in Nat /\ at[t] \in Nat /\ in_len[t] \in Nat
        /\ at[t] <= in_len[t] /\ used[t] + in_len[t] < Size - 1
    BY <1>1 DEF Copied, Types, Threads
  <1>3. in_len[t] - at[t] \in Nat /\ used[t] + at[t] \in Index /\ used[t] + at[t] < Size - 1
    BY <1>2 DEF Index
  <1>4. Types'
    BY <1>1, <1>2, <1>3 DEF Types, Threads
  <1>5. bucket'[Size - 1] = 0
    BY <1>1, <1>3 DEF Types, Index
  <1>6. \A i \in Index : i # used[t] + at[t] => bucket'[i] = bucket[i]
    BY <1>1 DEF Types
  <1>7. bucket'[used[t] + at[t]] = in_len[t] - at[t]
    BY <1>1, <1>3 DEF Types
  <1>8. Copied'
    <2> SUFFICES ASSUME NEW u \in Writers, pc'[u] = "copy"
                 PROVE  /\ used[u] + in_len[u] < Size - 1 /\ at'[u] <= in_len[u]
                        /\ \A i \in 0 .. used[u] - 1 : bucket'[i] # 0
                        /\ \A i \in 0 .. at'[u] - 1 : bucket'[used[u] + i] = in_len[u] - i
      BY <1>1 DEF Copied
    <2>1. CASE u = t
      <3>1. at[t] < in_len[t] /\ at'[t] = at[t] + 1
        BY <1>1, <2>1 DEF Types, Threads
      <3>2. ASSUME NEW i \in 0 .. used[t] - 1 PROVE bucket'[i] # 0
        BY <1>1, <1>2, <1>6 DEF Copied, Index
      <3>3. ASSUME NEW i \in 0 .. at[t] PROVE bucket'[used[t] + i] = in_len[t] - i
        <4>1. CASE i = at[t]
          BY <1>7, <4>1
        <4>2. CASE i < at[t]
          <5>1. used[t] + i \in Index /\ used[t] + i # used[t] + at[t] /\ i \in 0 .. at[t] - 1
            BY <1>2, <4>2 DEF Index
          <5> QED BY <1>1, <1>6, <5>1 DEF Copied
        <4> QED BY <1>2, <4>1, <4>2
      <3> QED BY <1>2, <2>1, <3>1, <3>2, <3>3
    <2>2. CASE u # t
      <3>1. t = "ocxo" /\ u = "ctrl" /\ pc["ctrl"] = "copy" /\ at'["ctrl"] = at["ctrl"]
        BY <1>1, <2>2 DEF Types, Threads, Writers, CanRun, Higher
      <3>2. used["ctrl"] + at["ctrl"] <= used["ocxo"]
        BY <1>1, <3>1 DEF Nested
      <3>3. /\ used["ctrl"] \in Nat /\ at["ctrl"] \in Nat /\ in_len["ctrl"] \in Nat
            /\ used["ctrl"] + in_len["ctrl"] < Size - 1 /\ at["ctrl"] <= in_len["ctrl"]
        BY <3>1 DEF Copied, Types, Threads, Writers
      <3>4. \A i \in 0 .. used["ctrl"] - 1 : bucket'[i] # 0
        BY <1>2, <1>6, <3>1, <3>2, <3>3 DEF Copied, Index
      <3>5. ASSUME NEW i \in 0 .. at["ctrl"] - 1
            PROVE  bucket'[used["ctrl"] + i] = in_len["ctrl"] - i
        <4>1. used["ctrl"] + i \in Index /\ used["ctrl"] + i # used[t] + at[t]
          BY <1>2, <3>1, <3>2, <3>3 DEF Index
        <4> QED BY <1>6, <3>1, <4>1 DEF Copied
      <3> QED BY <3>1, <3>3, <3>4, <3>5
    <2> QED BY <2>1, <2>2
  <1>9. Nested'
    BY <1>1 DEF Nested, Types, Threads, Writers, CanRun, Higher
  <1>10. Behind'
    <2> SUFFICES ASSUME pc["http"] # "idle" PROVE Behind'
      BY <1>1 DEF Behind, Types, Threads, Writers
    <2>1. at'["http"] = at["http"] /\ at["http"] <= used[t] /\ at["http"] \in Nat
      BY <1>1 DEF Behind, Types, Threads, Writers
    <2>2. \A i \in 0 .. at["http"] - 1 : bucket'[i] # 0
      BY <1>2, <1>6, <2>1 DEF Behind, Index
    <2> QED BY <1>1, <2>1, <2>2 DEF Behind, Types, Threads
  <1> QED BY <1>4, <1>5, <1>8, <1>9, <1>10

\* The web server copies and empties the bucket; the writers are idle then.
LEMMA IInvHttp ==
    ASSUME IInv, Request \/ Strcpy \/ Empty
    PROVE  IInv'
  <1> USE DebugAssumption DEF IInv, Types, Threads, Writers
  <1>1. CanRun("http") => pc["ocxo"] = "idle" /\ pc["ctrl"] = "idle"
    BY DEF CanRun, Higher
  <1>2. CASE Request
    BY <1>1, <1>2 DEF Request, Copied, Nested, Behind
  <1>3. CASE Strcpy
    <2>1. at["http"] \in Index /\ pc["http"] = "copy"
      BY <1>3 DEF Strcpy, Behind, Index
    <2>2. CASE bucket[at["http"]] # 0
      <3>1. at["http"] # Size - 1
        BY <2>2
      <3>2. ret' = Append(ret, bucket[at["http"]]) /\ at' = [at EXCEPT !["http"] = @ + 1]
        BY <1>3, <2>2 DEF Strcpy
      <3>3. Types'
        BY <1>3, <2>1, <2>2, <3>2 DEF Strcpy
      <3>4. Behind'
        <4>1. at'["http"] = at["http"] + 1 /\ at["http"] + 1 < Size
          BY <2>1, <3>1, <3>2 DEF Index
        <4>2. at'["http"] = at["http"] + 1 /\ at'["http"] < Size /\ UNCHANGED <<bucket, pc>>
          BY <1>3, <2>2, <4>1 DEF Strcpy
        <4>3. \A i \in 0 .. at["http"] - 1 : bucket[i] # 0
          BY <2>1 DEF Behind
        <4>4. \A i \in 0 .. at["http"] : bucket[i] # 0
          BY <2>2, <4>3
        <4>5. pc["ocxo"] = "idle" /\ pc["ctrl"] = "idle"
          BY <1>1, <1>3 DEF Strcpy
        <4>6. \A i \in 0 .. at'["http"] - 1 : bucket'[i] # 0
          <5>1. at'["http"] - 1 = at["http"]
            BY <2>1, <4>1 DEF Index
          <5> QED BY <4>2, <4>4, <5>1
        <4>7. \A t \in Writers : pc'[t] # "copy"
          BY <4>2, <4>5 DEF Writers
        <4> QED BY <4>2, <4>6, <4>7 DEF Behind
      <3> QED BY <1>1, <1>3, <3>2, <3>3, <3>4 DEF Strcpy, Copied, Nested
    <2>3. CASE bucket[at["http"]] = 0
      BY <1>1, <1>3, <2>3 DEF Strcpy, Copied, Nested, Behind
    <2> QED BY <2>2, <2>3
  <1>4. CASE Empty
    <2>1. Types' /\ bucket'[Size - 1] = 0
      BY <1>4 DEF Empty, Index
    <2> QED BY <1>1, <1>4, <2>1 DEF Empty, Copied, Nested, Behind
  <1> QED BY <1>2, <1>3, <1>4

\* Every step keeps the invariant.
LEMMA IInvNext == IInv /\ [Next]_vars => IInv'
  <1>1. ASSUME IInv, UNCHANGED vars PROVE IInv'
    BY <1>1 DEF vars, IInv, Types, Copied, Nested, Behind
  <1> QED BY <1>1, IInvPrint, IInvCopy, IInvHttp DEF Next, Write

\* For every size of the bucket: strlen, strcpy and memcpy of debug.c:12-20
\* stay inside, however the threads interrupt each other.
THEOREM StaysInBounds == Spec => []InBounds
  <1>1. IInv => InBounds
    BY DEF IInv, InBounds, Copied, Behind
  <1> QED BY <1>1, IInvInit, IInvNext, PTL DEF Spec

\* When debug_print (debug.c:10-16) returns to the control thread, its text
\* ends the bucket, whatever the OCXO thread printed in between.
THEOREM CtrlTextIsKept == Spec => CtrlTextKept
  <1> DEFINE n == used["ctrl"]
             m == in_len["ctrl"]
             Kept == pc["ctrl"] = "copy" /\ pc'["ctrl"] = "idle" =>
                        /\ IsStrlen(n + m)'
                        /\ \A i \in 0 .. m - 1 : bucket'[n + i] = m - i
  <1>1. IInv /\ [Next]_vars => [Kept]_vars
    <2> SUFFICES ASSUME IInv, Next, pc["ctrl"] = "copy", pc'["ctrl"] = "idle"
                 PROVE  /\ IsStrlen(n + m)'
                        /\ \A i \in 0 .. m - 1 : bucket'[n + i] = m - i
      OBVIOUS
    <2> USE DEF IInv, Types, Threads, Writers
    <2>1. Copy("ctrl")
      BY DEF Next, Write, debug_print, Copy, Request, Strcpy, Empty
    <2>2. /\ bucket' = [bucket EXCEPT ![n + at["ctrl"]] = m - at["ctrl"]]
          /\ ~(at["ctrl"] < m) /\ UNCHANGED <<used, in_len>>
      BY <2>1 DEF Copy
    <2>3. /\ n \in Nat /\ m \in Nat /\ at["ctrl"] = m /\ n + m < Size - 1
          /\ \A i \in 0 .. n - 1 : bucket[i] # 0
          /\ \A i \in 0 .. m - 1 : bucket[n + i] = m - i
      BY <2>2 DEF Copied
    <2>4. \A i \in Index : bucket'[i] = IF i = n + m THEN 0 ELSE bucket[i]
      BY <2>2, <2>3
    <2> HIDE DEF IInv, Types, n, m
    <2>5. n \in Nat /\ m \in Nat /\ n + m < Size - 1 /\ Size \in Nat
      BY <2>3, DebugAssumption DEF n, m
    <2>6. \A i \in 0 .. m - 1 : bucket'[n + i] = m - i
      <3>1. \A i \in 0 .. m - 1 : n + i \in Index /\ n + i # n + m
        BY <2>5 DEF Index
      <3> QED BY <2>4, <2>3, <3>1
    <2>7. bucket'[n + m] = 0
      BY <2>4, <2>5 DEF Index
    <2>8. ASSUME NEW i \in 0 .. n + m - 1 PROVE bucket'[i] # 0
      <3>1. CASE i < n
        <4>1. i \in Index /\ i # n + m /\ i \in 0 .. n - 1
          BY <2>5, <3>1 DEF Index
        <4> QED BY <2>4, <2>3, <4>1
      <3>2. CASE i >= n
        <4>1. i - n \in 0 .. m - 1 /\ n + (i - n) = i
          BY <2>5, <3>2
        <4>2. bucket'[i] = m - (i - n)
          BY <2>6, <4>1
        <4> QED BY <2>5, <4>1, <4>2
      <3> QED BY <2>5, <3>1, <3>2
    <2>9. used' = used /\ in_len' = in_len
      BY <2>2
    <2>10. IsStrlen(n + m)'
      BY <2>5, <2>7, <2>8, <2>9 DEF IsStrlen, n, m
    <2> QED BY <2>6, <2>10
  <1> QED BY <1>1, IInvInit, IInvNext, PTL DEF Spec, CtrlTextKept

-----------------------------------------------------------------------------
(* Whole texts.  The texts before the place where a writer appends are     *)
(* whole, and so is everything when no writer is at work (Texts).  What    *)
(* the web server has copied is still in the bucket (Taken).               *)

Whole(n) == \A i \in 0 .. n - 1 : bucket[i] = 1 \/ (i + 1 < n /\ bucket[i + 1] = bucket[i] - 1)

Texts ==
    /\ pc["ctrl"] = "copy" => Whole(used["ctrl"])
    /\ pc["ctrl"] # "copy" /\ pc["ocxo"] = "copy" => Whole(used["ocxo"])
    /\ pc["ctrl"] # "copy" /\ pc["ocxo"] # "copy" => \A n \in Index : IsStrlen(n) => Whole(n)

Taken ==
    pc["http"] # "idle" =>
        Len(ret) = at["http"] /\ \A i \in 1 .. at["http"] : ret[i] = bucket[i - 1]

WInv == Texts /\ Taken /\ ReadWhole

\* A text stays whole when other slots of the bucket change.
LEMMA WholeKept ==
    ASSUME NEW n \in Nat, Whole(n), \A i \in 0 .. n - 1 : bucket'[i] = bucket[i]
    PROVE  \A i \in 0 .. n - 1 :
               bucket'[i] = 1 \/ (i + 1 < n /\ bucket'[i + 1] = bucket'[i] - 1)
  <1> SUFFICES ASSUME NEW i \in 0 .. n - 1, bucket[i] # 1
               PROVE  i + 1 < n /\ bucket'[i + 1] = bucket'[i] - 1
    OBVIOUS
  <1>1. i + 1 < n /\ bucket[i + 1] = bucket[i] - 1
    BY DEF Whole
  <1>2. i + 1 \in 0 .. n - 1
    BY <1>1
  <1> QED BY <1>1, <1>2

\* The initial state.
LEMMA WInvInit == Init => WInv
  <1> SUFFICES ASSUME Init PROVE WInv
    OBVIOUS
  <1>1. \A n \in Index : IsStrlen(n) => n = 0
    <2> SUFFICES ASSUME NEW n \in Index, IsStrlen(n), n # 0 PROVE FALSE
      OBVIOUS
    <2>1. 0 \in 0 .. n - 1 /\ 0 \in Index
      BY DebugAssumption DEF Index
    <2> QED BY <2>1 DEF Init, IsStrlen
  <1>2. Whole(0)
    BY DEF Whole
  <1> QED BY <1>1, <1>2 DEF Init, WInv, Texts, Taken, ReadWhole, Writers

\* A step of a thread that prints.
LEMMA WInvPrint ==
    ASSUME IInv, WInv, NEW t \in Writers, debug_print(t)
    PROVE  WInv'
  <1> USE DEF IInv, Types, Threads, Writers
  <1>1. PICK n \in Index, len \in Lens[t] :
           /\ IsStrlen(n)
           /\ used' = [used EXCEPT ![t] = n]
           /\ pc' = [pc EXCEPT ![t] = IF Fits(n, len) THEN "copy" ELSE "idle"]
    BY DEF debug_print
  <1>2. /\ at' = [at EXCEPT ![t] = 0] /\ bucket' = bucket /\ ret' = ret
        /\ pc[t] = "idle" /\ CanRun(t)
    BY DEF debug_print
  <1>5. Texts'
    <2>1. CASE t = "ctrl"
      <3>1. pc["ocxo"] = "idle" /\ pc'["ocxo"] = "idle" /\ used'["ctrl"] = n
        BY <1>1, <1>2, <2>1 DEF CanRun, Higher
      <3>2. \A k \in Index : IsStrlen(k) => Whole(k)
        BY <1>2, <2>1, <3>1 DEF WInv, Texts
      <3> QED BY <1>1, <1>2, <2>1, <3>1, <3>2 DEF Texts, Whole, IsStrlen
    <2>2. CASE t = "ocxo"
      <3>1. /\ pc'["ctrl"] = pc["ctrl"] /\ used'["ctrl"] = used["ctrl"]
            /\ used'["ocxo"] = n
        BY <1>1, <2>2
      <3>2. CASE pc["ctrl"] = "copy"
        BY <1>2, <3>1, <3>2 DEF WInv, Texts, Whole
      <3>3. CASE pc["ctrl"] # "copy"
        <4>1. \A k \in Index : IsStrlen(k) => Whole(k)
          BY <1>2, <2>2, <3>3 DEF WInv, Texts
        <4>2. Whole(n)' /\ \A k \in Index : IsStrlen(k)' => Whole(k)'
          BY <1>1, <1>2, <4>1 DEF Whole, IsStrlen
        <4> QED BY <3>1, <3>3, <4>2 DEF Texts
      <3> QED BY <3>2, <3>3
    <2> QED BY <2>1, <2>2
  <1>6. Taken' /\ ReadWhole'
    BY <1>1, <1>2 DEF WInv, Taken, ReadWhole
  <1> QED BY <1>5, <1>6 DEF WInv

\* A writer appends behind the texts of Texts; with its last byte its own text
\* is whole too.
LEMMA WInvCopy ==
    ASSUME IInv, WInv, NEW t \in Writers, Copy(t)
    PROVE  WInv'
  <1> USE DebugAssumption
  <1>1. /\ bucket' = [bucket EXCEPT ![used[t] + at[t]] = in_len[t] - at[t]]
        /\ at' = [at EXCEPT ![t] = @ + 1]
        /\ pc' = [pc EXCEPT ![t] = IF at[t] < in_len[t] THEN "copy" ELSE "idle"]
        /\ UNCHANGED <<used, in_len, ret>>
        /\ CanRun(t) /\ pc[t] = "copy"
    BY DEF Copy
  <1>2. /\ used[t] \in Nat /\ at[t] \in Nat /\ in_len[t] \in Nat
        /\ at[t] <= in_len[t] /\ used[t] + in_len[t] < Size - 1
        /\ \A i \in 0 .. used[t] - 1 : bucket[i] # 0
        /\ \A i \in 0 .. at[t] - 1 : bucket[used[t] + i] = in_len[t] - i
    BY <1>1 DEF IInv, Copied, Types, Threads
  <1>3. used[t] + at[t] \in Index
    BY <1>2 DEF Index
  <1>4. /\ bucket'[used[t] + at[t]] = in_len[t] - at[t]
        /\ \A i \in Index : i # used[t] + at[t] => bucket'[i] = bucket[i]
    BY <1>1, <1>3 DEF IInv, Types
  <1>5. \A n \in Nat : n <= used[t] => \A i \in 0 .. n - 1 : bucket'[i] = bucket[i]
    BY <1>2, <1>4 DEF Index
  <1>7. \A u \in Threads : u # t => pc'[u] = pc[u] /\ at'[u] = at[u]
    BY <1>1 DEF IInv, Types
  <1>8. pc'[t] = IF at[t] < in_len[t] THEN "copy" ELSE "idle"
    BY <1>1 DEF IInv, Types, Threads
  <1>9. t = "ctrl" => pc["ocxo"] = "idle"
    BY <1>1 DEF CanRun, Higher
  <1>10. pc["ctrl"] = "copy" => used["ctrl"] <= used[t] /\ Whole(used["ctrl"])'
    <2> SUFFICES ASSUME pc["ctrl"] = "copy"
                 PROVE  used["ctrl"] <= used[t] /\ Whole(used["ctrl"])'
      OBVIOUS
    <2>1. used["ctrl"] \in Nat /\ at["ctrl"] \in Nat
      BY DEF IInv, Types, Threads, Writers
    <2>2. used["ctrl"] <= used[t]
      <3>1. CASE t = "ctrl" BY <1>2, <3>1
      <3>2. CASE t = "ocxo" BY <1>1, <1>2, <2>1, <3>2 DEF IInv, Nested
      <3> QED BY <3>1, <3>2 DEF Writers
    <2>3. Whole(used["ctrl"])
      BY DEF WInv, Texts
    <2>4. \A i \in 0 .. used["ctrl"] - 1 :
             bucket'[i] = 1 \/ (i + 1 < used["ctrl"] /\ bucket'[i + 1] = bucket'[i] - 1)
      BY <1>5, <2>1, <2>2, <2>3, WholeKept
    <2> QED BY <1>1, <2>2, <2>4 DEF Whole
  <1>11. pc["ctrl"] # "copy" \/ t = "ctrl" => Whole(used[t])
    BY <1>1 DEF WInv, Texts, Writers
  <1>12. ASSUME at[t] = in_len[t], Whole(used[t]), NEW n \in Index, IsStrlen(n)'
         PROVE  Whole(n)'
    <2> DEFINE a == used[t]
               m == in_len[t]
    <2>1. a \in Nat /\ m \in Nat /\ a + m < Size - 1
      BY <1>2
    <2>2. \A i \in 0 .. m - 1 : bucket'[a + i] = m - i
      <3>1. \A i \in 0 .. m - 1 : a + i \in Index /\ a + i # a + m
        BY <2>1 DEF Index
      <3> QED BY <1>2, <1>4, <1>12, <3>1
    <2>3. bucket'[a + m] = 0
      BY <1>2, <1>4, <1>12
    <2>4. \A i \in 0 .. a - 1 : bucket'[i] = bucket[i] /\ bucket'[i] # 0
      BY <1>2, <1>5
    <2>5. \A i \in 0 .. a - 1 :
             bucket'[i] = 1 \/ (i + 1 < a /\ bucket'[i + 1] = bucket'[i] - 1)
      BY <1>2, <1>12, <2>4, WholeKept
    <2> HIDE DEF a, m
    <2>6. ASSUME NEW i \in 0 .. a + m - 1, ~(i < a)
          PROVE  i - a \in 0 .. m - 1 /\ a + (i - a) = i /\ bucket'[i] = m - (i - a)
      <3>1. i - a \in 0 .. m - 1 /\ a + (i - a) = i
        BY <2>1, <2>6
      <3> QED BY <2>2, <3>1
    <2>7. n \in Nat /\ bucket'[n] = 0 /\ \A i \in 0 .. n - 1 : bucket'[i] # 0
      BY <1>12 DEF IsStrlen, Index
    <2>8. \A i \in 0 .. a + m - 1 : bucket'[i] # 0
      <3> SUFFICES ASSUME NEW i \in 0 .. a + m - 1 PROVE bucket'[i] # 0
        OBVIOUS
      <3>1. CASE i < a
        <4>1. i \in 0 .. a - 1 BY <2>1, <3>1
        <4> QED BY <2>4, <4>1
      <3>2. CASE ~(i < a)
        <4>1. i - a \in 0 .. m - 1 /\ bucket'[i] = m - (i - a) BY <2>6, <3>2
        <4> QED BY <2>1, <4>1
      <3> QED BY <3>1, <3>2
    <2>9. n = a + m
      <3>1. ~(n < a + m)
        <4> SUFFICES ASSUME n < a + m PROVE FALSE
          OBVIOUS
        <4>1. n \in 0 .. a + m - 1 BY <2>1, <2>7
        <4> QED BY <2>7, <2>8, <4>1
      <3>2. ~(a + m < n)
        <4> SUFFICES ASSUME a + m < n PROVE FALSE
          OBVIOUS
        <4>1. a + m \in 0 .. n - 1 BY <2>1, <2>7
        <4> QED BY <2>3, <2>7, <4>1
      <3> QED BY <2>1, <2>7, <3>1, <3>2
    <2>10. ASSUME NEW i \in 0 .. n - 1
           PROVE  bucket'[i] = 1 \/ (i + 1 < n /\ bucket'[i + 1] = bucket'[i] - 1)
      <3>1. CASE i < a
        <4>1. i \in 0 .. a - 1 BY <2>1, <3>1
        <4>2. bucket'[i] = 1 \/ (i + 1 < a /\ bucket'[i + 1] = bucket'[i] - 1)
          BY <2>5, <4>1
        <4>3. i + 1 < a => i + 1 < n BY <2>1, <2>9, <3>1
        <4> QED BY <4>2, <4>3
      <3>2. CASE ~(i < a)
        <4>1. i \in 0 .. a + m - 1 BY <2>1, <2>9, <2>10
        <4>2. i - a \in 0 .. m - 1 /\ bucket'[i] = m - (i - a)
          BY <2>6, <3>2, <4>1
        <4>3. CASE i + 1 < n
          <5>1. i + 1 \in 0 .. a + m - 1 /\ ~(i + 1 < a)
            BY <2>1, <2>9, <3>2, <4>1, <4>3
          <5>2. bucket'[i + 1] = m - ((i + 1) - a)
            BY <2>6, <5>1
          <5>3. m - ((i + 1) - a) = (m - (i - a)) - 1
            BY <2>1, <4>1
          <5> QED BY <4>2, <4>3, <5>2, <5>3
        <4>4. CASE ~(i + 1 < n)
          <5>1. m - (i - a) = 1
            BY <2>1, <2>9, <4>1, <4>4
          <5> QED BY <4>2, <5>1
        <4> QED BY <4>3, <4>4
      <3> QED BY <3>1, <3>2
    <2> QED BY <2>10 DEF Whole
  <1>13. Texts'
    <2>1. CASE t = "ctrl"
      <3>1. /\ pc["ocxo"] = "idle" /\ pc'["ocxo"] = "idle" /\ used' = used
        BY <1>1, <1>7, <1>9, <2>1 DEF Threads, Writers
      <3>2. CASE at[t] < in_len[t]
        BY <1>1, <1>8, <1>10, <2>1, <3>1, <3>2 DEF Texts, Whole
      <3>3. CASE ~(at[t] < in_len[t])
        <4>1. at[t] = in_len[t] BY <1>2, <3>3
        <4>2. \A n \in Index : IsStrlen(n)' => Whole(n)'
          BY <1>11, <1>12, <2>1, <4>1
        <4> QED BY <1>8, <2>1, <3>1, <3>3, <4>2 DEF Texts, Whole, IsStrlen
      <3> QED BY <3>2, <3>3
    <2>2. CASE t = "ocxo" /\ pc["ctrl"] = "copy"
      <3>1. pc'["ctrl"] = "copy" /\ used' = used
        BY <1>1, <1>7, <2>2 DEF Threads, Writers
      <3> QED BY <1>10, <2>2, <3>1 DEF Texts, Whole
    <2>3. CASE t = "ocxo" /\ pc["ctrl"] # "copy"
      <3>1. pc'["ctrl"] # "copy" /\ used' = used
        BY <1>1, <1>7, <2>3 DEF Threads, Writers
      <3>2. CASE at[t] < in_len[t]
        <4>2. \A i \in 0 .. used[t] - 1 :
                 bucket'[i] = 1 \/ (i + 1 < used[t] /\ bucket'[i + 1] = bucket'[i] - 1)
          BY <1>2, <1>5, <1>11, <2>3, WholeKept
        <4>1. Whole(used[t])'
          BY <3>1, <4>2 DEF Whole
        <4> QED BY <1>8, <2>3, <3>1, <3>2, <4>1 DEF Texts, Whole
      <3>3. CASE ~(at[t] < in_len[t])
        <4>1. at[t] = in_len[t] BY <1>2, <3>3
        <4>2. \A n \in Index : IsStrlen(n)' => Whole(n)'
          BY <1>11, <1>12, <2>3, <4>1
        <4> QED BY <1>8, <2>3, <3>1, <3>3, <4>2 DEF Texts, Whole, IsStrlen
      <3> QED BY <3>2, <3>3
    <2> QED BY <2>1, <2>2, <2>3 DEF Writers
  <1>14. pc'["http"] = pc["http"] /\ at'["http"] = at["http"] /\ ret' = ret
    BY <1>1, <1>7 DEF Threads, Writers
  <1>15. Taken'
    <2> SUFFICES ASSUME pc["http"] # "idle", NEW i \in 1 .. at["http"]
                 PROVE  bucket'[i - 1] = bucket[i - 1]
      BY <1>14 DEF WInv, Taken
    <2>1. at["http"] \in Nat /\ at["http"] <= used[t]
      BY <1>1 DEF IInv, Behind, Types, Threads, Writers
    <2>2. i - 1 \in 0 .. at["http"] - 1
      BY <2>1
    <2> QED BY <1>5, <2>1, <2>2
  <1>16. ReadWhole'
    BY <1>14 DEF WInv, ReadWhole
  <1> QED BY <1>13, <1>15, <1>16 DEF WInv

\* A step of the web server's copy.
LEMMA WInvHttp ==
    ASSUME IInv, WInv, Request \/ Strcpy \/ Empty
    PROVE  WInv'
  <1> USE DebugAssumption
  <1>1. CanRun("http") => pc["ocxo"] = "idle" /\ pc["ctrl"] = "idle"
    BY DEF CanRun, Higher, Writers
  <1>2. pc["ocxo"] = "idle" /\ pc["ctrl"] = "idle"
    BY <1>1 DEF Request, Strcpy, Empty
  <1>3. pc'["ocxo"] = "idle" /\ pc'["ctrl"] = "idle"
    BY <1>2 DEF Request, Strcpy, Empty, IInv, Types, Threads, Writers
  <1>4. \A n \in Index : IsStrlen(n) => Whole(n)
    BY <1>2 DEF WInv, Texts
  <1>5. CASE Request
    <2>1. bucket' = bucket /\ ret' = <<>> /\ at'["http"] = 0 /\ pc'["http"] = "copy"
      BY <1>5 DEF Request, IInv, Types, Threads
    <2>2. Texts'
      BY <1>3, <1>4, <2>1 DEF Texts, Whole, IsStrlen
    <2>3. Taken' /\ ReadWhole'
      BY <2>1 DEF Taken, ReadWhole
    <2> QED BY <2>2, <2>3 DEF WInv
  <1>6. CASE Strcpy
    <2> DEFINE k == at["http"]
    <2>1. /\ bucket' = bucket /\ pc["http"] = "copy" /\ k \in Nat /\ k \in Index
          /\ ret \in Seq(Nat) /\ Len(ret) = k
          /\ \A i \in 1 .. k : ret[i] = bucket[i - 1]
          /\ \A i \in 0 .. k - 1 : bucket[i] # 0
          /\ bucket[k] \in Nat
      BY <1>6 DEF Strcpy, IInv, Types, Threads, Behind, Index, WInv, Taken
    <2>2. Texts'
      BY <1>3, <1>4, <2>1 DEF Texts, Whole, IsStrlen
    <2>3. CASE bucket[k] # 0
      <3>1. ret' = Append(ret, bucket[k]) /\ at'["http"] = k + 1 /\ pc' = pc
        BY <1>6, <2>3 DEF Strcpy, IInv, Types, Threads
      <3>2. /\ Len(ret') = k + 1 /\ ret'[k + 1] = bucket[k]
            /\ \A i \in 1 .. k : ret'[i] = ret[i]
        BY <2>1, <3>1
      <3>3. Taken'
        <4> SUFFICES ASSUME NEW i \in 1 .. k + 1 PROVE ret'[i] = bucket[i - 1]
          BY <2>1, <3>1, <3>2 DEF Taken
        <4>1. CASE i = k + 1 BY <2>1, <3>2, <4>1
        <4>2. CASE i # k + 1
          <5>1. i \in 1 .. k BY <2>1, <4>2
          <5> QED BY <2>1, <3>2, <5>1
        <4> QED BY <4>1, <4>2
      <3>4. ReadWhole'
        BY <2>1, <3>1 DEF ReadWhole
      <3> QED BY <2>2, <3>3, <3>4 DEF WInv
    <2>4. CASE bucket[k] = 0
      <3>1. ret' = ret /\ at' = at
        BY <1>6, <2>4 DEF Strcpy
      <3>2. Taken'
        BY <2>1, <3>1 DEF Taken
      <3>3. Whole(k)
        BY <1>4, <2>1, <2>4 DEF IsStrlen
      <3>4. ReadWhole'
        <4> SUFFICES ASSUME NEW i \in 1 .. k
                     PROVE  ret[i] = 1 \/ (i < k /\ ret[i + 1] = ret[i] - 1)
          BY <2>1, <3>1 DEF ReadWhole
        <4>1. i - 1 \in 0 .. k - 1 /\ (i - 1) + 1 = i
          BY <2>1
        <4>2. bucket[i - 1] = 1 \/ (i < k /\ bucket[i] = bucket[i - 1] - 1)
          BY <3>3, <4>1 DEF Whole
        <4>3. i < k => i + 1 \in 1 .. k /\ (i + 1) - 1 = i
          BY <2>1
        <4> QED BY <2>1, <4>2, <4>3
      <3> QED BY <2>2, <3>2, <3>4 DEF WInv
    <2> QED BY <2>3, <2>4
  <1>7. CASE Empty
    <2>1. bucket'[0] = 0 /\ pc'["http"] = "idle"
      BY <1>7 DEF Empty, IInv, Types, Threads, Index
    <2>2. ASSUME NEW n \in Index, IsStrlen(n)' PROVE Whole(n)'
      <3>1. n = 0
        <4> SUFFICES ASSUME n # 0 PROVE FALSE
          OBVIOUS
        <4>1. 0 \in 0 .. n - 1 BY DEF Index
        <4> QED BY <2>1, <2>2, <4>1 DEF IsStrlen
      <3> QED BY <3>1 DEF Whole
    <2>3. Texts'
      BY <1>3, <2>2 DEF Texts, Whole, IsStrlen
    <2> QED BY <2>1, <2>3 DEF WInv, Taken, ReadWhole
  <1> QED BY <1>5, <1>6, <1>7

\* Every step.
LEMMA WInvNext == IInv /\ WInv /\ [Next]_vars => WInv'
  <1>1. ASSUME WInv, UNCHANGED vars PROVE WInv'
    BY <1>1 DEF vars, WInv, Texts, Taken, ReadWhole, Whole, IsStrlen
  <1> QED BY <1>1, WInvPrint, WInvCopy, WInvHttp DEF Next, Write

\* The web server sends whole texts (debug.c:18-22) although debug_print may
\* interrupt the copy between any two bytes, and itself be interrupted.
THEOREM TextsAreWhole == Spec => []ReadWhole
  <1>1. WInv => ReadWhole
    BY DEF WInv
  <1> QED BY <1>1, IInvInit, IInvNext, WInvInit, WInvNext, PTL DEF Spec

=============================================================================
