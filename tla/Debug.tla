-------------------------------- MODULE Debug --------------------------------
(***************************************************************************)
(* The log of the firmware (debug.c): a zero-terminated text that the      *)
(* control thread and the OCXO thread append to, and that the web server   *)
(* copies and empties.  There is no lock: each thread can be preempted     *)
(* between any two bytes by the threads of higher priority,                *)
(*     ocxo > ctrl > http.                                                 *)
(* The length of the text is found in one step: a text that is appended    *)
(* while strlen looks for the end is either counted as a whole or not.     *)
(*                                                                         *)
(* A text of n characters is n, n - 1, ..., 1, so that one can see whether *)
(* a piece of a text is missing.                                           *)
(***************************************************************************)
EXTENDS Naturals, Sequences

CONSTANTS Size,   \* DEBUG_BUCKET_SIZE
          Lens    \* lengths of the texts that each writer prints

Writers == {"ocxo", "ctrl"}

ASSUME DebugAssumption == Size \in Nat \ {0} /\ Lens \in [Writers -> SUBSET Nat]

Index == 0 .. Size - 1

VARIABLES bucket,
          pc,           \* what each thread does
          used, in_len, \* locals of debug_print, per writer
          at,           \* bytes copied so far, by each thread
          ret           \* what the web server has copied

vars == <<bucket, pc, used, in_len, at, ret>>

\* n = strlen(bucket)
IsStrlen(n) == bucket[n] = 0 /\ \A i \in 0 .. n - 1 : bucket[i] # 0

\* Mutant: the web server has the priority of the OCXO thread.
Higher_Http(t) == IF t = "ctrl" THEN {"ocxo"} ELSE {}

Higher(t) == IF t = "ocxo" THEN {} ELSE IF t = "ctrl" THEN {"ocxo"} ELSE Writers
CanRun(t) == \A h \in Higher(t) : pc[h] = "idle"

\* Mutant: the terminator is forgotten.
Fits_NoZero(n, len) == len <= Size - n

\* The test of debug_print.
Fits(n, len) == len + 1 < Size - n

\* debug_print up to the call of memcpy.
debug_print(t) ==
    /\ CanRun(t) /\ pc[t] = "idle"
    /\ \E n \in Index, len \in Lens[t] :
          /\ IsStrlen(n)
          /\ used' = [used EXCEPT ![t] = n]
          /\ in_len' = [in_len EXCEPT ![t] = len]
          /\ pc' = [pc EXCEPT ![t] = IF Fits(n, len) THEN "copy" ELSE "idle"]
    /\ at' = [at EXCEPT ![t] = 0]
    /\ UNCHANGED <<bucket, ret>>

\* Mutant: memcpy copies the text without its terminator.
Copy_Unterminated(t) ==
    /\ CanRun(t) /\ pc[t] = "copy"
    /\ bucket' = IF at[t] < in_len[t]
                 THEN [bucket EXCEPT ![used[t] + at[t]] = in_len[t] - at[t]] ELSE bucket
    /\ at' = [at EXCEPT ![t] = @ + 1]
    /\ pc' = [pc EXCEPT ![t] = IF at[t] < in_len[t] THEN "copy" ELSE "idle"]
    /\ UNCHANGED <<used, in_len, ret>>

\* memcpy copies a byte; the last one is the terminator.
Copy(t) ==
    /\ CanRun(t) /\ pc[t] = "copy"
    /\ bucket' = [bucket EXCEPT ![used[t] + at[t]] = in_len[t] - at[t]]
    /\ at' = [at EXCEPT ![t] = @ + 1]
    /\ pc' = [pc EXCEPT ![t] = IF at[t] < in_len[t] THEN "copy" ELSE "idle"]
    /\ UNCHANGED <<used, in_len, ret>>

\* A request for the log.
Request ==
    /\ CanRun("http") /\ pc["http"] = "idle"
    /\ pc' = [pc EXCEPT !["http"] = "copy"]
    /\ at' = [at EXCEPT !["http"] = 0]
    /\ ret' = <<>>
    /\ UNCHANGED <<bucket, used, in_len>>

\* strcpy copies a byte, or finds the terminator.
Strcpy ==
    /\ CanRun("http") /\ pc["http"] = "copy"
    /\ \/ /\ bucket[at["http"]] # 0
          /\ ret' = Append(ret, bucket[at["http"]])
          /\ at' = [at EXCEPT !["http"] = @ + 1]
          /\ UNCHANGED pc
       \/ /\ bucket[at["http"]] = 0
          /\ pc' = [pc EXCEPT !["http"] = "empty"]
          /\ UNCHANGED <<at, ret>>
    /\ UNCHANGED <<bucket, used, in_len>>

\* Mutant: the bucket is copied again until it is found empty.
Empty_UntilQuiet ==
    /\ CanRun("http") /\ pc["http"] = "empty"
    /\ bucket' = [bucket EXCEPT ![0] = 0]
    /\ pc' = [pc EXCEPT !["http"] = IF ret = <<>> THEN "idle" ELSE "copy"]
    /\ at' = [at EXCEPT !["http"] = 0] /\ ret' = <<>>
    /\ UNCHANGED <<used, in_len>>

Empty ==
    /\ CanRun("http") /\ pc["http"] = "empty"
    /\ bucket' = [bucket EXCEPT ![0] = 0]
    /\ pc' = [pc EXCEPT !["http"] = "idle"]
    /\ UNCHANGED <<used, in_len, at, ret>>

Init ==
    /\ bucket = [i \in Index |-> 0]
    /\ pc = [t \in Writers \cup {"http"} |-> "idle"]
    /\ used = [t \in Writers |-> 0] /\ in_len = [t \in Writers |-> 0]
    /\ at = [t \in Writers \cup {"http"} |-> 0]
    /\ ret = <<>>

Write == \E t \in Writers : debug_print(t) \/ Copy(t)
Next  == Write \/ Request \/ Strcpy \/ Empty
Spec  == Init /\ [][Next]_vars

\* A thread that has begun runs whenever the threads above it are idle, and
\* those sleep between their texts.  When who prints is left open.
Reader   == Strcpy \/ Empty
Fairness == WF_vars(Copy("ocxo")) /\ SF_vars(Copy("ctrl")) /\ SF_vars(Reader)
FairSpec == Spec /\ Fairness

-----------------------------------------------------------------------------
(* Properties.                                                             *)

\* However the threads interrupt each other, the last byte of the bucket is
\* zero, so that strlen and strcpy end inside of it, and memcpy stays inside.
InBounds ==
    /\ bucket[Size - 1] = 0
    /\ \A t \in Writers : pc[t] = "copy" => used[t] + in_len[t] < Size - 1
    /\ pc["http"] # "idle" => at["http"] < Size

\* The web server sends whole texts: no text is cut, interrupted by another
\* one or followed by what an earlier text left in the bucket.
ReadWhole ==
    pc["http"] = "empty" =>
        \A i \in 1 .. Len(ret) : ret[i] = 1 \/ (i < Len(ret) /\ ret[i + 1] = ret[i] - 1)

\* When debug_print returns to the control thread, its text ends the bucket,
\* whatever the OCXO thread printed in between.
CtrlTextKept ==
    [][pc["ctrl"] = "copy" /\ pc'["ctrl"] = "idle" =>
          /\ IsStrlen(used["ctrl"] + in_len["ctrl"])'
          /\ \A i \in 0 .. in_len["ctrl"] - 1 :
                bucket'[used["ctrl"] + i] = in_len["ctrl"] - i]_vars

\* Every request for the log is answered.
RequestAnswered == pc["http"] = "copy" ~> pc["http"] = "idle"

=============================================================================
