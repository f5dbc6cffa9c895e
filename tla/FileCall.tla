------------------------------ MODULE FileCall ------------------------------
(***************************************************************************)
(* What a caller of files.get is promised, with none of the streaming: it  *)
(* asks, and is answered once, with the whole file or with an error.       *)
(***************************************************************************)
CONSTANT Caller

VARIABLE call  \* call[c]: idle, asking, whole or error

vars == <<call>>

Init == call = [c \in Caller |-> "idle"]

Ask(c) == call[c] = "idle" /\ call' = [call EXCEPT ![c] = "asking"]

\* Those in S are answered; a logout answers everyone at once.
Answer(S) ==
    /\ \A c \in S : call[c] = "asking"
    /\ \E result \in {"whole", "error"} :
          call' = [c \in Caller |-> IF c \in S THEN result ELSE call[c]]

Take(c) == call[c] \in {"whole", "error"} /\ call' = [call EXCEPT ![c] = "idle"]

\* The app is killed: whoever was asking is gone.
Abandon == call' = [c \in Caller |-> "idle"]

Next ==
    \/ Abandon
    \/ \E S \in SUBSET Caller : Answer(S)
    \/ \E c \in Caller : Ask(c) \/ Take(c)

Spec == Init /\ [][Next]_vars
=============================================================================
