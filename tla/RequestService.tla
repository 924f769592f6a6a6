--------------------------- MODULE RequestService ---------------------------
(***************************************************************************)
(* What the root helper promises the programs that ask it for an           *)
(* operation: operations are performed one at a time, a request is         *)
(* performed at most once, and the answer "ok" or "error" is the truth     *)
(* about it.  Nothing is promised about a request whose connection ends    *)
(* without an answer: it may have been performed, in part or not at all.   *)
(***************************************************************************)
CONSTANT Slots

VARIABLES request,  \* what has become of the operation asked for
          answer    \* what the client that asked can read

vars == <<request, answer>>

Init ==
    /\ request = [k \in Slots |-> "none"]
    /\ answer = [k \in Slots |-> "none"]

Ask(k) ==
    /\ request[k] = "none"
    /\ request' = [request EXCEPT ![k] = "asked"]
    /\ UNCHANGED answer

\* Operations take turns: one that has begun is completed or answered before
\* another begins.
Perform(k) ==
    /\ request[k] \in {"asked", "begun"}
    /\ answer[k] = "none"
    /\ \A j \in Slots \ {k} :
          request[j] \in {"begun", "completed"} => answer[j] # "none"
    /\ \E r \in {"begun", "completed"} : request' = [request EXCEPT ![k] = r]
    /\ UNCHANGED answer

Answer(k) ==
    /\ request[k] # "none"
    /\ answer[k] = "none"
    /\ \E a \in {"ok", "error", "lost"} :
          /\ a = "ok" => request[k] = "completed"
          /\ a = "error" => request[k] # "completed"
          /\ answer' = [answer EXCEPT ![k] = a]
    /\ UNCHANGED request

\* The client has read its answer, or is gone.  A machine that loses power
\* forgets all its requests at once.
Forget(S) ==
    /\ request' = [k \in Slots |-> IF k \in S THEN "none" ELSE request[k]]
    /\ answer' = [k \in Slots |-> IF k \in S THEN "none" ELSE answer[k]]

Next ==
    \/ \E k \in Slots : Ask(k) \/ Perform(k) \/ Answer(k)
    \/ \E S \in SUBSET Slots : Forget(S)

Spec == Init /\ [][Next]_vars
=============================================================================
