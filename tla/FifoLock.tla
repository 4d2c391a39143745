------------------------------ MODULE FifoLock ------------------------------
(***************************************************************************)
(* What the coordinator promises, without its flag and its queue: one      *)
(* caller at a time is inside, and callers that have to wait enter in the  *)
(* order they arrived.  ahead[c] is who must enter before c may.           *)
(***************************************************************************)
CONSTANT Callers
VARIABLES status, ahead
vars == <<status, ahead>>

Waiting == {c \in Callers : status[c] = "waiting"}
Empty == \A c \in Callers : status[c] # "in"

Init ==
    /\ status = [c \in Callers |-> "out"]
    /\ ahead = [c \in Callers |-> {}]

\* c has to wait: everyone already waiting comes first.
Arrive(c) ==
    /\ status[c] = "out"
    /\ status' = [status EXCEPT ![c] = "waiting"]
    /\ ahead' = [ahead EXCEPT ![c] = Waiting]

\* c enters at once when nobody is inside and nobody waits.
Walk(c) ==
    /\ status[c] = "out"
    /\ Empty /\ Waiting = {}
    /\ status' = [status EXCEPT ![c] = "in"]
    /\ UNCHANGED ahead

\* c has waited its turn.
Enter(c) ==
    /\ status[c] = "waiting"
    /\ Empty /\ ahead[c] = {}
    /\ status' = [status EXCEPT ![c] = "in"]
    /\ ahead' = [d \in Callers |-> ahead[d] \ {c}]

Leave(c) ==
    /\ status[c] = "in"
    /\ status' = [status EXCEPT ![c] = "out"]
    /\ UNCHANGED ahead

Next == \E c \in Callers : Arrive(c) \/ Walk(c) \/ Enter(c) \/ Leave(c)
Fairness == \A c \in Callers : WF_vars(Enter(c)) /\ WF_vars(Leave(c))
SafeSpec == Init /\ [][Next]_vars
Spec == SafeSpec /\ Fairness
=============================================================================
