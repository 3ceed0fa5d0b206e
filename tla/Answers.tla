------------------------------- MODULE Answers -------------------------------
(***************************************************************************)
(* What a connection promises to whoever issues a command on it: the       *)
(* answers of the server arrive one after the other, whole, in order and   *)
(* none twice; a command that succeeds has all of them, and one that was   *)
(* refused never succeeds.  How the bytes come, in how many pieces and     *)
(* over how many sockets cannot be seen.                                   *)
(***************************************************************************)
EXTENDS Sequences, SequencesExt

VARIABLES
    goal,      \* the answers to the command up to its refusal, if any
    refused,   \* the server refuses the command
    answers,   \* those that have arrived
    status     \* "idle", "pending", "ok", "failed"

vars == <<goal, refused, answers, status>>

Init == goal = <<>> /\ ~refused /\ answers = <<>> /\ status = "idle"

Ask ==
    /\ status = "idle" /\ status' = "pending"
    /\ answers' = <<>>

Arrive ==
    /\ status = "pending"
    /\ Len(answers) < Len(goal)
    /\ answers' = Append(answers, goal[Len(answers) + 1])
    /\ UNCHANGED <<goal, refused, status>>

\* The request is sent again, and what has arrived is forgotten.
StartAgain ==
    /\ status = "pending"
    /\ answers' = <<>>
    /\ UNCHANGED <<goal, refused, status>>

Succeed ==
    /\ status = "pending" /\ answers = goal /\ ~refused
    /\ status' = "ok"
    /\ UNCHANGED <<goal, refused, answers>>

Fail ==
    /\ status = "pending"
    /\ status' = "failed"
    /\ UNCHANGED <<goal, refused, answers>>

Forget ==
    /\ status \in {"ok", "failed"} /\ status' = "idle"
    /\ answers' = <<>>

Next == Ask \/ Arrive \/ StartAgain \/ Succeed \/ Fail \/ Forget

Spec == Init /\ [][Next]_vars
=============================================================================
