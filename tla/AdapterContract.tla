--------------------------- MODULE AdapterContract ---------------------------
(***************************************************************************)
(* What an adapter promises of each execution it is given, whichever       *)
(* signals, exits and answers it is made of: the promise settles only once *)
(* the work has ended, and with a result only if the work ended well and   *)
(* nobody had abandoned it.                                                *)
(***************************************************************************)
CONSTANTS Exec, Result

VARIABLES
  work,       \* "idle", "working", or how it ended: "well", "badly"
  abandoned,  \* was the execution cancelled?
  promise     \* "none", "pending", "rejected" or a result

vars == <<work, abandoned, promise>>

Init ==
  /\ work = [e \in Exec |-> "idle"]
  /\ abandoned = [e \in Exec |-> FALSE]
  /\ promise = [e \in Exec |-> "none"]

Begin(e) ==
  /\ promise[e] # "pending"
  /\ abandoned' = [abandoned EXCEPT ![e] = FALSE]
  /\ promise' = [promise EXCEPT ![e] = "pending"]
  /\ work' = [work EXCEPT ![e] = "working"]

Decline(e) ==
  /\ promise[e] # "pending"
  /\ abandoned' = [abandoned EXCEPT ![e] = FALSE]
  /\ promise' = [promise EXCEPT ![e] = "rejected"]
  /\ work' = [work EXCEPT ![e] = "idle"]

Abandon(e) ==
  /\ promise[e] # "none"
  /\ abandoned' = [abandoned EXCEPT ![e] = TRUE]
  /\ UNCHANGED <<work, promise>>

End(e) ==
  /\ work[e] = "working"
  /\ \E how \in {"well", "badly"} : work' = [work EXCEPT ![e] = how]
  /\ UNCHANGED <<abandoned, promise>>

\* the result, or why there is none
Settle(e) ==
  /\ promise[e] = "pending" /\ work[e] \in {"well", "badly"}
  /\ \/ promise' = [promise EXCEPT ![e] = "rejected"]
     \/ /\ work[e] = "well" /\ ~abandoned[e]
        /\ \E v \in Result : promise' = [promise EXCEPT ![e] = v]
  /\ work' = [work EXCEPT ![e] = "idle"]
  /\ UNCHANGED abandoned

\* Work whose caller is gone leaves a promise nobody sees settle.
Fade(e) ==
  /\ work[e] \in {"well", "badly"}
  /\ work' = [work EXCEPT ![e] = "idle"]
  /\ UNCHANGED <<abandoned, promise>>

Next ==
  \E e \in Exec :
    Begin(e) \/ Decline(e) \/ Abandon(e) \/ End(e) \/ Settle(e) \/ Fade(e)

Spec == Init /\ [][Next]_vars

=============================================================================
