------------------------------ MODULE WorkCycle ------------------------------
(***************************************************************************)
(* What a governed WorkCycle promises, whatever the roles answer, the      *)
(* network loses or a cancellation cuts short: code changes only in        *)
(* IN_PROGRESS; a stage is left forwards only when the checks that gate it *)
(* vouch for the code as it is now; any stage can only go back to          *)
(* IN_PROGRESS.  Whatever reaches the last stage was therefore             *)
(* implemented, reviewed, tested and accepted as that very code.           *)
(***************************************************************************)
EXTENDS Naturals

VARIABLES
  stage,   \* the state of the ticket's WorkCycle
  code,    \* version of the code in the worktree
  vouched  \* the version each check was last published for, 0 for none

vars == <<stage, code, vouched>>

Check == {"IMPLEMENTATION", "CODE_REVIEW", "AUTOMATED_TESTS", "ACCEPTANCE_CRITERIA"}

Plan == {
  [from |-> "CLAIMED",     to |-> "IN_PROGRESS",   gates |-> {}],
  [from |-> "IN_PROGRESS", to |-> "REVIEWING",     gates |-> {"IMPLEMENTATION"}],
  [from |-> "REVIEWING",   to |-> "TESTING",       gates |-> {"CODE_REVIEW"}],
  [from |-> "TESTING",     to |-> "SANDBOX_READY",
   gates |-> {"AUTOMATED_TESTS", "ACCEPTANCE_CRITERIA"}] }

\* The checks a stage presupposes.
Behind(s) ==
  CASE s = "REVIEWING"     -> {"IMPLEMENTATION"}
    [] s = "TESTING"       -> {"IMPLEMENTATION", "CODE_REVIEW"}
    [] s = "SANDBOX_READY" -> Check
    [] OTHER               -> {}

Init ==
  /\ stage \in {"CLAIMED", "IN_PROGRESS", "REVIEWING", "TESTING", "SANDBOX_READY", "OTHER"}
  /\ code = 1
  /\ vouched = [c \in Check |-> IF c \in Behind(stage) THEN 1 ELSE 0]

Work ==
  /\ stage = "IN_PROGRESS"
  /\ code' = code + 1
  /\ UNCHANGED <<stage, vouched>>

Vouch(c) ==
  /\ \E p \in Plan : p.from = stage /\ c \in p.gates
  /\ vouched' = [vouched EXCEPT ![c] = code]
  /\ UNCHANGED <<stage, code>>

Advance(p) ==
  /\ stage = p.from
  /\ \A c \in p.gates : vouched[c] = code
  /\ stage' = p.to
  /\ UNCHANGED <<code, vouched>>

Rewind ==
  /\ stage \in {"REVIEWING", "TESTING"}
  /\ stage' = "IN_PROGRESS"
  /\ UNCHANGED <<code, vouched>>

Next ==
  \/ Work \/ Rewind
  \/ \E c \in Check : Vouch(c)
  \/ \E p \in Plan : Advance(p)

Spec == Init /\ [][Next]_vars

=============================================================================
