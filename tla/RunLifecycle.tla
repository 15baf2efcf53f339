---------------------------- MODULE RunLifecycle ----------------------------
(***************************************************************************)
(* What the harness promises about the Runs it claims, whichever process   *)
(* drives them and whatever is lost on the way: a Run is begun once and    *)
(* ended once; it ends with what its execution reported; without a report  *)
(* it can only be FAILED, ABANDONED by Rail, or RELEASED when its process  *)
(* was asked to stop.  COMPLETED therefore always means that an execution  *)
(* reported COMPLETED.                                                     *)
(***************************************************************************)
CONSTANT Run

VARIABLES
  life,     \* "NONE", "OPEN" or the outcome of each Run
  verdict,  \* what its execution reported, "none" before
  asked     \* the Runs whose process was asked to stop

vars == <<life, verdict, asked>>

Outcome == {"COMPLETED", "FAILED", "ABANDONED", "RELEASED"}
Verdicts == Outcome \cup {"unknown", "error"}

Init ==
  /\ life = [r \in Run |-> "NONE"]
  /\ verdict = [r \in Run |-> "none"]
  /\ asked = {}

Begin(r) ==
  /\ life[r] = "NONE"
  /\ life' = [life EXCEPT ![r] = "OPEN"]
  /\ asked' \in {asked, asked \cup {r}}
  /\ UNCHANGED verdict

Judge(r, v) ==
  /\ life[r] # "NONE" /\ verdict[r] = "none"
  /\ verdict' = [verdict EXCEPT ![r] = v]
  /\ UNCHANGED <<life, asked>>

Ask ==
  /\ \E S \in SUBSET Run : asked' = asked \cup S
  /\ UNCHANGED <<life, verdict>>

Permitted(r) ==
  {"ABANDONED"} \cup
  IF verdict[r] = "none"
  THEN {"FAILED"} \cup (IF r \in asked THEN {"RELEASED"} ELSE {})
  ELSE IF verdict[r] \in Outcome THEN {verdict[r]} ELSE {"FAILED"}

End(r) ==
  /\ life[r] = "OPEN"
  /\ \E o \in Permitted(r) : life' = [life EXCEPT ![r] = o]
  /\ UNCHANGED <<verdict, asked>>

\* Run r begins in continuation of the open Run l, which is ABANDONED at once.
Supersede(l, r) ==
  /\ life[l] = "OPEN" /\ life[r] = "NONE"
  /\ life' = [life EXCEPT ![l] = "ABANDONED", ![r] = "OPEN"]
  /\ asked' \in {asked, asked \cup {r}}
  /\ UNCHANGED verdict

Next ==
  \/ \E l, r \in Run : Supersede(l, r)
  \/ \E r \in Run : Begin(r) \/ End(r) \/ \E v \in Verdicts : Judge(r, v)
  \/ Ask

Spec == Init /\ [][Next]_vars

=============================================================================
