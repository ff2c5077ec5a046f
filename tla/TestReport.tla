----------------------------- MODULE TestReport -----------------------------
(***************************************************************************)
(* What test.py promises, without its threads and queues: each job gets    *)
(* one outcome, which never changes, and the exit code is 0 if all of them *)
(* passed or were skipped.  A run may also stop without an exit code.      *)
(***************************************************************************)
CONSTANTS Jobs, Outcomes

VARIABLES
  outcome,  \* of each job, "pending" until it is known
  exit      \* "none" until the end

Init ==
  /\ outcome = [j \in Jobs |-> "pending"]
  /\ exit = "none"

Report(j, o) ==
  /\ outcome[j] = "pending" /\ exit = "none"
  /\ outcome' = [outcome EXCEPT ![j] = o]
  /\ UNCHANGED exit

Finish ==
  /\ exit = "none" /\ \A j \in Jobs : outcome[j] # "pending"
  /\ exit' = IF \A j \in Jobs : outcome[j] \in {"PASS", "SKIP"} THEN "0" ELSE "1"
  /\ UNCHANGED outcome

Next == (\E j \in Jobs, o \in Outcomes : Report(j, o)) \/ Finish

Spec == Init /\ [][Next]_<<outcome, exit>>
=============================================================================
