---------------------------- MODULE DeploymentSaga ----------------------------
(***************************************************************************)
(* What a deployment operation promises, without the journal, the reads    *)
(* and the processes: its steps are worked on in order, one at a time and  *)
(* only while it is running; a completed step stays completed; a doubtful  *)
(* step halts everything until it has been resolved; and success means     *)
(* that every step has been completed.                                     *)
(***************************************************************************)
EXTENDS Naturals

CONSTANT N

Steps == 1..N

VARIABLES
  status,   \* of the operation
  touched,  \* steps for which something was created
  done      \* steps that are completed

sagaVars == <<status, touched, done>>

SagaInit ==
  /\ status = "planned"
  /\ touched = {}
  /\ done = {}

Due(s) == s \in Steps \ done /\ \A t \in Steps : t < s => t \in done

Start == status = "planned" /\ status' = "running" /\ UNCHANGED <<touched, done>>

Touch(s) ==
  /\ status = "running" /\ Due(s)
  /\ touched' = touched \cup {s}
  /\ UNCHANGED <<status, done>>

CompleteStep(s) ==
  /\ status = "running" /\ Due(s) /\ s \in touched
  /\ done' = done \cup {s}
  /\ UNCHANGED <<status, touched>>

\* The due step has failed, or nobody knows whether it has.
Halt ==
  /\ status = "running" /\ \E s \in Steps : Due(s)
  /\ status' \in {"doubtful", "stopped"}
  /\ UNCHANGED <<touched, done>>

\* Only a step something was created for can be found to match.
Resolve ==
  /\ status = "doubtful"
  /\ \/ status' = "stopped"
     \/ status' = "running" /\ \E s \in touched : Due(s)
  /\ UNCHANGED <<touched, done>>

Succeed ==
  /\ status = "running" /\ done = Steps
  /\ status' = "succeeded"
  /\ UNCHANGED <<touched, done>>

SagaNext ==
  \/ Start \/ Halt \/ Resolve \/ Succeed
  \/ \E s \in Steps : Touch(s) \/ CompleteStep(s)

SagaSpec == SagaInit /\ [][SagaNext]_sagaVars
=============================================================================
