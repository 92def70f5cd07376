----------------------------- MODULE JobContract -----------------------------
(***************************************************************************)
(* What the service promises of one job, seen from outside: the status a   *)
(* client polls, the executions that were asked for, and who may change    *)
(* the status when.  JobExecution is shown to implement it.                *)
(*                                                                         *)
(*   - A job is executed once for its creation and once for every resume   *)
(*     request, which is accepted only while the job shows FAILED.         *)
(*   - QUEUED is shown by an accepted request, everything else by an       *)
(*     execution; a job that is gone changes its status no more.           *)
(*   - An execution that has published a result changes the status no      *)
(*     more, except that the disk check may still withdraw it as FAILED.   *)
(*   - When the last execution has ended, the status is a final one.       *)
(***************************************************************************)
EXTENDS Naturals

CONSTANT Runs  \* the goroutines that may execute the job

VARIABLES
    alive,      \* the process has not died
    present,    \* the job is in the repository
    status,     \* what a client polls
    waiting,    \* executions asked for and not begun
    active,     \* executions begun and not ended
    published   \* those of them that have published a result

vars == <<alive, present, status, waiting, active, published>>

Final == {"COMPLETED", "PARTIAL_SUCCESS", "FAILED"}

Init ==
    /\ alive = TRUE /\ present = TRUE /\ status = "QUEUED"
    /\ waiting = 1 /\ active = {} /\ published = {}

-----------------------------------------------------------------------------
\* A resume request passes its check, and later shows QUEUED.
Request ==
    /\ present /\ status = "FAILED"
    /\ waiting' = waiting + 1
    /\ UNCHANGED <<alive, present, status, active, published>>

Requeue ==
    /\ present /\ waiting > 0
    /\ status' = "QUEUED"
    /\ UNCHANGED <<alive, present, waiting, active, published>>

Begin(r) ==
    /\ waiting > 0 /\ r \notin active
    /\ waiting' = waiting - 1
    /\ active' = active \cup {r}
    /\ UNCHANGED <<alive, present, status, published>>

Show(r) ==
    /\ present /\ r \in active \ published
    /\ status' \in {"RUNNING", "FAILED"}
    /\ UNCHANGED <<alive, present, waiting, active, published>>

Publish(r) ==
    /\ r \in active \ published
    /\ published' = published \cup {r}
    /\ IF present THEN status' \in {"COMPLETED", "PARTIAL_SUCCESS"} ELSE UNCHANGED status
    /\ UNCHANGED <<alive, present, waiting, active>>

\* The disk check of an execution that has not returned yet.
Withdraw(r) ==
    /\ present /\ r \in active
    /\ status' = "FAILED"
    /\ UNCHANGED <<alive, present, waiting, active, published>>

\* An execution that gives up may still show FAILED as it ends.
End(r) ==
    /\ r \in active
    /\ \/ UNCHANGED status
       \/ present /\ r \notin published /\ status' = "FAILED"
    /\ active' = active \ {r}
    /\ published' = published \ {r}
    /\ present /\ active' = {} /\ waiting = 0 => status' \in Final
    /\ UNCHANGED <<alive, present, waiting>>

Remove ==
    /\ present' = FALSE
    /\ UNCHANGED <<alive, status, waiting, active, published>>

Die ==
    /\ active # {}
    /\ alive' = FALSE
    /\ UNCHANGED <<present, status, waiting, active, published>>

Next ==
    /\ alive
    /\ \/ Request \/ Requeue \/ Remove \/ Die
       \/ \E r \in Runs : Begin(r) \/ Show(r) \/ Publish(r) \/ Withdraw(r) \/ End(r)

Spec == Init /\ [][Next]_vars
=============================================================================
