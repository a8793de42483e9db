------------------------------ MODULE BatchRun ------------------------------
(***************************************************************************)
(* What `with GpuPool(...) as pool: return pool.run(jobs)` promises its    *)
(* callers, evaluate_model and run_generation_phase: one result per job,   *)
(* in the order of the jobs, or an exception that something caused.  Who   *)
(* answers which job, when, and how that reaches the driver is left open.  *)
(***************************************************************************)
EXTENDS Naturals

CONSTANT NJobs

VARIABLES
    answered,   \* the jobs whose results have been delivered
    failed,     \* something has gone wrong
    outcome,    \* of the block: "none", "returned" or "raised"
    value       \* the list run returned: job numbers, 0 for an error

vars == <<answered, failed, outcome, value>>

Init == answered = {} /\ failed = FALSE /\ outcome = "none" /\ value = << >>

\* A job is answered, once, even when nobody waits for it any more.
Answer(b) ==
    /\ b \notin answered /\ answered' = answered \cup {b}
    /\ UNCHANGED <<failed, outcome, value>>

Fail == failed' = TRUE /\ UNCHANGED <<answered, outcome, value>>

\* The list is complete and in order.
Return ==
    /\ outcome = "none" /\ answered = 1..NJobs
    /\ outcome' = "returned" /\ value' = [b \in 1..NJobs |-> b]
    /\ UNCHANGED <<answered, failed>>

\* Only after a failure, or because of one.
Raise ==
    /\ outcome = "none" /\ failed' = TRUE /\ outcome' = "raised"
    /\ UNCHANGED <<answered, value>>

Next == (\E b \in 1..NJobs : Answer(b)) \/ Fail \/ Return \/ Raise

Spec == Init /\ [][Next]_vars
=============================================================================
