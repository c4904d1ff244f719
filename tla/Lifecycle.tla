------------------------------- MODULE Lifecycle ------------------------------
(***************************************************************************)
(* What campd promises to the platform that runs it (the readiness probe   *)
(* of the sandbox, and whoever sends it a signal), without saying how it   *)
(* supervises processes: one initialization that completes or fails for    *)
(* good, readiness that a lost Service ends for good, and one way out, a   *)
(* signal.                                                                 *)
(***************************************************************************)
EXTENDS Integers

CONSTANT Signals

VARIABLES
    phase,  \* "initializing", "serving", "failed", "stopping", "stopped"
    ready,  \* what the readiness endpoint answers
    lost,   \* a Service is known to have exited
    code    \* the exit code, 0 before a signal has been taken

lifeVars == <<phase, ready, lost, code>>

Running == phase \in {"initializing", "serving", "failed"}

Init == phase = "initializing" /\ ready = FALSE /\ lost = FALSE /\ code = 0

\* Initialization completes; readiness may follow at once.
Complete ==
    /\ phase = "initializing" /\ ~lost
    /\ phase' = "serving"
    /\ ready' \in BOOLEAN
    /\ UNCHANGED <<lost, code>>

Fail ==
    /\ phase = "initializing"
    /\ phase' = "failed"
    /\ lost' \in BOOLEAN
    /\ UNCHANGED <<ready, code>>

\* A Service is lost after initialization; the endpoint learns it later.
Lose ==
    /\ phase \in {"serving", "failed"} /\ ~lost
    /\ lost' = TRUE
    /\ UNCHANGED <<phase, ready, code>>

\* Readiness follows the probes while nothing is lost.
Publish ==
    /\ phase = "serving"
    /\ ready' \in {r \in BOOLEAN : r => ~lost}
    /\ UNCHANGED <<phase, lost, code>>

Stop ==
    /\ Running
    /\ phase' = "stopping"
    /\ \E s \in Signals : code' = 128 + s
    /\ ready' \in {r \in BOOLEAN : r => phase = "serving" /\ ~lost}
    /\ UNCHANGED lost

Withdraw ==
    /\ phase = "stopping"
    /\ ready' = FALSE
    /\ UNCHANGED <<phase, lost, code>>

Exit ==
    /\ phase = "stopping" /\ ~ready
    /\ phase' = "stopped"
    /\ UNCHANGED <<ready, lost, code>>

Next == Complete \/ Fail \/ Lose \/ Publish \/ Stop \/ Withdraw \/ Exit

Spec == Init /\ [][Next]_lifeVars

\* Initialization ends, a lost Service is published, a stop is carried out.
Fairness ==
    /\ WF_lifeVars(phase = "initializing" /\ (Complete \/ Fail \/ Stop))
    /\ WF_lifeVars(lost /\ Publish)
    /\ WF_lifeVars(Withdraw)
    /\ WF_lifeVars(Exit)

FairSpec == Spec /\ Fairness
=============================================================================
