------------------------------ MODULE ProbeState ------------------------------
(* The readiness state of one probed Service: ProbeState and its observe()   *)
(* in cmd/campd/src/runtime.rs.                                              *)
EXTENDS Integers

CONSTANTS
    SuccessThreshold,   \* probe.success_threshold
    FailureThreshold,   \* probe.failure_threshold
    CounterMax          \* u32::MAX, where saturating_add stops

ASSUME ThresholdsAssumption ==
    /\ CounterMax \in Nat
    /\ SuccessThreshold \in 1..CounterMax
    /\ FailureThreshold \in 1..CounterMax

ProbeStates == [health : {"Starting", "Ready", "Unready"},
                succ : 0..CounterMax, fail : 0..CounterMax]

NewProbe == [health |-> "Starting", succ |-> 0, fail |-> 0]

Counted(n) == n + 1     \* mutant: no saturation
Saturated(n) == IF n < CounterMax THEN n + 1 ELSE n

\* Mutant: a success does not end a run of failures.
ObserveKeepingFailures(p, success) ==
    IF success
    THEN [p EXCEPT !.succ = Saturated(@),
                   !.health = IF Saturated(p.succ) >= SuccessThreshold THEN "Ready" ELSE @]
    ELSE [health |-> IF Saturated(p.fail) >= FailureThreshold THEN "Unready" ELSE p.health,
          succ |-> 0, fail |-> Saturated(p.fail)]

Observe(p, success) ==
    IF success
    THEN [health |-> IF Saturated(p.succ) >= SuccessThreshold THEN "Ready" ELSE p.health,
          succ |-> Saturated(p.succ), fail |-> 0]
    ELSE [health |-> IF Saturated(p.fail) >= FailureThreshold THEN "Unready" ELSE p.health,
          succ |-> 0, fail |-> Saturated(p.fail)]
=============================================================================
