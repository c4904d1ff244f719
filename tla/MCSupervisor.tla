----------------------------- MODULE MCSupervisor -----------------------------
(* Instances of Supervisor for TLC: the declaration lists of the runs. *)
EXTENDS Supervisor

Plain  == [kind |-> "Service", probed |-> FALSE]
Gated  == [kind |-> "Service", probed |-> TRUE]
Job    == [kind |-> "RunToCompletion", probed |-> FALSE]

ShortLists  == {<<Gated>>, <<Plain, Job>>}
LongLists   == {<<Job, Gated, Plain>>, <<Gated, Job, Plain>>}
GroupLists  == {<<Gated>>, <<Job, Plain>>, <<Plain, Job>>}
=============================================================================
