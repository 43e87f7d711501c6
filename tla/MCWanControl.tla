----------------------------- MODULE MCWanControl -----------------------------
(* Small instances of WanControl: the links 1 and 2 of one device, policies 1
   and 2 for it; requests of one kind are interchangeable. *)
EXTENDS WanControl, TLC

CONSTANTS d1, o1, o2, e1, e2

MCDeviceOf == [l \in Links |-> d1]
MCPolicyDevice == [p \in Policies |-> d1]
ByLoss == [p \in Policies |-> IF p = 1 THEN "combined" ELSE "latency"]
ByLatency == [p \in Policies |-> "latency"]

UpOrDown   == {<<"up", "good">>, <<"down", "good">>}
SlowOrDown == {<<"up", "slow">>, <<"down", "good">>}
AnyHealth  == {<<"up", "good">>, <<"up", "bad">>, <<"down", "good">>}

Interchangeable == Permutations(Operators) \cup Permutations(Evaluators)
=============================================================================
