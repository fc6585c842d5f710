---------------------------- MODULE MCWorkerLease ----------------------------
(***************************************************************************)
(* Instances of WorkerLease for TLC.                                       *)
(***************************************************************************)
EXTENDS WorkerLeaseContract, TLC

\* Times that never come within the bound, and times of the first job that do.
Later == [j \in Jobs |-> MaxClock + 1]
Soon  == [j \in Jobs |-> IF j = 1 THEN 2 ELSE 3]
Early == [j \in Jobs |-> IF j = 1 THEN 0 ELSE MaxClock + 1]
NoJobs == {}
LastJob == {3}

\* Workers and slots are interchangeable.
Symmetry == Permutations(Workers) \cup Permutations(Slots)
==============================================================================
