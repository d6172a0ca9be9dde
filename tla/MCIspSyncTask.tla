---------------------------- MODULE MCIspSyncTask ----------------------------
(* Model checking of IspSyncTask: tasks are named by their number. *)
EXTENDS IspSyncTask

(* Every task has an id of its own. *)
DistinctIds == <<"af", "iris", "led", "ir", "flash">>

(* The work item calls the first two tasks, the interrupt the others: more    *)
(* than it can count.                                                       *)
MixedMethods == [t \in Tasks |-> IF t > 2 THEN "irq" ELSE "work"]
=============================================================================
