--------------------------- MODULE MCTaskRuntime ---------------------------
(* TaskRuntime with two workers, every task of the schedule.               *)
EXTENDS TaskRuntime, TLC

AllKinds == BeatTasks \cup QueueTasks

Symmetry == Permutations(Workers) \cup Permutations(Messages)
              \cup Permutations(Admins)
=============================================================================
