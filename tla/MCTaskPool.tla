----------------------------- MODULE MCTaskPool -----------------------------
(* The instance of TaskPool that TLC checks: the boot script submits two     *)
(* jobs and waits; both submit jobs and wait for them in turn, and below one *)
(* of them two jobs are left to themselves.  Up to two workers.              *)
EXTENDS TaskPool, TLC

CONSTANTS job1, job2, job3, job4, job5, job6, worker1, worker2

MCJobs == {job1, job2, job3, job4, job5, job6}
MCChildren == (Boot :> {job1, job2}) @@ (job1 :> {job3}) @@ (job2 :> {job4})
              @@ (job4 :> {job5}) @@ (job5 :> {job6}) @@ [j \in {job3, job6} |-> {}]
MCWaiters == {Boot, job1, job2}
MCWorkers == {worker1, worker2}
=============================================================================
