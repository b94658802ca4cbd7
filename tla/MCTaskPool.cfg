SPECIFICATION Spec
CONSTANTS
    job1 = job1
    job2 = job2
    job3 = job3
    job4 = job4
    job5 = job5
    job6 = job6
    worker1 = worker1
    worker2 = worker2
    Boot = boot
    Main = main
    Nobody = nobody
    Jobs <- MCJobs
    Children <- MCChildren
    Waiters <- MCWaiters
    Workers <- MCWorkers
    MaxSpurious = 1
INVARIANTS
    TypeOK
    WaitMeansDone
    JobsRunOnce
PROPERTY StopReturns
CHECK_DEADLOCK FALSE
