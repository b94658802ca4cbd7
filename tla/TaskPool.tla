------------------------------ MODULE TaskPool ------------------------------
(***************************************************************************)
(* NeuronCore/TaskPool: the boot task pool.  Workers take jobs from one    *)
(* queue under one mutex and sleep on one condition variable.  A job may   *)
(* submit jobs of its own and wait for them, and a thread that waits runs  *)
(* whatever is queued, so a thread's jobs are a stack.  The thread that    *)
(* started the pool submits the first jobs, waits for them and stops it.   *)
(*                                                                         *)
(* A job is a script: submit Children[j], in any order; then, if j is in   *)
(* Waiters, wait for them; then end (returning and throwing end alike, by  *)
(* RunJob).  The starting thread runs the script Boot and then Stop.  Each *)
(* action is one step between which another thread can run.                *)
(***************************************************************************)
EXTENDS Integers, Sequences, FiniteSets, SequencesExt

CONSTANTS
    Jobs,
    Boot,         \* what the starting thread does, a script like a job
    Children,     \* Children[j]: the jobs j submits
    Waiters,      \* the jobs that wait for what they submit, with a WaitGroup
    Workers,      \* the threads a machine may have for it
    Main,         \* the starting thread
    Nobody,       \* no thread: the mutex is free
    MaxSpurious   \* bound: wake-ups nobody caused

Scripts == Jobs \cup {Boot}
Threads == Workers \cup {Main}

ASSUME PoolAssumption ==
    /\ IsFiniteSet(Jobs)
    /\ Boot \notin Jobs /\ Main \notin Workers /\ Nobody \notin Workers \cup {Main}
    /\ Children \in [Scripts -> SUBSET Jobs] /\ Waiters \subseteq Scripts
    /\ \A j \in Jobs : Cardinality({p \in Scripts : j \in Children[p]}) = 1
    /\ MaxSpurious \in Nat

VARIABLES
    crew,         \* m_workers: how many there are is the machine's choice, and may be none
    queue,        \* m_queue
    mutex,        \* who holds m_mutex between two steps
    asleep,       \* the workers inside m_wakeUp.wait
    stopping,     \* m_stopRequested
    outstanding,  \* outstanding[j]: the WaitGroup on j's stack frame
    completed,    \* m_completed
    stack,        \* stack[t]: the scripts t is in, innermost last
    mode,         \* mode[t]: where t is when its stack says no more
    ran,          \* history: how often each job was begun
    spurious      \* wake-ups so far that nobody caused

vars == <<crew, queue, mutex, asleep, stopping, outstanding, completed, stack, mode, ran, spurious>>

Frame == [job : Scripts, at : {"submit", "push", "notify", "wait", "help", "end", "count"},
          left : SUBSET Jobs, next : Jobs \cup {Nobody}]

Enter(j) == [job |-> j, at |-> "submit", left |-> Children[j], next |-> Nobody]
Top(t) == Last(stack[t])
Running(t) == stack[t] # <<>>
AtStep(t, at) == Running(t) /\ Top(t).at = at
SetTop(t, f) == stack' = [stack EXCEPT ![t] = Append(Front(@), f)]
Goto(t, at) == SetTop(t, [Top(t) EXCEPT !.at = at])

\* The group a job was submitted to, if its parent waits for one.
Parent(j) == CHOOSE p \in Scripts : j \in Children[p]
Grouped(j) == Parent(j) \in Waiters

\* No job is submitted by one that it leads to: all go back to the starting thread.
ASSUME TreeAssumption == \A S \in SUBSET Jobs : S # {} => \E j \in S : Parent(j) \notin S

Free == mutex = Nobody

TypeOK ==
    /\ crew \subseteq Workers
    /\ queue \in Seq(Jobs) /\ mutex \in Workers \cup {Nobody} /\ asleep \subseteq Workers
    /\ stopping \in BOOLEAN /\ completed \in 0..Cardinality(Jobs)
    /\ outstanding \in [Scripts -> 0..Cardinality(Jobs)]
    /\ stack \in [Threads -> Seq(Frame)]
    /\ mode \in [Threads -> {"look", "block", "sleep", "gone", "drain", "flag", "wake", "join", "stopped"}]
    /\ ran \in [Jobs -> 0..1] /\ spurious \in 0..MaxSpurious

Init ==
    /\ crew \in SUBSET Workers
    /\ queue = <<>> /\ mutex = Nobody /\ asleep = {} /\ stopping = FALSE /\ completed = 0
    /\ outstanding = [j \in Scripts |-> 0]
    /\ stack = [t \in Threads |-> IF t = Main THEN <<Enter(Boot)>> ELSE <<>>]
    /\ mode = [t \in Threads |-> IF t = Main THEN "drain" ELSE IF t \in crew THEN "look" ELSE "gone"]
    /\ ran = [j \in Jobs |-> 0] /\ spurious = 0

\* WaitGroup::Add, Done and Finished
Counted(j) == IF Grouped(j) THEN [outstanding EXCEPT ![Parent(j)] = @ + 1] ELSE outstanding

UncountedGroupOrNot(j) == [outstanding EXCEPT ![Parent(j)] = @ - 1]

Uncounted(j) == IF Grouped(j) THEN [outstanding EXCEPT ![Parent(j)] = @ - 1] ELSE outstanding

QueueEmpty(j) == queue = <<>>

Settled(j) == outstanding[j] = 0

\* A worker goes only when there is nothing left to take; the flag is set under
\* the mutex.
LeavesWhenTold == stopping

MayLeave == queue = <<>> /\ stopping

PublishesAnyTime == TRUE

MayPublish == Free

\* TryTakeJob, and the start of RunJob on top of what t is in already.
Take(t) ==
    /\ Free /\ queue # <<>>
    /\ queue' = Tail(queue)
    /\ stack' = [stack EXCEPT ![t] = Append(@, Enter(Head(queue)))]
    /\ ran' = [ran EXCEPT ![Head(queue)] = @ + 1]

-----------------------------------------------------------------------------
(* Submit: the group counts the job before the queue holds it. *)

SubmitAdd(t) ==
    /\ AtStep(t, "submit") /\ Top(t).left # {}
    /\ \E j \in Top(t).left :
         /\ SetTop(t, [Top(t) EXCEPT !.at = "push", !.left = @ \ {j}, !.next = j])
         /\ outstanding' = Counted(j)
    /\ UNCHANGED <<crew, queue, mutex, asleep, stopping, completed, mode, ran, spurious>>

SubmitPush(t) ==
    /\ AtStep(t, "push") /\ Free
    /\ queue' = Append(queue, Top(t).next)
    /\ Goto(t, "notify")
    /\ UNCHANGED <<crew, mutex, asleep, stopping, outstanding, completed, mode, ran, spurious>>

\* notify_one wakes a sleeper if there is one, and is forgotten if not.
SubmitNotify(t) ==
    /\ AtStep(t, "notify")
    /\ SetTop(t, [Top(t) EXCEPT !.at = "submit", !.next = Nobody])
    /\ \/ asleep = {} /\ UNCHANGED <<asleep, mode>>
       \/ \E w \in asleep : asleep' = asleep \ {w} /\ mode' = [mode EXCEPT ![w] = "look"]
    /\ UNCHANGED <<crew, queue, mutex, stopping, outstanding, completed, ran, spurious>>

SubmitDone(t) ==
    /\ AtStep(t, "submit") /\ Top(t).left = {}
    /\ Goto(t, IF Top(t).job \in Waiters THEN "wait" ELSE "end")
    /\ UNCHANGED <<crew, queue, mutex, asleep, stopping, outstanding, completed, mode, ran, spurious>>

-----------------------------------------------------------------------------
(* Wait: run rather than block. *)

WaitLooks(t) ==
    /\ AtStep(t, "wait")
    /\ Goto(t, IF Settled(Top(t).job) THEN "end" ELSE "help")
    /\ UNCHANGED <<crew, queue, mutex, asleep, stopping, outstanding, completed, mode, ran, spurious>>

WaitHelps(t) ==
    /\ AtStep(t, "help") /\ Take(t)
    /\ UNCHANGED <<crew, mutex, asleep, stopping, outstanding, completed, mode, spurious>>

\* Nothing is queued: with no workers the count must be wrong, and Wait gives up;
\* otherwise it yields and looks again.
WaitYields(t) ==
    /\ AtStep(t, "help") /\ Free /\ queue = <<>>
    /\ Goto(t, IF crew = {} THEN "end" ELSE "wait")
    /\ UNCHANGED <<crew, queue, mutex, asleep, stopping, outstanding, completed, mode, ran, spurious>>

-----------------------------------------------------------------------------
(* The end of RunJob, and of the turn that called it. *)

\* WaitGroup::Done
JobDone(t) ==
    /\ AtStep(t, "end") /\ Top(t).job # Boot
    /\ outstanding' = Uncounted(Top(t).job)
    /\ Goto(t, "count")
    /\ UNCHANGED <<crew, queue, mutex, asleep, stopping, completed, mode, ran, spurious>>

\* A thread that was helping goes back to its own wait.
Return(s) == IF s # <<>> /\ Last(s).at = "help" THEN Append(Front(s), [Last(s) EXCEPT !.at = "wait"]) ELSE s

JobCounted(t) ==
    /\ AtStep(t, "count")
    /\ completed' = completed + 1
    /\ stack' = [stack EXCEPT ![t] = Return(Front(@))]
    /\ UNCHANGED <<crew, queue, mutex, asleep, stopping, outstanding, mode, ran, spurious>>

-----------------------------------------------------------------------------
(* WorkerLoop *)

\* The predicate, with the mutex held; a worker that finds nothing keeps the mutex
\* until it is asleep.
WorkerLooks(w) ==
    /\ ~Running(w) /\ mode[w] = "look" /\ Free
    /\ \/ /\ Take(w)
          /\ UNCHANGED <<mutex, mode>>
       \/ /\ MayLeave
          /\ mode' = [mode EXCEPT ![w] = "gone"]
          /\ UNCHANGED <<queue, stack, ran, mutex>>
       \/ /\ queue = <<>> /\ ~stopping
          /\ mode' = [mode EXCEPT ![w] = "block"]
          /\ mutex' = w
          /\ UNCHANGED <<queue, stack, ran>>
    /\ UNCHANGED <<crew, asleep, stopping, outstanding, completed, spurious>>

WorkerBlocks(w) ==
    /\ mode[w] = "block"
    /\ mode' = [mode EXCEPT ![w] = "sleep"]
    /\ asleep' = asleep \cup {w} /\ mutex' = Nobody
    /\ UNCHANGED <<crew, queue, stopping, outstanding, completed, stack, ran, spurious>>

SpuriousWakeUp(w) ==
    /\ w \in asleep /\ spurious < MaxSpurious
    /\ spurious' = spurious + 1
    /\ asleep' = asleep \ {w} /\ mode' = [mode EXCEPT ![w] = "look"]
    /\ UNCHANGED <<crew, queue, mutex, stopping, outstanding, completed, stack, ran>>

-----------------------------------------------------------------------------
(* Stop: drain, then the flag, then everybody is woken, then join. *)

StopBegins ==
    /\ AtStep(Main, "end") /\ Top(Main).job = Boot
    /\ stack' = [stack EXCEPT ![Main] = <<>>]
    /\ UNCHANGED <<crew, queue, mutex, asleep, stopping, outstanding, completed, mode, ran, spurious>>

Drain ==
    /\ ~Running(Main) /\ mode[Main] = "drain" /\ Free
    /\ \/ /\ Take(Main)
          /\ UNCHANGED mode
       \/ /\ queue = <<>>
          /\ mode' = [mode EXCEPT ![Main] = "flag"]
          /\ UNCHANGED <<queue, stack, ran>>
    /\ UNCHANGED <<crew, mutex, asleep, stopping, outstanding, completed, spurious>>

SetFlag ==
    /\ mode[Main] = "flag" /\ MayPublish
    /\ stopping' = TRUE
    /\ mode' = [mode EXCEPT ![Main] = "wake"]
    /\ UNCHANGED <<crew, queue, mutex, asleep, outstanding, completed, stack, ran, spurious>>

WakeAll ==
    /\ mode[Main] = "wake"
    /\ asleep' = {}
    /\ mode' = [t \in Threads |-> IF t = Main THEN "join" ELSE IF t \in asleep THEN "look" ELSE mode[t]]
    /\ UNCHANGED <<crew, queue, mutex, stopping, outstanding, completed, stack, ran, spurious>>

Join ==
    /\ mode[Main] = "join" /\ \A w \in Workers : mode[w] = "gone"
    /\ mode' = [mode EXCEPT ![Main] = "stopped"]
    /\ UNCHANGED <<crew, queue, mutex, asleep, stopping, outstanding, completed, stack, ran, spurious>>

-----------------------------------------------------------------------------

InJob(t) ==
    \/ SubmitAdd(t) \/ SubmitPush(t) \/ SubmitNotify(t) \/ SubmitDone(t)
    \/ WaitLooks(t) \/ WaitHelps(t) \/ WaitYields(t)
    \/ JobDone(t) \/ JobCounted(t)

Worker(w) == InJob(w) \/ WorkerLooks(w) \/ WorkerBlocks(w)

Starter == InJob(Main) \/ StopBegins \/ Drain \/ SetFlag \/ WakeAll \/ Join

Next == (\E w \in Workers : Worker(w) \/ SpuriousWakeUp(w)) \/ Starter

(* The operating system runs every thread that can run. *)
Fairness == (\A w \in Workers : WF_vars(Worker(w))) /\ WF_vars(Starter)

Spec == Init /\ [][Next]_vars /\ Fairness

-----------------------------------------------------------------------------
(* Properties *)

InFlight(j) == \E t \in Threads : \E i \in DOMAIN stack[t] : stack[t][i].job = j
Finished(j) == ran[j] = 1 /\ ~ \E t \in Threads : \E i \in DOMAIN stack[t] :
                                 stack[t][i].job = j /\ stack[t][i].at # "count"

(* Wait returns only when everything submitted to the group has ended: the   *)
(* group lives on the waiter's stack, and a job that ended later would count *)
(* down a group that is gone.                                                *)
WaitMeansDone ==
    \A t \in Threads : \A i \in DOMAIN stack[t] :
        LET f == stack[t][i]
        IN  f.job \in Waiters /\ f.at \in {"end", "count"} => \A j \in Children[f.job] : Finished(j)

(* A job is in one place only, the queue or one thread's stack, whoever is   *)
(* helping whom, and it is begun once (TypeOK).                              *)
JobInOnePlace ==
    \A j \in Jobs :
        LET queued == {i \in DOMAIN queue : queue[i] = j}
            stacked == {x \in Threads \X (1..Cardinality(Scripts)) :
                            x[2] <= Len(stack[x[1]]) /\ stack[x[1]][x[2]].job = j}
        IN  Cardinality(queued) + Cardinality(stacked) <= 1

(* Queued work is finished, not abandoned (TaskPool.cpp:92): when Stop has   *)
(* returned every job has been run and counted, those submitted while it was *)
(* under way as well.                                                        *)
StopFinishesWork ==
    mode[Main] = "stopped" =>
        queue = <<>> /\ completed = Cardinality(Jobs) /\ \A j \in Jobs : Finished(j)

(* So every job submitted is run to its end, and once.                       *)
JobsRunOnce == JobInOnePlace /\ StopFinishesWork

(* Every wait comes to an end and so does Stop: no two waiting threads hold  *)
(* each other's jobs on their stacks, and no worker sleeps through the flag. *)
StopReturns == <>(mode[Main] = "stopped")
=============================================================================
