--------------------------- MODULE TaskPoolProofs ---------------------------
(* Proofs about module TaskPool: for any scripts of jobs and any number of   *)
(* workers, a wait returns when the work it waited for is done, no job is in *)
(* two places or run twice, a stopped pool has run them all, and until then  *)
(* some thread always has something to do.                                   *)
EXTENDS TaskPool, FiniteSetTheorems, SequenceTheorems, WellFoundedInduction, TLAPS

\* Where a job may be.
Held(j) == \E t \in Threads : \E i \in 1..Len(stack[t]) : j \in stack[t][i].left
InHand(j) == \E t \in Threads : \E i \in 1..Len(stack[t]) :
                 stack[t][i].at = "push" /\ stack[t][i].next = j
Queued(j) == \E i \in 1..Len(queue) : queue[i] = j
OnStack(j) == \E t \in Threads : \E i \in 1..Len(stack[t]) : stack[t][i].job = j
Doing(j) == \E t \in Threads : \E i \in 1..Len(stack[t]) :
                stack[t][i].job = j /\ stack[t][i].at # "count"
Begun(p) == p = Boot \/ ran[p] = 1

\* What the group of its parent counts.
Live(j) == InHand(j) \/ Queued(j) \/ Doing(j)
LiveOf(p) == {j \in Children[p] : Live(j)}
Gone == {j \in Jobs : ran[j] = 1 /\ ~OnStack(j)}

Typed ==
    /\ queue \in Seq(Jobs) /\ stack \in [Threads -> Seq(Frame)] /\ ran \in [Jobs -> 0..1]
    /\ outstanding \in [Scripts -> Nat] /\ completed \in Nat

\* What a frame says.
Framed ==
    \A t \in Threads : \A i \in 1..Len(stack[t]) :
        LET f == stack[t][i] IN
        /\ i < Len(stack[t]) => f.at = "help"
        /\ f.at \in {"wait", "help"} => f.job \in Waiters
        /\ f.at \notin {"submit", "push", "notify"} => f.left = {}
        /\ f.left \subseteq Children[f.job]
        /\ f.at \in {"push", "notify"} => f.next \in Jobs
        /\ f.at = "push" => f.next \in Children[f.job] /\ f.next \notin f.left
        /\ f.job = Boot => t = Main /\ i = 1
        /\ f.at = "count" => f.job # Boot

\* A script is on one stack, once, and nothing is on top of a job it submitted.
Placed ==
    /\ \A t, u \in Threads : \A i \in 1..Len(stack[t]), k \in 1..Len(stack[u]) :
         stack[t][i].job = stack[u][k].job => t = u /\ i = k
    /\ \A t \in Threads : \A i, k \in 1..Len(stack[t]) :
         i < k => stack[t][i].job \notin Children[stack[t][k].job]

Distinct == \A i, k \in 1..Len(queue) : queue[i] = queue[k] => i = k

\* A job is held by its parent, then in its hand, then queued, then begun.
InTurn ==
    \A j \in Jobs :
        /\ OnStack(j) => ran[j] = 1
        /\ Queued(j) => ran[j] = 0 /\ Begun(Parent(j))
        /\ InHand(j) => ran[j] = 0 /\ ~Queued(j)
        /\ Held(j) => ran[j] = 0 /\ ~Queued(j) /\ ~InHand(j)
        /\ ran[j] = 1 => Begun(Parent(j))
        /\ Begun(Parent(j)) => ran[j] = 1 \/ Queued(j) \/ InHand(j) \/ Held(j)

Groups ==
    /\ \A p \in Scripts : outstanding[p] = IF p \in Waiters THEN Cardinality(LiveOf(p)) ELSE 0
    /\ completed = Cardinality(Gone)

Work == Typed /\ Framed /\ Placed /\ Distinct /\ InTurn /\ Groups

\* The threads: who is there, and who has left.
Crewed ==
    /\ crew \subseteq Workers /\ asleep \subseteq Workers
    /\ \A w \in Workers \ crew : mode[w] = "gone"
    /\ \A w \in Workers : mode[w] = "gone" => stack[w] = <<>>
    /\ \A w \in asleep : mode[w] = "sleep"
    /\ mode[Main] # "drain" => stack[Main] = <<>>
    /\ mode[Main] = "stopped" => \A w \in Workers : mode[w] = "gone"

\* Alone, the starting thread finds what it waits for in the queue.
Alone == crew = {} /\ AtStep(Main, "help") => outstanding[Top(Main).job] # 0

\* The last to leave leaves nothing.
NothingLeft ==
    mode[Main] # "drain" /\ (\A w \in Workers : mode[w] = "gone") => queue = <<>>

\* WaitMeansDone, in the terms used here.
Waited ==
    \A t \in Threads : \A i \in 1..Len(stack[t]) :
        stack[t][i].job \in Waiters /\ stack[t][i].at \in {"end", "count"} =>
            \A j \in Children[stack[t][i].job] : ran[j] = 1 /\ ~Doing(j)

IInv == TypeOK /\ Work /\ Crewed /\ Alone /\ NothingLeft /\ Waited

-----------------------------------------------------------------------------
(* Sequences, and the tree of jobs. *)

LEMMA TopIs ==
    ASSUME NEW S, NEW s \in Seq(S), s # <<>>
    PROVE  Len(s) \in Nat /\ Len(s) > 0 /\ Last(s) = s[Len(s)] /\ Last(s) \in S
  BY DEF Last

LEMMA FrontIs ==
    ASSUME NEW S, NEW s \in Seq(S), s # <<>>
    PROVE  /\ Front(s) \in Seq(S) /\ Len(Front(s)) = Len(s) - 1
           /\ \A i \in 1..(Len(s) - 1) : Front(s)[i] = s[i]
<1>1. Len(s) \in Nat /\ Len(s) > 0
  BY TopIs
<1> DEFINE n == Len(s) - 1
<1>2. n \in Nat /\ \A i \in 1..n : s[i] \in S
  BY <1>1
<1> HIDE DEF n
<1>3. /\ SubSeq(s, 1, n) \in Seq(S) /\ Len(SubSeq(s, 1, n)) = n
      /\ \A i \in 1..n : SubSeq(s, 1, n)[i] = s[i]
  <2>1. /\ SubSeq(s, 1, n) \in Seq(S)
        /\ Len(SubSeq(s, 1, n)) = IF 1 <= n THEN n - 1 + 1 ELSE 0
        /\ \A i \in 1..n - 1 + 1 : SubSeq(s, 1, n)[i] = s[1 + i - 1]
    BY <1>2, SubSeqProperties
  <2>2. \A i \in 1..n : SubSeq(s, 1, n)[i] = s[i]
    <3>1. \A i \in 1..n : i \in 1..n - 1 + 1 /\ 1 + i - 1 = i
      BY <1>2
    <3> QED BY <2>1, <3>1
  <2> QED BY <1>2, <2>1, <2>2
<1> QED
  BY <1>3 DEF Front, n

LEMMA ReplacedIs ==
    ASSUME NEW S, NEW s \in Seq(S), s # <<>>, NEW f \in S
    PROVE  /\ Append(Front(s), f) \in Seq(S) /\ Len(Append(Front(s), f)) = Len(s)
           /\ \A i \in 1..Len(s) : Append(Front(s), f)[i] = IF i = Len(s) THEN f ELSE s[i]
<1>1. Len(s) \in Nat /\ Len(s) > 0
  BY TopIs
<1>2. /\ Front(s) \in Seq(S) /\ Len(Front(s)) = Len(s) - 1
      /\ \A i \in 1..(Len(s) - 1) : Front(s)[i] = s[i]
  BY FrontIs
<1> QED
  BY <1>1, <1>2

LEMMA ParentIs ==
    ASSUME NEW j \in Jobs
    PROVE  /\ Parent(j) \in Scripts /\ j \in Children[Parent(j)]
           /\ \A p \in Scripts : j \in Children[p] => p = Parent(j)
<1> DEFINE P == {p \in Scripts : j \in Children[p]}
<1>1. IsFiniteSet(Scripts)
  BY PoolAssumption, FS_AddElement DEF Scripts
<1>2. IsFiniteSet(P) /\ Cardinality(P) = 1
  BY <1>1, FS_Subset, PoolAssumption
<1>3. PICK p : P = {p}
  BY <1>2, FS_Singleton
<1>4. p \in Scripts /\ j \in Children[p] /\ \A q \in Scripts : j \in Children[q] => q = p
  BY <1>3
<1> QED
  BY <1>4 DEF Parent

LEMMA NotItsOwnParent == ASSUME NEW j \in Jobs PROVE Parent(j) # j
<1>1. \E x \in {j} : Parent(x) \notin {j}
  BY TreeAssumption
<1> QED
  BY <1>1

LEMMA ChildrenAreJobs == ASSUME NEW p \in Scripts PROVE Children[p] \subseteq Jobs
  BY PoolAssumption


-----------------------------------------------------------------------------
(* What a step does to the stacks: it changes the frame on top of one, puts  *)
(* one on it, or takes one off.                                              *)

TopSet(t, f) ==
    /\ stack' \in [Threads -> Seq(Frame)]
    /\ \A u \in Threads : Len(stack'[u]) = Len(stack[u])
    /\ stack'[t][Len(stack[t])] = f
    /\ \A u \in Threads : \A i \in 1..Len(stack[u]) :
         (u # t \/ i # Len(stack[t])) => stack'[u][i] = stack[u][i]

TopAdded(t, f) ==
    /\ stack' \in [Threads -> Seq(Frame)]
    /\ Len(stack'[t]) = Len(stack[t]) + 1 /\ stack'[t][Len(stack[t]) + 1] = f
    /\ \A u \in Threads : u # t => stack'[u] = stack[u]
    /\ \A i \in 1..Len(stack[t]) : stack'[t][i] = stack[t][i]

LEMMA LenIsNat ==
    ASSUME Typed, NEW u \in Threads
    PROVE  Len(stack[u]) \in Nat /\ \A i \in 1..Len(stack[u]) : stack[u][i] \in Frame
<1>1. stack[u] \in Seq(Frame)
  BY DEF Typed
<1> QED
  BY <1>1

LEMMA TopFacts ==
    ASSUME Typed, NEW t \in Threads, Running(t)
    PROVE  /\ Len(stack[t]) \in Nat /\ Len(stack[t]) > 0
           /\ Top(t) = stack[t][Len(stack[t])] /\ Top(t) \in Frame
<1>1. stack[t] \in Seq(Frame) /\ stack[t] # <<>>
  BY DEF Typed, Running
<1> QED
  BY <1>1, TopIs DEF Top

LEMMA SetTopIs ==
    ASSUME Typed, NEW t \in Threads, Running(t), NEW f \in Frame, SetTop(t, f)
    PROVE  TopSet(t, f)
<1> DEFINE s == stack[t]
<1>1. stack \in [Threads -> Seq(Frame)] /\ s \in Seq(Frame) /\ s # <<>>
  BY DEF Typed, Running
<1>2. Len(s) \in Nat /\ Len(s) > 0
  BY <1>1, TopIs
<1>3. /\ Append(Front(s), f) \in Seq(Frame) /\ Len(Append(Front(s), f)) = Len(s)
      /\ \A i \in 1..Len(s) : Append(Front(s), f)[i] = IF i = Len(s) THEN f ELSE s[i]
  BY <1>1, ReplacedIs
<1>4. /\ stack' \in [Threads -> Seq(Frame)] /\ stack'[t] = Append(Front(s), f)
      /\ \A u \in Threads : u # t => stack'[u] = stack[u]
  <2> HIDE DEF s
  <2> DEFINE a == Append(Front(s), f)
  <2>1. stack' = [stack EXCEPT ![t] = a]
    BY DEF SetTop, s
  <2>2. a \in Seq(Frame)
    BY <1>3
  <2> HIDE DEF a
  <2>3. stack' \in [Threads -> Seq(Frame)] /\ stack'[t] = a
        /\ \A u \in Threads : u # t => stack'[u] = stack[u]
    BY <1>1, <2>1, <2>2
  <2> QED
    BY <2>3 DEF a
<1>5. Len(stack'[t]) = Len(s) /\ stack'[t][Len(s)] = f
      /\ \A i \in 1..Len(s) : i # Len(s) => stack'[t][i] = s[i]
  BY <1>2, <1>3, <1>4
<1> QED
  BY <1>4, <1>5 DEF TopSet

LEMMA TakenIs ==
    ASSUME Typed, NEW t \in Threads, Take(t)
    PROVE  /\ Head(queue) \in Jobs /\ queue # <<>>
           /\ queue' \in Seq(Jobs) /\ Len(queue) \in Nat /\ Len(queue) > 0
           /\ Len(queue') = Len(queue) - 1 /\ Head(queue) = queue[1]
           /\ \A i \in 1..Len(queue') : queue'[i] = queue[i + 1]
           /\ TopAdded(t, Enter(Head(queue)))
           /\ ran' = [ran EXCEPT ![Head(queue)] = @ + 1]
<1>1. queue \in Seq(Jobs) /\ queue # <<>> /\ queue' = Tail(queue)
  BY DEF Typed, Take
<1>2. Head(queue) \in Jobs /\ Head(queue) = queue[1] /\ Len(queue) \in Nat /\ Len(queue) > 0
      /\ Tail(queue) \in Seq(Jobs) /\ Len(Tail(queue)) = Len(queue) - 1
      /\ \A i \in 1..Len(Tail(queue)) : Tail(queue)[i] = queue[i + 1]
  BY <1>1, HeadTailProperties, TopIs
<1> DEFINE f == Enter(Head(queue))
<1>3. f \in Frame
  <2>1. Head(queue) \in Scripts /\ Children[Head(queue)] \subseteq Jobs
    BY <1>2, ChildrenAreJobs DEF Scripts
  <2> QED
    BY <2>1 DEF Enter, Frame
<1>4. stack \in [Threads -> Seq(Frame)] /\ stack[t] \in Seq(Frame)
      /\ stack' = [stack EXCEPT ![t] = Append(stack[t], f)]
  BY DEF Typed, Take
<1> HIDE DEF f
<1>5. /\ Append(stack[t], f) \in Seq(Frame) /\ Len(Append(stack[t], f)) = Len(stack[t]) + 1
      /\ Append(stack[t], f)[Len(stack[t]) + 1] = f
      /\ \A i \in 1..Len(stack[t]) : Append(stack[t], f)[i] = stack[t][i]
  BY <1>3, <1>4, AppendProperties
<1>6. /\ stack' \in [Threads -> Seq(Frame)] /\ stack'[t] = Append(stack[t], f)
      /\ \A u \in Threads : u # t => stack'[u] = stack[u]
  BY <1>4, <1>5
<1>7. TopAdded(t, f)
  BY <1>5, <1>6 DEF TopAdded
<1> QED
  BY <1>1, <1>2, <1>7 DEF f, Take

\* JobCounted: one frame less, and a thread that was helping looks again.
Shorter(t) ==
    /\ stack' \in [Threads -> Seq(Frame)]
    /\ Len(stack'[t]) = Len(stack[t]) - 1
    /\ \A u \in Threads : u # t => stack'[u] = stack[u]
    /\ \A i \in 1..Len(stack'[t]) :
         /\ stack'[t][i].job = stack[t][i].job /\ stack'[t][i].left = stack[t][i].left
         /\ stack'[t][i].next = stack[t][i].next
         /\ stack'[t][i].at = IF i = Len(stack'[t]) /\ stack[t][i].at = "help"
                              THEN "wait" ELSE stack[t][i].at

LEMMA ReturnIs ==
    ASSUME NEW s \in Seq(Frame)
    PROVE  /\ Return(s) \in Seq(Frame) /\ Len(Return(s)) = Len(s)
           /\ \A i \in 1..Len(s) :
                /\ Return(s)[i].job = s[i].job /\ Return(s)[i].left = s[i].left
                /\ Return(s)[i].next = s[i].next
                /\ Return(s)[i].at = IF i = Len(s) /\ s[i].at = "help" THEN "wait" ELSE s[i].at
<1>1. CASE s # <<>> /\ Last(s).at = "help"
  <2> DEFINE f == [Last(s) EXCEPT !.at = "wait"]
  <2>1. Last(s) = s[Len(s)] /\ Last(s) \in Frame /\ Len(s) \in Nat /\ Len(s) > 0
    BY <1>1, TopIs
  <2>2. f \in Frame /\ f.job = Last(s).job /\ f.left = Last(s).left /\ f.next = Last(s).next
        /\ f.at = "wait"
    BY <2>1 DEF Frame
  <2>3. Return(s) = Append(Front(s), f)
    BY <1>1 DEF Return
  <2> HIDE DEF f
  <2>4. /\ Append(Front(s), f) \in Seq(Frame) /\ Len(Append(Front(s), f)) = Len(s)
        /\ \A i \in 1..Len(s) : Append(Front(s), f)[i] = IF i = Len(s) THEN f ELSE s[i]
    BY <1>1, <2>2, ReplacedIs
  <2> QED
    BY <1>1, <2>1, <2>2, <2>3, <2>4
<1>2. CASE ~(s # <<>> /\ Last(s).at = "help")
  <2>1. Return(s) = s
    BY <1>2 DEF Return
  <2>2. \A i \in 1..Len(s) : ~(i = Len(s) /\ s[i].at = "help")
    <3> SUFFICES ASSUME NEW i \in 1..Len(s), i = Len(s), s[i].at = "help" PROVE FALSE
      OBVIOUS
    <3>1. Len(s) > 0 /\ s # <<>>
      OBVIOUS
    <3> QED
      BY <1>2, <3>1, TopIs
  <2> QED
    BY <2>1, <2>2
<1> QED
  BY <1>1, <1>2

LEMMA CountedIs ==
    ASSUME Typed, NEW t \in Threads, Running(t), stack' = [stack EXCEPT ![t] = Return(Front(@))]
    PROVE  Shorter(t)
<1> DEFINE r == Return(Front(stack[t]))
<1>1. stack \in [Threads -> Seq(Frame)] /\ stack[t] \in Seq(Frame) /\ stack[t] # <<>>
  BY DEF Typed, Running
<1>2. /\ Front(stack[t]) \in Seq(Frame) /\ Len(Front(stack[t])) = Len(stack[t]) - 1
      /\ \A i \in 1..(Len(stack[t]) - 1) : Front(stack[t])[i] = stack[t][i]
  BY <1>1, FrontIs
<1>3. r \in Seq(Frame) /\ Len(r) = Len(stack[t]) - 1
  BY <1>2, ReturnIs
<1>4. \A i \in 1..Len(r) :
        /\ r[i].job = stack[t][i].job /\ r[i].left = stack[t][i].left
        /\ r[i].next = stack[t][i].next
        /\ r[i].at = IF i = Len(r) /\ stack[t][i].at = "help" THEN "wait" ELSE stack[t][i].at
  <2>1. \A i \in 1..Len(Front(stack[t])) :
          /\ r[i].job = Front(stack[t])[i].job /\ r[i].left = Front(stack[t])[i].left
          /\ r[i].next = Front(stack[t])[i].next
          /\ r[i].at = IF i = Len(Front(stack[t])) /\ Front(stack[t])[i].at = "help"
                       THEN "wait" ELSE Front(stack[t])[i].at
    BY <1>2, ReturnIs
  <2> HIDE DEF r
  <2> QED
    BY <1>2, <1>3, <2>1
<1>5. stack' = [stack EXCEPT ![t] = r]
  OBVIOUS
<1> HIDE DEF r
<1>6. /\ stack' \in [Threads -> Seq(Frame)] /\ stack'[t] = r
      /\ \A u \in Threads : u # t => stack'[u] = stack[u]
  BY <1>1, <1>3, <1>5
<1> QED
  BY <1>3, <1>4, <1>6 DEF Shorter

-----------------------------------------------------------------------------
(* What follows for where the jobs are. *)

LEMMA HolderIs ==
    ASSUME Typed, Framed, NEW u \in Threads, NEW i \in 1..Len(stack[u]), NEW j,
           j \in stack[u][i].left \/ (stack[u][i].at = "push" /\ stack[u][i].next = j)
    PROVE  j \in Jobs /\ stack[u][i].job = Parent(j)
<1>1. stack[u][i] \in Frame
  BY LenIsNat
<1>2. stack[u][i].job \in Scripts /\ stack[u][i].left \subseteq Children[stack[u][i].job]
      /\ (stack[u][i].at = "push" => stack[u][i].next \in Children[stack[u][i].job])
  BY <1>1 DEF Framed, Frame
<1>3. j \in Children[stack[u][i].job]
  BY <1>2
<1>4. j \in Jobs
  BY <1>2, <1>3, ChildrenAreJobs
<1> QED
  BY <1>2, <1>3, <1>4, ParentIs

LEMMA OneHolder ==
    ASSUME Typed, Framed, Placed, NEW j,
           NEW t \in Threads, NEW k \in 1..Len(stack[t]), stack[t][k].job = Parent(j),
           NEW u \in Threads, NEW i \in 1..Len(stack[u]),
           j \in stack[u][i].left \/ (stack[u][i].at = "push" /\ stack[u][i].next = j)
    PROVE  u = t /\ i = k
<1>1. stack[u][i].job = Parent(j)
  BY HolderIs
<1> QED
  BY <1>1 DEF Placed

LEMMA TopSetKeeps ==
    ASSUME Typed, NEW t \in Threads, Running(t), NEW f, TopSet(t, f), f.job = Top(t).job
    PROVE  /\ \A j : OnStack(j)' <=> OnStack(j)
           /\ Placed => Placed'
           /\ f.left = Top(t).left => \A j : Held(j)' <=> Held(j)
           /\ f.at # "push" /\ Top(t).at # "push" => \A j : InHand(j)' <=> InHand(j)
           /\ f.at # "count" /\ Top(t).at # "count" => \A j : Doing(j)' <=> Doing(j)
<1> DEFINE n == Len(stack[t])
<1>1. n \in 1..Len(stack[t]) /\ Top(t) = stack[t][n]
  BY TopFacts
<1>2. /\ \A u \in Threads : Len(stack'[u]) = Len(stack[u])
      /\ stack'[t][n] = f
      /\ \A u \in Threads : \A i \in 1..Len(stack[u]) :
           (u # t \/ i # n) => stack'[u][i] = stack[u][i]
  BY DEF TopSet
<1> HIDE DEF n
<1>3. \A u \in Threads : \A i \in 1..Len(stack[u]) : stack'[u][i].job = stack[u][i].job
  BY <1>1, <1>2
<1>4. \A j : OnStack(j)' <=> OnStack(j)
  BY <1>2, <1>3 DEF OnStack
<1>5. Placed => Placed'
  BY <1>2, <1>3 DEF Placed
<1>6. ASSUME f.left = Top(t).left PROVE \A j : Held(j)' <=> Held(j)
  <2>1. \A u \in Threads : \A i \in 1..Len(stack[u]) : stack'[u][i].left = stack[u][i].left
    BY <1>1, <1>2, <1>6
  <2> QED
    BY SMTT(30), <1>2, <2>1 DEF Held
<1>7. ASSUME f.at # "push", Top(t).at # "push" PROVE \A j : InHand(j)' <=> InHand(j)
  <2>1. \A j : \A u \in Threads : \A i \in 1..Len(stack[u]) :
          (stack'[u][i].at = "push" /\ stack'[u][i].next = j)
            <=> (stack[u][i].at = "push" /\ stack[u][i].next = j)
    BY <1>1, <1>2, <1>7
  <2> SUFFICES ASSUME NEW j PROVE InHand(j)' <=> InHand(j)
    OBVIOUS
  <2>2. \A u \in Threads : Len(stack'[u]) = Len(stack[u])
    BY <1>2
  <2>3. ASSUME InHand(j) PROVE InHand(j)'
    BY <2>1, <2>2, <2>3 DEF InHand
  <2>4. ASSUME InHand(j)' PROVE InHand(j)
    BY <2>1, <2>2, <2>4 DEF InHand
  <2> QED
    BY <2>3, <2>4
<1>8. ASSUME f.at # "count", Top(t).at # "count" PROVE \A j : Doing(j)' <=> Doing(j)
  <2>1. \A j : \A u \in Threads : \A i \in 1..Len(stack[u]) :
          (stack'[u][i].job = j /\ stack'[u][i].at # "count")
            <=> (stack[u][i].job = j /\ stack[u][i].at # "count")
    BY <1>1, <1>2, <1>3, <1>8
  <2> SUFFICES ASSUME NEW j PROVE Doing(j)' <=> Doing(j)
    OBVIOUS
  <2>2. \A u \in Threads : Len(stack'[u]) = Len(stack[u])
    BY <1>2
  <2>3. ASSUME Doing(j) PROVE Doing(j)'
    <3>1. PICK u \in Threads : \E i \in 1..Len(stack[u]) : stack[u][i].job = j /\ stack[u][i].at # "count"
      BY <2>3 DEF Doing
    <3>2. PICK i \in 1..Len(stack[u]) : stack[u][i].job = j /\ stack[u][i].at # "count"
      BY <3>1
    <3>3. i \in 1..Len(stack'[u]) /\ stack'[u][i].job = j /\ stack'[u][i].at # "count"
      BY <2>1, <2>2, <3>2
    <3> QED
      BY <3>3 DEF Doing
  <2>4. ASSUME Doing(j)' PROVE Doing(j)
    <3>1. PICK u \in Threads : \E i \in 1..Len(stack'[u]) : stack'[u][i].job = j /\ stack'[u][i].at # "count"
      BY <2>4 DEF Doing
    <3>2. PICK i \in 1..Len(stack'[u]) : stack'[u][i].job = j /\ stack'[u][i].at # "count"
      BY <3>1
    <3>3. i \in 1..Len(stack[u]) /\ stack[u][i].job = j /\ stack[u][i].at # "count"
      BY <2>1, <2>2, <3>2
    <3> QED
      BY <3>3 DEF Doing
  <2> QED
    BY <2>3, <2>4
<1> QED
  BY <1>4, <1>5, <1>6, <1>7, <1>8

LEMMA TopSetFramed ==
    ASSUME Typed, Framed, NEW t \in Threads, Running(t), NEW f, TopSet(t, f),
           f.job = Top(t).job,
           f.at \in {"wait", "help"} => f.job \in Waiters,
           f.at \notin {"submit", "push", "notify"} => f.left = {},
           f.left \subseteq Children[f.job],
           f.at \in {"push", "notify"} => f.next \in Jobs,
           f.at = "push" => f.next \in Children[f.job] /\ f.next \notin f.left,
           f.at = "count" => f.job # Boot
    PROVE  Framed'
<1> SUFFICES ASSUME NEW u \in Threads, NEW i \in 1..Len(stack'[u])
             PROVE  LET g == stack'[u][i] IN
                    /\ i < Len(stack'[u]) => g.at = "help"
                    /\ g.at \in {"wait", "help"} => g.job \in Waiters
                    /\ g.at \notin {"submit", "push", "notify"} => g.left = {}
                    /\ g.left \subseteq Children[g.job]
                    /\ g.at \in {"push", "notify"} => g.next \in Jobs
                    /\ g.at = "push" => g.next \in Children[g.job] /\ g.next \notin g.left
                    /\ g.job = Boot => u = Main /\ i = 1
                    /\ g.at = "count" => g.job # Boot
  BY DEF Framed
<1>1. Len(stack[t]) \in 1..Len(stack[t]) /\ Top(t) = stack[t][Len(stack[t])]
  BY TopFacts
<1>2. Len(stack'[u]) = Len(stack[u]) /\ stack'[t][Len(stack[t])] = f
      /\ ((u # t \/ i # Len(stack[t])) => stack'[u][i] = stack[u][i])
  BY DEF TopSet
<1>3. CASE u = t /\ i = Len(stack[t])
  <2>1. Top(t).job = Boot => t = Main /\ Len(stack[t]) = 1
    BY <1>1 DEF Framed
  <2> QED
    BY <1>2, <1>3, <2>1
<1>4. CASE u # t \/ i # Len(stack[t])
  BY <1>2, <1>4 DEF Framed
<1> QED
  BY <1>3, <1>4

LEMMA AddMoves ==
    ASSUME Typed, Framed, Placed, NEW t \in Threads, Running(t), NEW f, TopSet(t, f),
           NEW j \in Top(t).left, Top(t).at = "submit",
           f.left = Top(t).left \ {j}, f.at = "push", f.next = j
    PROVE  /\ \A x : Held(x)' <=> Held(x) /\ x # j
           /\ \A x : InHand(x)' <=> InHand(x) \/ x = j
<1> DEFINE n == Len(stack[t])
<1>1. n \in 1..Len(stack[t]) /\ Top(t) = stack[t][n]
  BY TopFacts
<1>2. stack[t][n].job = Parent(j)
  BY <1>1, HolderIs
<1>3. \A u \in Threads : \A i \in 1..Len(stack[u]) : j \in stack[u][i].left => u = t /\ i = n
  BY <1>1, <1>2, OneHolder
<1>4. /\ \A u \in Threads : Len(stack'[u]) = Len(stack[u])
      /\ stack'[t][n] = f
      /\ \A u \in Threads : \A i \in 1..Len(stack[u]) :
           (u # t \/ i # n) => stack'[u][i] = stack[u][i]
  BY DEF TopSet
<1> HIDE DEF n
<1>5. \A x : \A u \in Threads : \A i \in 1..Len(stack[u]) :
        x \in stack'[u][i].left <=> x \in stack[u][i].left /\ x # j
  <2> SUFFICES ASSUME NEW x, NEW u \in Threads, NEW i \in 1..Len(stack[u])
               PROVE  x \in stack'[u][i].left <=> x \in stack[u][i].left /\ x # j
    OBVIOUS
  <2>1. CASE u = t /\ i = n
    <3>1. stack'[u][i] = f /\ stack[u][i] = Top(t)
      BY <1>1, <1>4, <2>1
    <3> QED
      BY <3>1
  <2>2. CASE u # t \/ i # n
    <3>1. stack'[u][i] = stack[u][i] /\ j \notin stack[u][i].left
      BY <1>3, <1>4, <2>2
    <3> QED
      BY <3>1
  <2> QED
    BY <2>1, <2>2
<1>6. \A x : Held(x)' <=> Held(x) /\ x # j
  <2> SUFFICES ASSUME NEW x PROVE Held(x)' <=> Held(x) /\ x # j
    OBVIOUS
  <2>1. ASSUME Held(x), x # j PROVE Held(x)'
    BY <1>4, <1>5, <2>1 DEF Held
  <2>2. ASSUME Held(x)' PROVE Held(x) /\ x # j
    BY <1>4, <1>5, <2>2 DEF Held
  <2> QED
    BY <2>1, <2>2
<1>7. \A x : InHand(x)' <=> InHand(x) \/ x = j
  <2> SUFFICES ASSUME NEW x PROVE InHand(x)' <=> InHand(x) \/ x = j
    OBVIOUS
  <2>1. ASSUME InHand(x) PROVE InHand(x)'
    <3>1. PICK u \in Threads : \E i \in 1..Len(stack[u]) :
                 stack[u][i].at = "push" /\ stack[u][i].next = x
      BY <2>1 DEF InHand
    <3>2. PICK i \in 1..Len(stack[u]) : stack[u][i].at = "push" /\ stack[u][i].next = x
      BY <3>1
    <3>3. u # t \/ i # n
      BY <1>1, <3>2
    <3>4. i \in 1..Len(stack'[u]) /\ stack'[u][i].at = "push" /\ stack'[u][i].next = x
      BY <1>4, <3>2, <3>3
    <3> QED
      BY <3>4 DEF InHand
  <2>2. InHand(j)'
    BY <1>1, <1>4 DEF InHand
  <2>3. ASSUME InHand(x)', x # j PROVE InHand(x)
    <3>1. PICK u \in Threads : \E i \in 1..Len(stack'[u]) :
                 stack'[u][i].at = "push" /\ stack'[u][i].next = x
      BY <2>3 DEF InHand
    <3>2. PICK i \in 1..Len(stack'[u]) : stack'[u][i].at = "push" /\ stack'[u][i].next = x
      BY <3>1
    <3>3. u # t \/ i # n
      BY <1>4, <2>3, <3>2
    <3>4. i \in 1..Len(stack[u]) /\ stack[u][i].at = "push" /\ stack[u][i].next = x
      BY <1>4, <3>2, <3>3
    <3> QED
      BY <3>4 DEF InHand
  <2> QED
    BY <2>1, <2>2, <2>3
<1> QED
  BY <1>6, <1>7

LEMMA PushMoves ==
    ASSUME Typed, Framed, Placed, NEW t \in Threads, Running(t), NEW f, TopSet(t, f),
           Top(t).at = "push", f.at # "push"
    PROVE  /\ Top(t).next \in Jobs /\ Parent(Top(t).next) = Top(t).job /\ InHand(Top(t).next)
           /\ \A x : InHand(x)' <=> InHand(x) /\ x # Top(t).next
<1> DEFINE n == Len(stack[t])
           j == Top(t).next
<1>1. n \in 1..Len(stack[t]) /\ Top(t) = stack[t][n]
  BY TopFacts
<1>2. j \in Jobs /\ stack[t][n].job = Parent(j)
  BY <1>1, HolderIs
<1>3. \A u \in Threads : \A i \in 1..Len(stack[u]) :
        stack[u][i].at = "push" /\ stack[u][i].next = j => u = t /\ i = n
  BY <1>1, <1>2, OneHolder
<1>4. /\ \A u \in Threads : Len(stack'[u]) = Len(stack[u])
      /\ stack'[t][n] = f
      /\ \A u \in Threads : \A i \in 1..Len(stack[u]) :
           (u # t \/ i # n) => stack'[u][i] = stack[u][i]
  BY DEF TopSet
<1>5. InHand(j)
  BY <1>1 DEF InHand
<1>6. j = stack[t][n].next
  BY <1>1
<1> HIDE DEF n, j
<1>7. ASSUME NEW x PROVE InHand(x)' <=> InHand(x) /\ x # j
  <2>1. ASSUME InHand(x), x # j PROVE InHand(x)'
    <3>1. PICK u \in Threads : \E i \in 1..Len(stack[u]) :
                 stack[u][i].at = "push" /\ stack[u][i].next = x
      BY <2>1 DEF InHand
    <3>2. PICK i \in 1..Len(stack[u]) : stack[u][i].at = "push" /\ stack[u][i].next = x
      BY <3>1
    <3>3. u # t \/ i # n
      BY <1>6, <2>1, <3>2
    <3>4. i \in 1..Len(stack'[u]) /\ stack'[u][i].at = "push" /\ stack'[u][i].next = x
      BY <1>4, <3>2, <3>3
    <3> QED
      BY <3>4 DEF InHand
  <2>2. ASSUME InHand(x)' PROVE InHand(x) /\ x # j
    <3>1. PICK u \in Threads : \E i \in 1..Len(stack'[u]) :
                 stack'[u][i].at = "push" /\ stack'[u][i].next = x
      BY <2>2 DEF InHand
    <3>2. PICK i \in 1..Len(stack'[u]) : stack'[u][i].at = "push" /\ stack'[u][i].next = x
      BY <3>1
    <3>3. u # t \/ i # n
      BY <1>4, <3>2
    <3>4. i \in 1..Len(stack[u]) /\ stack[u][i].at = "push" /\ stack[u][i].next = x
      BY <1>4, <3>2, <3>3
    <3>5. x # j
      BY <1>3, <3>3, <3>4
    <3> QED
      BY <3>4, <3>5 DEF InHand
  <2> QED
    BY <2>1, <2>2
<1> QED
  BY <1>1, <1>2, <1>5, <1>7 DEF j

LEMMA EndMoves ==
    ASSUME Typed, Framed, Placed, NEW t \in Threads, Running(t), NEW f, TopSet(t, f),
           f.job = Top(t).job, Top(t).at = "end", f.at = "count"
    PROVE  Doing(Top(t).job) /\ \A x : Doing(x)' <=> Doing(x) /\ x # Top(t).job
<1> DEFINE n == Len(stack[t])
           c == Top(t).job
<1>1. n \in 1..Len(stack[t]) /\ Top(t) = stack[t][n]
  BY TopFacts
<1>2. \A u \in Threads : \A i \in 1..Len(stack[u]) :
        stack[u][i].job = c => u = t /\ i = n
  BY <1>1 DEF Placed
<1>3. /\ \A u \in Threads : Len(stack'[u]) = Len(stack[u])
      /\ stack'[t][n] = f
      /\ \A u \in Threads : \A i \in 1..Len(stack[u]) :
           (u # t \/ i # n) => stack'[u][i] = stack[u][i]
  BY DEF TopSet
<1>4. Doing(c)
  BY <1>1 DEF Doing
<1>5. c = stack[t][n].job
  BY <1>1
<1> HIDE DEF n, c
<1>6. ASSUME NEW x PROVE Doing(x)' <=> Doing(x) /\ x # c
  <2>1. ASSUME Doing(x), x # c PROVE Doing(x)'
    <3>1. PICK u \in Threads : \E i \in 1..Len(stack[u]) :
                 stack[u][i].job = x /\ stack[u][i].at # "count"
      BY <2>1 DEF Doing
    <3>2. PICK i \in 1..Len(stack[u]) : stack[u][i].job = x /\ stack[u][i].at # "count"
      BY <3>1
    <3>3. u # t \/ i # n
      BY <1>5, <2>1, <3>2
    <3>4. i \in 1..Len(stack'[u]) /\ stack'[u][i].job = x /\ stack'[u][i].at # "count"
      BY <1>3, <3>2, <3>3
    <3> QED
      BY <3>4 DEF Doing
  <2>2. ASSUME Doing(x)' PROVE Doing(x) /\ x # c
    <3>1. PICK u \in Threads : \E i \in 1..Len(stack'[u]) :
                 stack'[u][i].job = x /\ stack'[u][i].at # "count"
      BY <2>2 DEF Doing
    <3>2. PICK i \in 1..Len(stack'[u]) : stack'[u][i].job = x /\ stack'[u][i].at # "count"
      BY <3>1
    <3>3. u # t \/ i # n
      BY <1>3, <3>2
    <3>4. i \in 1..Len(stack[u]) /\ stack[u][i].job = x /\ stack[u][i].at # "count"
      BY <1>3, <3>2, <3>3
    <3>5. x # c
      BY <1>2, <3>3, <3>4
    <3> QED
      BY <3>4, <3>5 DEF Doing
  <2> QED
    BY <2>1, <2>2
<1> QED
  BY <1>4, <1>6 DEF c


LEMMA AddedIs ==
    ASSUME Typed, NEW t \in Threads, NEW f, TopAdded(t, f)
    PROVE  /\ \A u \in Threads : \A i \in 1..Len(stack[u]) :
                i \in 1..Len(stack'[u]) /\ stack'[u][i] = stack[u][i]
           /\ Len(stack[t]) + 1 \in 1..Len(stack'[t]) /\ stack'[t][Len(stack[t]) + 1] = f
           /\ \A u \in Threads : \A i \in 1..Len(stack'[u]) :
                \/ u = t /\ i = Len(stack[t]) + 1
                \/ i \in 1..Len(stack[u]) /\ stack'[u][i] = stack[u][i]
<1>1. /\ Len(stack'[t]) = Len(stack[t]) + 1 /\ stack'[t][Len(stack[t]) + 1] = f
      /\ \A u \in Threads : u # t => stack'[u] = stack[u]
      /\ \A i \in 1..Len(stack[t]) : stack'[t][i] = stack[t][i]
  BY DEF TopAdded
<1>2. Len(stack[t]) \in Nat
  BY LenIsNat
<1>3. \A i \in 1..Len(stack'[t]) : i = Len(stack[t]) + 1 \/ i \in 1..Len(stack[t])
  BY <1>1, <1>2
<1>4. \A i \in 1..Len(stack[t]) : i \in 1..Len(stack'[t])
  BY <1>1, <1>2
<1> QED
  BY <1>1, <1>2, <1>3, <1>4

LEMMA TakeMoves ==
    ASSUME Typed, NEW t \in Threads, NEW j \in Jobs, TopAdded(t, Enter(j))
    PROVE  /\ \A x : OnStack(x)' <=> OnStack(x) \/ x = j
           /\ \A x : Doing(x)' <=> Doing(x) \/ x = j
           /\ \A x : Held(x)' <=> Held(x) \/ x \in Children[j]
           /\ \A x : InHand(x)' <=> InHand(x)
<1> DEFINE f == Enter(j)
           n == Len(stack[t]) + 1
<1>1. f.job = j /\ f.at = "submit" /\ f.left = Children[j]
  BY DEF Enter
<1>2. /\ \A u \in Threads : \A i \in 1..Len(stack[u]) :
           i \in 1..Len(stack'[u]) /\ stack'[u][i] = stack[u][i]
      /\ n \in 1..Len(stack'[t]) /\ stack'[t][n] = f
      /\ \A u \in Threads : \A i \in 1..Len(stack'[u]) :
           \/ u = t /\ i = n
           \/ i \in 1..Len(stack[u]) /\ stack'[u][i] = stack[u][i]
  BY AddedIs
<1> HIDE DEF f, n
<1>3. ASSUME NEW x PROVE OnStack(x)' <=> OnStack(x) \/ x = j
  <2>1. ASSUME OnStack(x) PROVE OnStack(x)'
    BY <1>2, <2>1 DEF OnStack
  <2>2. OnStack(j)'
    BY <1>1, <1>2 DEF OnStack
  <2>3. ASSUME OnStack(x)' PROVE OnStack(x) \/ x = j
    BY <1>1, <1>2, <2>3 DEF OnStack
  <2> QED
    BY <2>1, <2>2, <2>3
<1>4. ASSUME NEW x PROVE Doing(x)' <=> Doing(x) \/ x = j
  <2>1. ASSUME Doing(x) PROVE Doing(x)'
    BY <1>2, <2>1 DEF Doing
  <2>2. Doing(j)'
    BY <1>1, <1>2 DEF Doing
  <2>3. ASSUME Doing(x)' PROVE Doing(x) \/ x = j
    BY <1>1, <1>2, <2>3 DEF Doing
  <2> QED
    BY <2>1, <2>2, <2>3
<1>5. ASSUME NEW x PROVE Held(x)' <=> Held(x) \/ x \in Children[j]
  <2>1. ASSUME Held(x) PROVE Held(x)'
    BY <1>2, <2>1 DEF Held
  <2>2. ASSUME x \in Children[j] PROVE Held(x)'
    BY <1>1, <1>2, <2>2 DEF Held
  <2>3. ASSUME Held(x)' PROVE Held(x) \/ x \in Children[j]
    BY <1>1, <1>2, <2>3 DEF Held
  <2> QED
    BY <2>1, <2>2, <2>3
<1>6. ASSUME NEW x PROVE InHand(x)' <=> InHand(x)
  <2>1. ASSUME InHand(x) PROVE InHand(x)'
    BY <1>2, <2>1 DEF InHand
  <2>3. ASSUME InHand(x)' PROVE InHand(x)
    BY <1>1, <1>2, <2>3 DEF InHand
  <2> QED
    BY <2>1, <2>3
<1> QED
  BY <1>3, <1>4, <1>5, <1>6

LEMMA TakeFramed ==
    ASSUME Typed, Framed, NEW t \in Threads, NEW j \in Jobs, TopAdded(t, Enter(j)),
           Running(t) => Top(t).at = "help"
    PROVE  Framed'
<1> DEFINE n == Len(stack[t]) + 1
<1>1. Enter(j).job = j /\ Enter(j).at = "submit" /\ Enter(j).left = Children[j] /\ j # Boot
  BY PoolAssumption DEF Enter
<1>2. /\ stack'[t][n] = Enter(j) /\ Len(stack'[t]) = n /\ n \in Nat
      /\ \A u \in Threads : \A i \in 1..Len(stack'[u]) :
           \/ u = t /\ i = n
           \/ i \in 1..Len(stack[u]) /\ stack'[u][i] = stack[u][i]
      /\ \A u \in Threads : u # t => stack'[u] = stack[u]
  BY AddedIs, LenIsNat DEF TopAdded
<1> SUFFICES ASSUME NEW u \in Threads, NEW i \in 1..Len(stack'[u])
             PROVE  LET g == stack'[u][i] IN
                    /\ i < Len(stack'[u]) => g.at = "help"
                    /\ g.at \in {"wait", "help"} => g.job \in Waiters
                    /\ g.at \notin {"submit", "push", "notify"} => g.left = {}
                    /\ g.left \subseteq Children[g.job]
                    /\ g.at \in {"push", "notify"} => g.next \in Jobs
                    /\ g.at = "push" => g.next \in Children[g.job] /\ g.next \notin g.left
                    /\ g.job = Boot => u = Main /\ i = 1
                    /\ g.at = "count" => g.job # Boot
  BY DEF Framed
<1>3. CASE u = t /\ i = n
  <2>1. stack'[u][i] = Enter(j) /\ ~(i < Len(stack'[u]))
    BY <1>2, <1>3
  <2> QED
    BY <1>1, <2>1
<1>4. CASE ~(u = t /\ i = n)
  <2>1. i \in 1..Len(stack[u]) /\ stack'[u][i] = stack[u][i]
    BY <1>2, <1>4
  <2>2. i < Len(stack'[u]) => stack[u][i].at = "help"
    <3>1. CASE u # t
      BY <1>2, <2>1, <3>1 DEF Framed
    <3>2. CASE u = t /\ i < Len(stack[t])
      BY <2>1, <3>2 DEF Framed
    <3>3. CASE u = t /\ i = Len(stack[t])
      <4>1. stack[t] # <<>>
        <5>1. stack[t] \in Seq(Frame) /\ Len(stack[t]) > 0
          BY <2>1, <3>3 DEF Typed
        <5> QED
          BY <5>1
      <4>2. Top(t).at = "help" /\ Top(t) = stack[t][i]
        BY <3>3, <4>1, TopFacts DEF Running
      <4> QED
        BY <3>3, <4>2
    <3> QED
      BY <2>1, <3>1, <3>2, <3>3, LenIsNat
  <2>3. /\ stack[u][i].at \in {"wait", "help"} => stack[u][i].job \in Waiters
        /\ stack[u][i].at \notin {"submit", "push", "notify"} => stack[u][i].left = {}
        /\ stack[u][i].left \subseteq Children[stack[u][i].job]
        /\ stack[u][i].at \in {"push", "notify"} => stack[u][i].next \in Jobs
        /\ stack[u][i].at = "push" =>
             stack[u][i].next \in Children[stack[u][i].job] /\ stack[u][i].next \notin stack[u][i].left
        /\ stack[u][i].job = Boot => u = Main /\ i = 1
        /\ stack[u][i].at = "count" => stack[u][i].job # Boot
    BY <2>1 DEF Framed
  <2> QED
    BY <2>1, <2>2, <2>3
<1> QED
  BY <1>3, <1>4

LEMMA TakePlaced ==
    ASSUME Typed, Placed, InTurn, NEW t \in Threads, NEW j \in Jobs, TopAdded(t, Enter(j)), Queued(j)
    PROVE  Placed'
<1> DEFINE n == Len(stack[t]) + 1
<1>1. Enter(j).job = j
  BY DEF Enter
<1>2. /\ n \in 1..Len(stack'[t]) /\ stack'[t][n] = Enter(j) /\ n \in Nat
      /\ \A u \in Threads : \A i \in 1..Len(stack'[u]) :
           \/ u = t /\ i = n
           \/ i \in 1..Len(stack[u]) /\ stack'[u][i] = stack[u][i]
  BY AddedIs, LenIsNat
<1>3. ran[j] = 0 /\ ~OnStack(j) /\ j # Boot
  BY PoolAssumption DEF InTurn
<1>4. \A u \in Threads : \A i \in 1..Len(stack[u]) :
        stack[u][i].job # j /\ stack[u][i].job \notin Children[j]
  <2> SUFFICES ASSUME NEW u \in Threads, NEW i \in 1..Len(stack[u])
               PROVE  stack[u][i].job # j /\ stack[u][i].job \notin Children[j]
    OBVIOUS
  <2> DEFINE x == stack[u][i].job
  <2>1. OnStack(x)
    BY DEF OnStack
  <2>2. ASSUME x \in Children[j] PROVE FALSE
    <3>1. x \in Jobs /\ Parent(x) = j
      BY <2>2, ChildrenAreJobs, ParentIs DEF Scripts
    <3>2. ran[x] = 1
      BY <2>1, <3>1 DEF InTurn
    <3>3. Begun(j)
      BY <3>1, <3>2 DEF InTurn
    <3> QED
      BY <1>3, <3>3 DEF Begun
  <2> QED
    BY <1>3, <2>1, <2>2
<1> HIDE DEF n
<1>5. ASSUME NEW u \in Threads, NEW v \in Threads, NEW i \in 1..Len(stack'[u]), NEW k \in 1..Len(stack'[v]),
             stack'[u][i].job = stack'[v][k].job
      PROVE  u = v /\ i = k
  <2>1. CASE u = t /\ i = n
    BY SMTT(30), <1>1, <1>2, <1>4, <1>5, <2>1
  <2>2. CASE v = t /\ k = n
    BY <1>1, <1>2, <1>4, <1>5, <2>2
  <2>3. CASE ~(u = t /\ i = n) /\ ~(v = t /\ k = n)
    <3>1. i \in 1..Len(stack[u]) /\ stack'[u][i] = stack[u][i]
          /\ k \in 1..Len(stack[v]) /\ stack'[v][k] = stack[v][k]
      BY <1>2, <2>3
    <3> QED
      BY <1>5, <3>1 DEF Placed
  <2> QED
    BY <2>1, <2>2, <2>3
<1>6. ASSUME NEW u \in Threads, NEW i \in 1..Len(stack'[u]), NEW k \in 1..Len(stack'[u]), i < k
      PROVE  stack'[u][i].job \notin Children[stack'[u][k].job]
  <2>1. CASE u = t /\ i = n
    <3>1. k \in 1..Len(stack[t])
      BY <1>2, <1>6, <2>1
    <3> QED
      BY <1>2, <1>6, <2>1, <3>1, LenIsNat DEF n
  <2>2. CASE ~(u = t /\ i = n) /\ u = t /\ k = n
    <3>1. i \in 1..Len(stack[u]) /\ stack'[u][i] = stack[u][i] /\ stack'[u][k] = Enter(j)
      BY <1>2, <2>2
    <3> QED
      BY <1>1, <1>4, <3>1
  <2>3. CASE ~(u = t /\ i = n) /\ ~(u = t /\ k = n)
    <3>1. i \in 1..Len(stack[u]) /\ stack'[u][i] = stack[u][i]
          /\ k \in 1..Len(stack[u]) /\ stack'[u][k] = stack[u][k]
      BY <1>2, <2>3
    <3> QED
      BY <1>6, <3>1 DEF Placed
  <2> QED
    BY <2>1, <2>2, <2>3
<1> QED
  BY <1>5, <1>6 DEF Placed


LEMMA ShorterIs ==
    ASSUME Typed, NEW t \in Threads, Running(t), Shorter(t)
    PROVE  /\ \A u \in Threads : \A i \in 1..Len(stack'[u]) :
                /\ i \in 1..Len(stack[u]) /\ (u # t \/ i # Len(stack[t]))
                /\ stack'[u][i].job = stack[u][i].job /\ stack'[u][i].left = stack[u][i].left
                /\ stack'[u][i].next = stack[u][i].next
                /\ (stack'[u][i].at = "push" <=> stack[u][i].at = "push")
                /\ (stack'[u][i].at = "count" <=> stack[u][i].at = "count")
           /\ \A u \in Threads : \A i \in 1..Len(stack[u]) :
                (u # t \/ i # Len(stack[t])) => i \in 1..Len(stack'[u])
<1>1. Len(stack[t]) \in Nat /\ Len(stack[t]) > 0 /\ Len(stack'[t]) = Len(stack[t]) - 1
  BY TopFacts DEF Shorter
<1>2. \A i \in 1..Len(stack[t]) : i # Len(stack[t]) => i \in 1..Len(stack'[t])
  BY <1>1
<1>3. \A i \in 1..Len(stack'[t]) : i \in 1..Len(stack[t]) /\ i # Len(stack[t])
  BY <1>1
<1>4. \A u \in Threads : u # t => stack'[u] = stack[u]
  BY DEF Shorter
<1>5. \A i \in 1..Len(stack'[t]) :
         /\ stack'[t][i].job = stack[t][i].job /\ stack'[t][i].left = stack[t][i].left
         /\ stack'[t][i].next = stack[t][i].next
         /\ (stack'[t][i].at = "push" <=> stack[t][i].at = "push")
         /\ (stack'[t][i].at = "count" <=> stack[t][i].at = "count")
  BY DEF Shorter
<1> QED
  BY <1>2, <1>3, <1>4, <1>5

LEMMA ShorterMoves ==
    ASSUME Typed, Framed, Placed, NEW t \in Threads, Running(t), Shorter(t), Top(t).at = "count"
    PROVE  /\ \A x : OnStack(x)' <=> OnStack(x) /\ x # Top(t).job
           /\ \A x : Doing(x)' <=> Doing(x)
           /\ \A x : Held(x)' <=> Held(x)
           /\ \A x : InHand(x)' <=> InHand(x)
           /\ OnStack(Top(t).job) /\ ~Doing(Top(t).job)
<1> DEFINE n == Len(stack[t])
           c == Top(t).job
<1>1. n \in 1..Len(stack[t]) /\ Top(t) = stack[t][n]
  BY TopFacts
<1>2. \A u \in Threads : \A i \in 1..Len(stack[u]) : stack[u][i].job = c => u = t /\ i = n
  BY <1>1 DEF Placed
<1>3. stack[t][n].at = "count" /\ stack[t][n].left = {} /\ stack[t][n].job = c
  BY <1>1 DEF Framed
<1>4. /\ \A u \in Threads : \A i \in 1..Len(stack'[u]) :
                /\ i \in 1..Len(stack[u]) /\ (u # t \/ i # n)
                /\ stack'[u][i].job = stack[u][i].job /\ stack'[u][i].left = stack[u][i].left
                /\ stack'[u][i].next = stack[u][i].next
                /\ (stack'[u][i].at = "push" <=> stack[u][i].at = "push")
                /\ (stack'[u][i].at = "count" <=> stack[u][i].at = "count")
      /\ \A u \in Threads : \A i \in 1..Len(stack[u]) :
                (u # t \/ i # n) => i \in 1..Len(stack'[u])
  BY ShorterIs
<1>5. OnStack(c) /\ ~Doing(c)
  BY <1>1, <1>2, <1>3 DEF OnStack, Doing
<1> HIDE DEF n, c
<1>6. ASSUME NEW x PROVE OnStack(x)' <=> OnStack(x) /\ x # c
  <2>1. ASSUME OnStack(x), x # c PROVE OnStack(x)'
    <3>1. PICK u \in Threads : \E i \in 1..Len(stack[u]) : stack[u][i].job = x
      BY <2>1 DEF OnStack
    <3>2. PICK i \in 1..Len(stack[u]) : stack[u][i].job = x
      BY <3>1
    <3>3. i \in 1..Len(stack'[u]) /\ stack'[u][i].job = x
      BY <1>3, <1>4, <2>1, <3>2
    <3> QED
      BY <3>3 DEF OnStack
  <2>2. ASSUME OnStack(x)' PROVE OnStack(x) /\ x # c
    <3>1. PICK u \in Threads : \E i \in 1..Len(stack'[u]) : stack'[u][i].job = x
      BY <2>2 DEF OnStack
    <3>2. PICK i \in 1..Len(stack'[u]) : stack'[u][i].job = x
      BY <3>1
    <3>3. i \in 1..Len(stack[u]) /\ stack[u][i].job = x /\ x # c
      BY <1>2, <1>4, <3>2
    <3> QED
      BY <3>3 DEF OnStack
  <2> QED
    BY <2>1, <2>2
<1>7. ASSUME NEW x PROVE Doing(x)' <=> Doing(x)
  <2>1. ASSUME Doing(x) PROVE Doing(x)'
    <3>1. PICK u \in Threads : \E i \in 1..Len(stack[u]) :
                 stack[u][i].job = x /\ stack[u][i].at # "count"
      BY <2>1 DEF Doing
    <3>2. PICK i \in 1..Len(stack[u]) : stack[u][i].job = x /\ stack[u][i].at # "count"
      BY <3>1
    <3>3. i \in 1..Len(stack'[u]) /\ stack'[u][i].job = x /\ stack'[u][i].at # "count"
      BY <1>3, <1>4, <3>2
    <3> QED
      BY <3>3 DEF Doing
  <2>2. ASSUME Doing(x)' PROVE Doing(x)
    <3>1. PICK u \in Threads : \E i \in 1..Len(stack'[u]) :
                 stack'[u][i].job = x /\ stack'[u][i].at # "count"
      BY <2>2 DEF Doing
    <3>2. PICK i \in 1..Len(stack'[u]) : stack'[u][i].job = x /\ stack'[u][i].at # "count"
      BY <3>1
    <3>3. i \in 1..Len(stack[u]) /\ stack[u][i].job = x /\ stack[u][i].at # "count"
      BY <1>4, <3>2
    <3> QED
      BY <3>3 DEF Doing
  <2> QED
    BY <2>1, <2>2
<1>8. ASSUME NEW x PROVE Held(x)' <=> Held(x)
  <2>1. ASSUME Held(x) PROVE Held(x)'
    <3>1. PICK u \in Threads : \E i \in 1..Len(stack[u]) : x \in stack[u][i].left
      BY <2>1 DEF Held
    <3>2. PICK i \in 1..Len(stack[u]) : x \in stack[u][i].left
      BY <3>1
    <3>3. i \in 1..Len(stack'[u]) /\ x \in stack'[u][i].left
      BY <1>3, <1>4, <3>2
    <3> QED
      BY <3>3 DEF Held
  <2>2. ASSUME Held(x)' PROVE Held(x)
    BY <1>4, <2>2 DEF Held
  <2> QED
    BY <2>1, <2>2
<1>9. ASSUME NEW x PROVE InHand(x)' <=> InHand(x)
  <2>1. ASSUME InHand(x) PROVE InHand(x)'
    <3>1. PICK u \in Threads : \E i \in 1..Len(stack[u]) :
                 stack[u][i].at = "push" /\ stack[u][i].next = x
      BY <2>1 DEF InHand
    <3>2. PICK i \in 1..Len(stack[u]) : stack[u][i].at = "push" /\ stack[u][i].next = x
      BY <3>1
    <3>3. i \in 1..Len(stack'[u]) /\ stack'[u][i].at = "push" /\ stack'[u][i].next = x
      BY <1>3, <1>4, <3>2
    <3> QED
      BY <3>3 DEF InHand
  <2>2. ASSUME InHand(x)' PROVE InHand(x)
    BY <1>4, <2>2 DEF InHand
  <2> QED
    BY <2>1, <2>2
<1> QED
  BY <1>5, <1>6, <1>7, <1>8, <1>9 DEF c

LEMMA ShorterFramed ==
    ASSUME Typed, Framed, NEW t \in Threads, Running(t), Shorter(t)
    PROVE  Framed'
<1> SUFFICES ASSUME NEW u \in Threads, NEW i \in 1..Len(stack'[u])
             PROVE  LET g == stack'[u][i] IN
                    /\ i < Len(stack'[u]) => g.at = "help"
                    /\ g.at \in {"wait", "help"} => g.job \in Waiters
                    /\ g.at \notin {"submit", "push", "notify"} => g.left = {}
                    /\ g.left \subseteq Children[g.job]
                    /\ g.at \in {"push", "notify"} => g.next \in Jobs
                    /\ g.at = "push" => g.next \in Children[g.job] /\ g.next \notin g.left
                    /\ g.job = Boot => u = Main /\ i = 1
                    /\ g.at = "count" => g.job # Boot
  BY DEF Framed
<1>1. i \in 1..Len(stack[u]) /\ (u # t \/ i # Len(stack[t]))
  BY ShorterIs
<1>2. /\ stack'[u][i].job = stack[u][i].job /\ stack'[u][i].left = stack[u][i].left
      /\ stack'[u][i].next = stack[u][i].next
  BY ShorterIs
<1>3. /\ i < Len(stack[u]) => stack[u][i].at = "help"
      /\ stack[u][i].at \in {"wait", "help"} => stack[u][i].job \in Waiters
      /\ stack[u][i].at \notin {"submit", "push", "notify"} => stack[u][i].left = {}
      /\ stack[u][i].left \subseteq Children[stack[u][i].job]
      /\ stack[u][i].at \in {"push", "notify"} => stack[u][i].next \in Jobs
      /\ stack[u][i].at = "push" =>
           stack[u][i].next \in Children[stack[u][i].job] /\ stack[u][i].next \notin stack[u][i].left
      /\ stack[u][i].job = Boot => u = Main /\ i = 1
      /\ stack[u][i].at = "count" => stack[u][i].job # Boot
  BY <1>1 DEF Framed
<1>4. \/ stack'[u][i].at = stack[u][i].at /\ (i < Len(stack'[u]) => i < Len(stack[u]))
      \/ stack'[u][i].at = "wait" /\ stack[u][i].at = "help" /\ i = Len(stack'[u])
  <2>1. CASE u # t
    BY <2>1 DEF Shorter
  <2>2. CASE u = t
    <3>1. Len(stack[t]) \in Nat /\ Len(stack'[t]) = Len(stack[t]) - 1
      BY TopFacts DEF Shorter
    <3>2. stack'[t][i].at = IF i = Len(stack'[t]) /\ stack[t][i].at = "help"
                            THEN "wait" ELSE stack[t][i].at
      BY <2>2 DEF Shorter
    <3> QED
      BY <2>2, <3>1, <3>2
  <2> QED
    BY <2>1, <2>2
<1> QED
  BY <1>2, <1>3, <1>4

LEMMA ShorterPlaced ==
    ASSUME Typed, Placed, NEW t \in Threads, Running(t), Shorter(t)
    PROVE  Placed'
<1>1. \A u \in Threads : \A i \in 1..Len(stack'[u]) :
        i \in 1..Len(stack[u]) /\ stack'[u][i].job = stack[u][i].job
  BY ShorterIs
<1> QED
  BY SMTT(30), <1>1 DEF Placed


LEMMA BootMoves ==
    ASSUME Typed, Framed, Placed, StopBegins
    PROVE  /\ stack' \in [Threads -> Seq(Frame)] /\ Framed' /\ Placed'
           /\ \A x \in Jobs : (OnStack(x)' <=> OnStack(x)) /\ (Doing(x)' <=> Doing(x))
           /\ \A x : (Held(x)' <=> Held(x)) /\ (InHand(x)' <=> InHand(x))
           /\ stack'[Main] = <<>> /\ \A u \in Threads : u # Main => stack'[u] = stack[u]
<1>1. Main \in Threads /\ Running(Main) /\ Top(Main).at = "end" /\ Top(Main).job = Boot
      /\ stack \in [Threads -> Seq(Frame)] /\ stack' = [stack EXCEPT ![Main] = <<>>]
  BY DEF StopBegins, AtStep, Threads, Typed
<1>2. Len(stack[Main]) \in 1..Len(stack[Main]) /\ Top(Main) = stack[Main][Len(stack[Main])]
  BY <1>1, TopFacts
<1>3. Len(stack[Main]) = 1
  BY <1>1, <1>2 DEF Framed
<1>4. stack[Main][1].job = Boot /\ stack[Main][1].at = "end" /\ stack[Main][1].left = {}
  BY <1>1, <1>2, <1>3 DEF Framed
<1>5. stack' \in [Threads -> Seq(Frame)] /\ stack'[Main] = <<>>
      /\ \A u \in Threads : u # Main => stack'[u] = stack[u]
  BY <1>1
<1>6. Len(stack'[Main]) = 0
  BY <1>5
<1>7. /\ \A u \in Threads : \A i \in 1..Len(stack'[u]) : u # Main /\ stack'[u] = stack[u]
      /\ \A u \in Threads : \A i \in 1..Len(stack[u]) :
           (u = Main /\ stack[u][i] = stack[Main][1]) \/ stack'[u] = stack[u]
  BY <1>3, <1>5, <1>6
<1>8. Framed'
  BY <1>7 DEF Framed
<1>9. Placed'
  <2>1. \A u \in Threads : \A i \in 1..Len(stack'[u]) :
          i \in 1..Len(stack[u]) /\ stack'[u][i].job = stack[u][i].job
    BY <1>7
  <2> QED
    BY <2>1 DEF Placed
<1>10. \A x \in Jobs : (OnStack(x)' <=> OnStack(x)) /\ (Doing(x)' <=> Doing(x))
  <2> SUFFICES ASSUME NEW x \in Jobs
               PROVE (OnStack(x)' <=> OnStack(x)) /\ (Doing(x)' <=> Doing(x))
    OBVIOUS
  <2>1. x # stack[Main][1].job
    BY <1>4, PoolAssumption
  <2>2. OnStack(x)' <=> OnStack(x)
    BY <1>7, <2>1 DEF OnStack
  <2>3. Doing(x)' <=> Doing(x)
    BY <1>7, <2>1 DEF Doing
  <2> QED
    BY <2>2, <2>3
<1>11. \A x : (Held(x)' <=> Held(x)) /\ (InHand(x)' <=> InHand(x))
  <2> SUFFICES ASSUME NEW x PROVE (Held(x)' <=> Held(x)) /\ (InHand(x)' <=> InHand(x))
    OBVIOUS
  <2>1. Held(x)' <=> Held(x)
    BY <1>4, <1>7 DEF Held
  <2>2. InHand(x)' <=> InHand(x)
    BY <1>4, <1>7 DEF InHand
  <2> QED
    BY <2>1, <2>2
<1> QED
  BY <1>5, <1>8, <1>9, <1>10, <1>11

-----------------------------------------------------------------------------
(* The order of a job's places, and the counts. *)

LEMMA Unmoved ==
    ASSUME InTurn, Groups, queue' = queue, ran' = ran, outstanding' = outstanding,
           completed' = completed,
           \A x \in Jobs : (OnStack(x)' <=> OnStack(x)) /\ (Doing(x)' <=> Doing(x)),
           \A x : (Held(x)' <=> Held(x)) /\ (InHand(x)' <=> InHand(x))
    PROVE  InTurn' /\ Groups'
<1>1. \A x : (Queued(x)' <=> Queued(x)) /\ (Begun(x)' <=> Begun(x))
  BY DEF Queued, Begun
<1>2. InTurn'
  BY <1>1 DEF InTurn
<1>3. ASSUME NEW p \in Scripts PROVE LiveOf(p)' = LiveOf(p)
  <2>1. \A x \in Children[p] : Live(x)' <=> Live(x)
    BY <1>1, ChildrenAreJobs DEF Live
  <2> QED
    BY <2>1 DEF LiveOf
<1>4. Gone' = Gone
  BY DEF Gone
<1>5. Groups'
  BY <1>3, <1>4 DEF Groups
<1> QED
  BY <1>2, <1>5

LEMMA Counts ==
    ASSUME NEW p \in Scripts
    PROVE  /\ IsFiniteSet(LiveOf(p)) /\ Cardinality(LiveOf(p)) \in Nat
           /\ Cardinality(LiveOf(p)) <= Cardinality(Jobs)
           /\ IsFiniteSet(Gone) /\ Cardinality(Gone) \in Nat
           /\ Cardinality(Gone) <= Cardinality(Jobs)
<1>1. LiveOf(p) \subseteq Jobs /\ Gone \subseteq Jobs
  BY ChildrenAreJobs DEF LiveOf, Gone
<1>2. IsFiniteSet(Jobs)
  BY PoolAssumption
<1> QED
  BY <1>1, <1>2, FS_Subset, FS_CardinalityType

\* A job is in hand, queued or begun before its group stops counting it.
LEMMA HeldIsNotLive ==
    ASSUME InTurn, NEW j \in Jobs, Held(j)
    PROVE  ~Live(j) /\ ran[j] = 0 /\ ~OnStack(j)
<1>1. ran[j] = 0 /\ ~Queued(j) /\ ~InHand(j) /\ ~OnStack(j)
  BY DEF InTurn
<1>2. ~Doing(j)
  BY <1>1 DEF Doing, OnStack
<1> QED
  BY <1>1, <1>2 DEF Live

LEMMA AddCounts ==
    ASSUME Typed, Groups, InTurn, NEW j \in Jobs, Held(j), outstanding' = Counted(j),
           ran' = ran, completed' = completed,
           \A x : Live(x)' <=> Live(x) \/ x = j, \A x : OnStack(x)' <=> OnStack(x)
    PROVE  Groups'
<1>1. ~Live(j)
  BY HeldIsNotLive
<1>2. Parent(j) \in Scripts /\ j \in Children[Parent(j)]
      /\ \A p \in Scripts : j \in Children[p] => p = Parent(j)
  BY ParentIs
<1>3. ASSUME NEW p \in Scripts, p # Parent(j) PROVE LiveOf(p)' = LiveOf(p)
  BY <1>2, <1>3 DEF LiveOf
<1>4. LiveOf(Parent(j))' = LiveOf(Parent(j)) \cup {j} /\ j \notin LiveOf(Parent(j))
  BY <1>1, <1>2 DEF LiveOf
<1>5. Cardinality(LiveOf(Parent(j))') = Cardinality(LiveOf(Parent(j))) + 1
  BY <1>2, <1>4, Counts, FS_AddElement
<1>6. Gone' = Gone
  BY DEF Gone
<1>7. ASSUME NEW p \in Scripts
      PROVE  outstanding'[p] = IF p \in Waiters THEN Cardinality(LiveOf(p)') ELSE 0
  <2>1. CASE p # Parent(j)
    <3>1. outstanding'[p] = outstanding[p]
      BY <2>1 DEF Counted, Typed
    <3> QED
      BY <1>3, <2>1, <3>1 DEF Groups
  <2>2. CASE p = Parent(j) /\ Grouped(j)
    <3>1. outstanding'[p] = outstanding[p] + 1
      BY <2>2 DEF Counted, Typed
    <3> QED
      BY <1>5, <2>2, <3>1 DEF Groups, Grouped
  <2>3. CASE p = Parent(j) /\ ~Grouped(j)
    BY <2>3 DEF Groups, Grouped, Counted
  <2> QED
    BY <2>1, <2>2, <2>3
<1> QED
  BY <1>6, <1>7 DEF Groups

LEMMA EndCounts ==
    ASSUME Typed, Groups, NEW j \in Jobs, Live(j), outstanding' = Uncounted(j),
           ran' = ran, completed' = completed,
           \A x : Live(x)' <=> Live(x) /\ x # j, \A x : OnStack(x)' <=> OnStack(x)
    PROVE  Groups'
<1>2. Parent(j) \in Scripts /\ j \in Children[Parent(j)]
      /\ \A p \in Scripts : j \in Children[p] => p = Parent(j)
  BY ParentIs
<1>3. ASSUME NEW p \in Scripts, p # Parent(j) PROVE LiveOf(p)' = LiveOf(p)
  BY <1>2, <1>3 DEF LiveOf
<1>4. LiveOf(Parent(j))' = LiveOf(Parent(j)) \ {j} /\ j \in LiveOf(Parent(j))
  BY <1>2 DEF LiveOf
<1>5. Cardinality(LiveOf(Parent(j))') = Cardinality(LiveOf(Parent(j))) - 1
  BY <1>2, <1>4, Counts, FS_RemoveElement
<1>6. Gone' = Gone
  BY DEF Gone
<1>7. ASSUME NEW p \in Scripts
      PROVE  outstanding'[p] = IF p \in Waiters THEN Cardinality(LiveOf(p)') ELSE 0
  <2>1. CASE p # Parent(j)
    <3>1. outstanding'[p] = outstanding[p]
      BY <2>1 DEF Uncounted, Typed
    <3> QED
      BY <1>3, <2>1, <3>1 DEF Groups
  <2>2. CASE p = Parent(j) /\ Grouped(j)
    <3>1. outstanding'[p] = outstanding[p] - 1
      BY <2>2 DEF Uncounted, Typed
    <3> QED
      BY <1>5, <2>2, <3>1 DEF Groups, Grouped
  <2>3. CASE p = Parent(j) /\ ~Grouped(j)
    BY <2>3 DEF Groups, Grouped, Uncounted
  <2> QED
    BY <2>1, <2>2, <2>3
<1> QED
  BY <1>6, <1>7 DEF Groups


-----------------------------------------------------------------------------
(* Every step keeps the work in order. *)

\* What has ended stays so.
DoneStays == \A j \in Jobs : ran[j] = 1 /\ ~Doing(j) => ran'[j] = 1 /\ ~Doing(j)'

LEMMA StillWorks ==
    ASSUME Work, UNCHANGED <<queue, stack, ran, outstanding, completed>>
    PROVE  Work' /\ DoneStays
<1> USE DEF Work
<1>1. /\ \A x \in Jobs : (OnStack(x)' <=> OnStack(x)) /\ (Doing(x)' <=> Doing(x))
      /\ \A x : (Held(x)' <=> Held(x)) /\ (InHand(x)' <=> InHand(x))
  BY DEF OnStack, Doing, Held, InHand
<1>2. InTurn' /\ Groups'
  BY <1>1, Unmoved
<1>3. Typed' /\ Distinct'
  BY DEF Typed, Distinct
<1>4. Framed'
  BY ZenonT(40) DEF Framed
<1>5. Placed'
  BY ZenonT(40) DEF Placed
<1>6. DoneStays
  BY <1>1 DEF DoneStays
<1> QED
  BY <1>2, <1>3, <1>4, <1>5, <1>6

LEMMA PlainWorks ==
    ASSUME Work, NEW t \in Threads, Running(t), NEW f \in Frame, SetTop(t, f),
           f.job = Top(t).job, f.left = Top(t).left,
           f.at \notin {"push", "count"}, Top(t).at \notin {"push", "count"},
           f.at \in {"wait", "help"} => f.job \in Waiters,
           f.at \notin {"submit", "push", "notify"} => f.left = {},
           f.at \in {"push", "notify"} => f.next \in Jobs,
           UNCHANGED <<queue, ran, outstanding, completed>>
    PROVE  Work' /\ DoneStays
<1> USE DEF Work
<1>1. TopSet(t, f)
  BY SetTopIs
<1>2. Typed'
  BY <1>1 DEF Typed, TopSet
<1>3. Top(t).left \subseteq Children[Top(t).job]
  BY TopFacts DEF Framed
<1>4. Framed'
  BY <1>1, <1>3, TopSetFramed
<1>5. Placed' /\ Distinct'
  <2>1. Placed'
    BY <1>1, TopSetKeeps
  <2> QED
    BY <2>1 DEF Distinct
<1>6. /\ \A x : OnStack(x)' <=> OnStack(x)
      /\ \A x : Held(x)' <=> Held(x)
      /\ \A x : InHand(x)' <=> InHand(x)
      /\ \A x : Doing(x)' <=> Doing(x)
  <2>1. f.at # "push" /\ Top(t).at # "push" /\ f.at # "count" /\ Top(t).at # "count"
    OBVIOUS
  <2> QED
    BY <1>1, <2>1, TopSetKeeps
<1>7. InTurn' /\ Groups'
  BY <1>6, Unmoved
<1>8. DoneStays
  BY <1>6 DEF DoneStays
<1> QED
  BY <1>2, <1>4, <1>5, <1>7, <1>8

LEMMA NotifyWorks == ASSUME Work, NEW t \in Threads, SubmitNotify(t) PROVE Work' /\ DoneStays
<1> DEFINE f == [Top(t) EXCEPT !.at = "submit", !.next = Nobody]
<1>1. Running(t) /\ Top(t).at = "notify" /\ SetTop(t, f) /\ UNCHANGED <<queue, ran, outstanding, completed>>
  BY DEF SubmitNotify, AtStep
<1>2. Top(t) \in Frame
  BY <1>1, TopFacts DEF Work
<1>3. f \in Frame /\ f.job = Top(t).job /\ f.left = Top(t).left /\ f.at = "submit"
  BY <1>2 DEF Frame
<1> HIDE DEF f
<1> QED
  BY <1>1, <1>3, PlainWorks

LEMMA GotoIs ==
    ASSUME Typed, NEW t \in Threads, Running(t),
           NEW at \in {"submit", "push", "notify", "wait", "help", "end", "count"}, Goto(t, at)
    PROVE  \E f \in Frame : /\ SetTop(t, f) /\ f.job = Top(t).job /\ f.left = Top(t).left
                            /\ f.at = at /\ f.next = Top(t).next
<1> DEFINE f == [Top(t) EXCEPT !.at = at]
<1>1. Top(t) \in Frame
  BY TopFacts
<1>2. f \in Frame /\ f.job = Top(t).job /\ f.left = Top(t).left /\ f.at = at /\ f.next = Top(t).next
  BY <1>1 DEF Frame
<1>3. SetTop(t, f)
  BY DEF Goto
<1> HIDE DEF f
<1> QED
  BY <1>2, <1>3

LEMMA DoneWorks == ASSUME Work, NEW t \in Threads, SubmitDone(t) PROVE Work' /\ DoneStays
<1> DEFINE at == IF Top(t).job \in Waiters THEN "wait" ELSE "end"
<1>1. Running(t) /\ Top(t).at = "submit" /\ Top(t).left = {} /\ Goto(t, at)
      /\ UNCHANGED <<queue, ran, outstanding, completed>>
  BY DEF SubmitDone, AtStep
<1>2. PICK f \in Frame : /\ SetTop(t, f) /\ f.job = Top(t).job /\ f.left = Top(t).left
                         /\ f.at = at /\ f.next = Top(t).next
  BY <1>1, GotoIs DEF Work
<1> QED
  BY <1>1, <1>2, PlainWorks

LEMMA LooksWorks == ASSUME Work, NEW t \in Threads, WaitLooks(t) PROVE Work' /\ DoneStays
<1> DEFINE at == IF Settled(Top(t).job) THEN "end" ELSE "help"
<1>1. Running(t) /\ Top(t).at = "wait" /\ Goto(t, at) /\ UNCHANGED <<queue, ran, outstanding, completed>>
  BY DEF WaitLooks, AtStep
<1>2. PICK f \in Frame : /\ SetTop(t, f) /\ f.job = Top(t).job /\ f.left = Top(t).left
                         /\ f.at = at /\ f.next = Top(t).next
  BY <1>1, GotoIs DEF Work
<1>3. Top(t).left = {} /\ Top(t).job \in Waiters
  BY <1>1, TopFacts DEF Work, Framed
<1> QED
  BY <1>1, <1>2, <1>3, PlainWorks

LEMMA YieldsWorks == ASSUME Work, NEW t \in Threads, WaitYields(t) PROVE Work' /\ DoneStays
<1> DEFINE at == IF crew = {} THEN "end" ELSE "wait"
<1>1. Running(t) /\ Top(t).at = "help" /\ Goto(t, at) /\ UNCHANGED <<queue, ran, outstanding, completed>>
  BY DEF WaitYields, AtStep
<1>2. PICK f \in Frame : /\ SetTop(t, f) /\ f.job = Top(t).job /\ f.left = Top(t).left
                         /\ f.at = at /\ f.next = Top(t).next
  BY <1>1, GotoIs DEF Work
<1>3. Top(t).left = {} /\ Top(t).job \in Waiters
  BY <1>1, TopFacts DEF Work, Framed
<1> QED
  BY <1>1, <1>2, <1>3, PlainWorks

LEMMA AddWorks == ASSUME Work, NEW t \in Threads, SubmitAdd(t) PROVE Work' /\ DoneStays
<1> USE DEF Work
<1>1. Running(t) /\ Top(t).at = "submit" /\ UNCHANGED <<queue, ran, completed>>
  BY DEF SubmitAdd, AtStep
<1>2. PICK j \in Top(t).left :
        /\ SetTop(t, [Top(t) EXCEPT !.at = "push", !.left = @ \ {j}, !.next = j])
        /\ outstanding' = Counted(j)
  BY DEF SubmitAdd
<1> DEFINE f == [Top(t) EXCEPT !.at = "push", !.left = @ \ {j}, !.next = j]
<1>3. Top(t) \in Frame /\ Len(stack[t]) \in 1..Len(stack[t]) /\ Top(t) = stack[t][Len(stack[t])]
  BY <1>1, TopFacts
<1>4. j \in Jobs /\ Top(t).job = Parent(j) /\ Top(t).left \subseteq Children[Top(t).job] /\ Held(j)
  BY <1>3, HolderIs DEF Framed, Held
<1>5. f \in Frame /\ f.job = Top(t).job /\ f.left = Top(t).left \ {j} /\ f.at = "push" /\ f.next = j
  BY <1>3, <1>4 DEF Frame
<1>6. SetTop(t, f)
  BY <1>2
<1> HIDE DEF f
<1>7. TopSet(t, f)
  BY <1>1, <1>5, <1>6, SetTopIs
<1>8. Framed'
  BY <1>1, <1>4, <1>5, <1>7, TopSetFramed
<1>9. Placed' /\ Distinct'
  <2>1. Placed'
    BY <1>1, <1>5, <1>7, TopSetKeeps
  <2> QED
    BY <1>1, <2>1 DEF Distinct
<1>10. /\ \A x : OnStack(x)' <=> OnStack(x)
       /\ \A x : Doing(x)' <=> Doing(x)
  <2>1. f.at # "count" /\ Top(t).at # "count"
    BY <1>1, <1>5
  <2> QED
    BY <1>1, <1>5, <1>7, <2>1, TopSetKeeps
<1>11. /\ \A x : Held(x)' <=> Held(x) /\ x # j
       /\ \A x : InHand(x)' <=> InHand(x) \/ x = j
  BY <1>1, <1>5, <1>7, AddMoves
<1>12. \A x : (Queued(x)' <=> Queued(x)) /\ (Begun(x)' <=> Begun(x))
  BY <1>1 DEF Queued, Begun
<1>13. InTurn'
  <2>1. ran[j] = 0 /\ ~Queued(j)
    BY <1>4 DEF InTurn
  <2> QED
    BY <1>1, <1>10, <1>11, <1>12, <2>1 DEF InTurn
<1>14. Groups'
  <2>1. \A x : Live(x)' <=> Live(x) \/ x = j
    BY <1>10, <1>11, <1>12 DEF Live
  <2> QED
    BY <1>1, <1>2, <1>4, <1>10, <2>1, AddCounts
<1>15. Typed'
  <2>1. Parent(j) \in Scripts
    BY <1>4, ParentIs
  <2>2. outstanding' \in [Scripts -> Nat]
    BY <1>2, <2>1 DEF Counted, Typed
  <2> QED
    BY <1>1, <1>7, <2>2 DEF Typed, TopSet
<1>16. DoneStays
  BY <1>1, <1>10 DEF DoneStays
<1> QED
  BY <1>8, <1>9, <1>13, <1>14, <1>15, <1>16

LEMMA PushWorks == ASSUME Work, NEW t \in Threads, SubmitPush(t) PROVE Work' /\ DoneStays
<1> USE DEF Work
<1> DEFINE j == Top(t).next
<1>1. Running(t) /\ Top(t).at = "push" /\ Goto(t, "notify") /\ queue' = Append(queue, j)
      /\ UNCHANGED <<ran, outstanding, completed>>
  BY DEF SubmitPush, AtStep
<1>2. PICK f \in Frame : /\ SetTop(t, f) /\ f.job = Top(t).job /\ f.left = Top(t).left
                         /\ f.at = "notify" /\ f.next = Top(t).next
  BY <1>1, GotoIs
<1>3. TopSet(t, f)
  BY <1>1, <1>2, SetTopIs
<1>4. /\ j \in Jobs /\ Parent(j) = Top(t).job /\ InHand(j)
      /\ \A x : InHand(x)' <=> InHand(x) /\ x # j
  BY <1>1, <1>2, <1>3, PushMoves
<1>5. Top(t).left \subseteq Children[Top(t).job] /\ Len(stack[t]) \in 1..Len(stack[t])
      /\ Top(t) = stack[t][Len(stack[t])]
  BY <1>1, TopFacts DEF Framed
<1>6. Framed'
  BY <1>1, <1>2, <1>3, <1>4, <1>5, TopSetFramed
<1>7. Placed'
  BY <1>1, <1>2, <1>3, TopSetKeeps
<1>8. /\ \A x : OnStack(x)' <=> OnStack(x)
      /\ \A x : Doing(x)' <=> Doing(x)
      /\ \A x : Held(x)' <=> Held(x)
  <2>1. f.at # "count" /\ Top(t).at # "count"
    BY <1>1, <1>2
  <2> QED
    BY <1>1, <1>2, <1>3, <2>1, TopSetKeeps
<1> HIDE DEF j
<1>9. ran[j] = 0 /\ ~Queued(j) /\ ~Held(j)
  BY <1>4 DEF InTurn
<1>10. queue \in Seq(Jobs) /\ queue' \in Seq(Jobs) /\ Len(queue) \in Nat /\ Len(queue') = Len(queue) + 1
       /\ queue'[Len(queue) + 1] = j /\ \A i \in 1..Len(queue) : queue'[i] = queue[i]
  BY <1>1, <1>4 DEF Typed
<1>11. \A i \in 1..Len(queue') : i \in 1..Len(queue) \/ i = Len(queue) + 1
  BY <1>10
<1>12. Len(queue) + 1 \in 1..Len(queue') /\ \A i \in 1..Len(queue) : i \in 1..Len(queue')
  BY <1>10
<1>13. \A x : Queued(x)' <=> Queued(x) \/ x = j
  BY <1>10, <1>11, <1>12 DEF Queued
<1>14. Distinct'
  BY <1>9, <1>10, <1>11 DEF Distinct, Queued
<1>15. Begun(Parent(j))
  <2>1. Begun(Top(t).job)
    <3>1. Top(t).job \in Scripts
      BY <1>1, TopFacts DEF Frame
    <3>2. OnStack(Top(t).job)
      BY <1>5 DEF OnStack
    <3> QED
      BY <3>1, <3>2 DEF InTurn, Begun, Scripts
  <2> QED
    BY <1>4, <2>1
<1>16. \A x : Begun(x)' <=> Begun(x)
  BY <1>1 DEF Begun
<1>17. InTurn'
  BY <1>1, <1>4, <1>8, <1>9, <1>13, <1>15, <1>16 DEF InTurn
<1>18. Groups'
  <2>1. \A x : Live(x)' <=> Live(x)
    BY <1>4, <1>8, <1>13 DEF Live
  <2>2. \A p : LiveOf(p)' = LiveOf(p)
    BY <2>1 DEF LiveOf
  <2>3. Gone' = Gone
    BY <1>1, <1>8 DEF Gone
  <2> QED
    BY <1>1, <2>2, <2>3 DEF Groups
<1>19. Typed'
  BY <1>1, <1>3, <1>10 DEF Typed, TopSet
<1>20. DoneStays
  BY <1>1, <1>8 DEF DoneStays
<1> QED
  BY <1>6, <1>7, <1>14, <1>17, <1>18, <1>19, <1>20


LEMMA JobEndWorks == ASSUME Work, NEW t \in Threads, JobDone(t) PROVE Work' /\ DoneStays
<1> USE DEF Work
<1> DEFINE c == Top(t).job
<1>1. Running(t) /\ Top(t).at = "end" /\ c # Boot /\ Goto(t, "count") /\ outstanding' = Uncounted(c)
      /\ UNCHANGED <<queue, ran, completed>>
  BY DEF JobDone, AtStep
<1>2. PICK f \in Frame : /\ SetTop(t, f) /\ f.job = c /\ f.left = Top(t).left
                         /\ f.at = "count" /\ f.next = Top(t).next
  BY <1>1, GotoIs
<1>3. TopSet(t, f)
  BY <1>1, <1>2, SetTopIs
<1>4. /\ Top(t).left = {} /\ Len(stack[t]) \in 1..Len(stack[t]) /\ Top(t) \in Frame
      /\ Top(t) = stack[t][Len(stack[t])]
  BY <1>1, TopFacts DEF Framed
<1>5. c \in Jobs /\ OnStack(c)
  BY <1>1, <1>4 DEF Frame, Scripts, OnStack
<1>6. Framed'
  BY <1>1, <1>2, <1>3, <1>4, TopSetFramed
<1>7. Placed' /\ Distinct'
  <2>1. Placed'
    BY <1>1, <1>2, <1>3, TopSetKeeps
  <2> QED
    BY <1>1, <2>1 DEF Distinct
<1>8. /\ \A x : OnStack(x)' <=> OnStack(x)
      /\ \A x : Held(x)' <=> Held(x)
      /\ \A x : InHand(x)' <=> InHand(x)
  <2>1. f.at # "push" /\ Top(t).at # "push"
    BY <1>1, <1>2
  <2> QED
    BY <1>1, <1>2, <1>3, <2>1, TopSetKeeps
<1>9. Doing(c) /\ \A x : Doing(x)' <=> Doing(x) /\ x # c
  BY <1>1, <1>2, <1>3, EndMoves
<1> HIDE DEF c
<1>10. \A x : (Queued(x)' <=> Queued(x)) /\ (Begun(x)' <=> Begun(x))
  BY <1>1 DEF Queued, Begun
<1>11. InTurn'
  BY <1>1, <1>8, <1>10 DEF InTurn
<1>12. ran[c] = 1 /\ ~Queued(c) /\ ~InHand(c)
  BY <1>5 DEF InTurn
<1>13. Groups'
  <2>1. \A x : Live(x)' <=> Live(x) /\ x # c
    BY <1>8, <1>9, <1>10, <1>12 DEF Live
  <2>2. Live(c)
    BY <1>9 DEF Live
  <2> QED
    BY <1>1, <1>5, <1>8, <2>1, <2>2, EndCounts
<1>14. Typed'
  <2>1. \A p \in Scripts : outstanding'[p] \in Nat
    <3> SUFFICES ASSUME NEW p \in Scripts PROVE outstanding'[p] \in Nat
      OBVIOUS
    <3>1. LiveOf(p)' \subseteq Jobs /\ IsFiniteSet(Jobs)
      BY ChildrenAreJobs, PoolAssumption DEF LiveOf
    <3>2. Cardinality(LiveOf(p)') \in Nat
      BY <3>1, FS_Subset, FS_CardinalityType
    <3> QED
      BY <1>13, <3>2 DEF Groups
  <2>2. outstanding' \in [Scripts -> Nat]
    <3>1. DOMAIN outstanding' = Scripts /\ outstanding' = [p \in Scripts |-> outstanding'[p]]
      BY <1>1 DEF Uncounted, Typed
    <3> QED
      BY <2>1, <3>1
  <2> QED
    BY <1>1, <1>3, <2>2 DEF Typed, TopSet
<1>15. DoneStays
  BY <1>1, <1>9 DEF DoneStays
<1> QED
  BY <1>6, <1>7, <1>11, <1>13, <1>14, <1>15

LEMMA CountedWorks == ASSUME Work, NEW t \in Threads, JobCounted(t) PROVE Work' /\ DoneStays
<1> USE DEF Work
<1> DEFINE c == Top(t).job
<1>1. Running(t) /\ Top(t).at = "count" /\ completed' = completed + 1
      /\ stack' = [stack EXCEPT ![t] = Return(Front(@))] /\ UNCHANGED <<queue, ran, outstanding>>
  BY DEF JobCounted, AtStep
<1>2. Shorter(t)
  BY <1>1, CountedIs
<1>3. Framed' /\ Placed'
  BY <1>1, <1>2, ShorterFramed, ShorterPlaced
<1>4. Distinct'
  BY <1>1 DEF Distinct
<1>5. /\ \A x : OnStack(x)' <=> OnStack(x) /\ x # c
      /\ \A x : Doing(x)' <=> Doing(x)
      /\ \A x : Held(x)' <=> Held(x)
      /\ \A x : InHand(x)' <=> InHand(x)
      /\ OnStack(c)
  BY <1>1, <1>2, ShorterMoves
<1>6. c \in Jobs
  <2>1. Top(t) \in Frame /\ Len(stack[t]) \in 1..Len(stack[t]) /\ Top(t) = stack[t][Len(stack[t])]
    BY <1>1, TopFacts
  <2>2. c # Boot
    BY <1>1, <2>1 DEF Framed
  <2> QED
    BY <2>1, <2>2 DEF Frame, Scripts
<1> HIDE DEF c
<1>7. \A x : (Queued(x)' <=> Queued(x)) /\ (Begun(x)' <=> Begun(x))
  BY <1>1 DEF Queued, Begun
<1>8. InTurn'
  BY <1>1, <1>5, <1>7 DEF InTurn
<1>9. Groups'
  <2>1. \A x : Live(x)' <=> Live(x)
    BY <1>5, <1>7 DEF Live
  <2>2. \A p : LiveOf(p)' = LiveOf(p)
    BY <2>1 DEF LiveOf
  <2>3. ran[c] = 1
    BY <1>5, <1>6 DEF InTurn
  <2>4. Gone' = Gone \cup {c} /\ c \notin Gone
    BY <1>1, <1>5, <1>6, <2>3 DEF Gone
  <2>5. IsFiniteSet(Gone)
    <3>1. Boot \in Scripts
      BY DEF Scripts
    <3> QED
      BY <3>1, Counts
  <2>6. Cardinality(Gone') = Cardinality(Gone) + 1
    BY <2>4, <2>5, FS_AddElement
  <2> QED
    BY <1>1, <2>2, <2>6 DEF Groups
<1>10. Typed'
  BY <1>1, <1>2 DEF Typed, Shorter
<1>11. DoneStays
  BY <1>1, <1>5 DEF DoneStays
<1> QED
  BY <1>3, <1>4, <1>8, <1>9, <1>10, <1>11

LEMMA BootWorks == ASSUME Work, StopBegins PROVE Work' /\ DoneStays
<1> USE DEF Work
<1>1. UNCHANGED <<queue, ran, outstanding, completed>>
  BY DEF StopBegins
<1>2. /\ stack' \in [Threads -> Seq(Frame)] /\ Framed' /\ Placed'
      /\ \A x \in Jobs : (OnStack(x)' <=> OnStack(x)) /\ (Doing(x)' <=> Doing(x))
      /\ \A x : (Held(x)' <=> Held(x)) /\ (InHand(x)' <=> InHand(x))
  BY BootMoves
<1>3. InTurn' /\ Groups'
  BY <1>1, <1>2, Unmoved
<1>4. Typed' /\ Distinct'
  BY <1>1, <1>2 DEF Typed, Distinct
<1>5. DoneStays
  BY <1>1, <1>2 DEF DoneStays
<1> QED
  BY <1>2, <1>3, <1>4, <1>5

LEMMA TakeWorks ==
    ASSUME Work, NEW t \in Threads, Take(t), Running(t) => Top(t).at = "help",
           UNCHANGED <<outstanding, completed>>
    PROVE  Work' /\ DoneStays
<1> USE DEF Work
<1> DEFINE j == Head(queue)
<1>1. /\ j \in Jobs /\ queue' \in Seq(Jobs) /\ Len(queue) \in Nat /\ Len(queue) > 0
      /\ Len(queue') = Len(queue) - 1 /\ j = queue[1]
      /\ \A i \in 1..Len(queue') : queue'[i] = queue[i + 1]
      /\ TopAdded(t, Enter(j))
      /\ ran' = [ran EXCEPT ![j] = @ + 1]
  BY TakenIs
<1> HIDE DEF j
<1>2. Queued(j)
  BY <1>1 DEF Queued
<1>3. Framed' /\ Placed'
  BY <1>1, <1>2, TakeFramed, TakePlaced
<1>4. \A i \in 1..Len(queue') : i + 1 \in 1..Len(queue) /\ i + 1 # 1
  BY <1>1
<1>5. \A i \in 1..Len(queue) : i = 1 \/ (i - 1 \in 1..Len(queue') /\ queue'[i - 1] = queue[i])
  <2> SUFFICES ASSUME NEW i \in 1..Len(queue), i # 1
               PROVE  i - 1 \in 1..Len(queue') /\ queue'[i - 1] = queue[i]
    OBVIOUS
  <2>1. i - 1 \in 1..Len(queue') /\ (i - 1) + 1 = i
    BY <1>1
  <2> QED
    BY <1>1, <2>1
<1>6. Distinct'
  <2> SUFFICES ASSUME NEW i \in 1..Len(queue'), NEW k \in 1..Len(queue'), queue'[i] = queue'[k]
               PROVE  i = k
    BY DEF Distinct
  <2>1. i + 1 \in 1..Len(queue) /\ k + 1 \in 1..Len(queue) /\ queue[i + 1] = queue[k + 1]
    BY <1>1, <1>4
  <2>2. i + 1 = k + 1
    BY <2>1 DEF Distinct
  <2> QED
    BY <2>2
<1>7. \A x : Queued(x)' <=> Queued(x) /\ x # j
  <2> SUFFICES ASSUME NEW x PROVE Queued(x)' <=> Queued(x) /\ x # j
    OBVIOUS
  <2>1. ASSUME Queued(x)' PROVE Queued(x) /\ x # j
    <3>1. PICK i \in 1..Len(queue') : queue'[i] = x
      BY <2>1 DEF Queued
    <3>2. i + 1 \in 1..Len(queue) /\ i + 1 # 1 /\ queue[i + 1] = x
      BY <1>1, <1>4, <3>1
    <3>3. 1 \in 1..Len(queue)
      BY <1>1
    <3>4. x # j
      BY <1>1, <3>2, <3>3 DEF Distinct
    <3> QED
      BY <3>2, <3>4 DEF Queued
  <2>2. ASSUME Queued(x), x # j PROVE Queued(x)'
    <3>1. PICK i \in 1..Len(queue) : queue[i] = x
      BY <2>2 DEF Queued
    <3>2. i - 1 \in 1..Len(queue') /\ queue'[i - 1] = x
      BY <1>1, <1>5, <2>2, <3>1
    <3> QED
      BY <3>2 DEF Queued
  <2> QED
    BY <2>1, <2>2
<1>8. /\ \A x : OnStack(x)' <=> OnStack(x) \/ x = j
      /\ \A x : Doing(x)' <=> Doing(x) \/ x = j
      /\ \A x : Held(x)' <=> Held(x) \/ x \in Children[j]
      /\ \A x : InHand(x)' <=> InHand(x)
  BY <1>1, TakeMoves
<1>9. ran[j] = 0 /\ Begun(Parent(j)) /\ ~InHand(j) /\ ~Held(j) /\ j # Boot /\ ~OnStack(j)
  BY <1>1, <1>2, PoolAssumption DEF InTurn
<1>10. ran' \in [Jobs -> 0..1] /\ ran'[j] = 1 /\ \A x \in Jobs : x # j => ran'[x] = ran[x]
  BY <1>1, <1>9 DEF Typed
<1>11. \A x \in Jobs : x \in Children[j] <=> Parent(x) = j
  BY <1>1, ParentIs DEF Scripts
<1>12. \A p \in Scripts : Begun(p)' <=> Begun(p) \/ p = j
  BY <1>10 DEF Begun, Scripts
<1>13. \A x \in Jobs : Parent(x) = j => /\ x # j /\ ran[x] = 0 /\ ~OnStack(x)
                                        /\ ~Queued(x) /\ ~InHand(x)
  <2> SUFFICES ASSUME NEW x \in Jobs, Parent(x) = j
               PROVE  x # j /\ ran[x] = 0 /\ ~OnStack(x) /\ ~Queued(x) /\ ~InHand(x)
    OBVIOUS
  <2>1. x # j
    BY <1>1, NotItsOwnParent
  <2>2. ~Begun(j)
    BY <1>9 DEF Begun
  <2>3. ran[x] # 1 /\ ran[x] \in 0..1 /\ ~Queued(x)
    BY <2>2 DEF InTurn, Typed
  <2>4. ~OnStack(x)
    BY <2>3 DEF InTurn
  <2>5. ~InHand(x)
    <3>1. ASSUME InHand(x) PROVE FALSE
      <4>1. PICK u \in Threads : \E i \in 1..Len(stack[u]) :
                   stack[u][i].at = "push" /\ stack[u][i].next = x
        BY <3>1 DEF InHand
      <4>2. PICK i \in 1..Len(stack[u]) : stack[u][i].at = "push" /\ stack[u][i].next = x
        BY <4>1
      <4>3. stack[u][i].job = j
        BY <4>2, HolderIs
      <4> QED
        BY <1>9, <4>3 DEF OnStack
    <3> QED
      BY <3>1
  <2> QED
    BY <2>1, <2>3, <2>4, <2>5
<1>14. InTurn'
  <2> SUFFICES ASSUME NEW x \in Jobs
               PROVE  /\ OnStack(x)' => ran'[x] = 1
                      /\ Queued(x)' => ran'[x] = 0 /\ Begun(Parent(x))'
                      /\ InHand(x)' => ran'[x] = 0 /\ ~Queued(x)'
                      /\ Held(x)' => ran'[x] = 0 /\ ~Queued(x)' /\ ~InHand(x)'
                      /\ ran'[x] = 1 => Begun(Parent(x))'
                      /\ Begun(Parent(x))' =>
                           ran'[x] = 1 \/ Queued(x)' \/ InHand(x)' \/ Held(x)'
    BY DEF InTurn
  <2>1. Begun(Parent(x))' <=> Begun(Parent(x)) \/ Parent(x) = j
    BY <1>12, ParentIs
  <2>2. Held(x)' <=> Held(x) \/ Parent(x) = j
    BY <1>8, <1>11
  <2>3. CASE x = j
    BY <1>7, <1>8, <1>9, <1>10, <1>13, <2>1, <2>2, <2>3
  <2>4. CASE x # j
    <3>1. ran'[x] = ran[x]
      BY <1>10, <2>4
    <3>2. /\ OnStack(x) => ran[x] = 1
          /\ Queued(x) => ran[x] = 0 /\ Begun(Parent(x))
          /\ InHand(x) => ran[x] = 0 /\ ~Queued(x)
          /\ Held(x) => ran[x] = 0 /\ ~Queued(x) /\ ~InHand(x)
          /\ ran[x] = 1 => Begun(Parent(x))
          /\ Begun(Parent(x)) => ran[x] = 1 \/ Queued(x) \/ InHand(x) \/ Held(x)
      BY DEF InTurn
    <3> QED
      BY <1>7, <1>8, <1>13, <2>1, <2>2, <2>4, <3>1, <3>2
  <2> QED
    BY <2>3, <2>4
<1>15. Groups'
  <2>1. \A x : Live(x)' <=> Live(x)
    BY <1>2, <1>7, <1>8 DEF Live
  <2>2. \A p : LiveOf(p)' = LiveOf(p)
    BY <2>1 DEF LiveOf
  <2>3. Gone' = Gone
    BY <1>8, <1>9, <1>10 DEF Gone
  <2> QED
    BY <2>2, <2>3 DEF Groups
<1>16. Typed'
  BY <1>1, <1>10 DEF Typed, TopAdded
<1>17. DoneStays
  BY <1>8, <1>9, <1>10 DEF DoneStays
<1> QED
  BY <1>3, <1>6, <1>14, <1>15, <1>16, <1>17


-----------------------------------------------------------------------------
(* A wait ends when the group's count says so. *)

LEMMA NobodyLive ==
    ASSUME Work, NEW p \in Scripts, p \in Waiters, outstanding[p] = 0
    PROVE  \A j \in Children[p] : ~Live(j)
<1>1. Cardinality(LiveOf(p)) = 0
  BY DEF Work, Groups
<1>2. LiveOf(p) = {}
  BY <1>1, Counts, FS_EmptySet
<1> QED
  BY <1>2 DEF LiveOf

LEMMA SettledMeansDone ==
    ASSUME Work, NEW t \in Threads, Running(t), Top(t).at \in {"wait", "help"},
           outstanding[Top(t).job] = 0
    PROVE  \A j \in Children[Top(t).job] : ran[j] = 1 /\ ~Doing(j)
<1> USE DEF Work
<1> DEFINE n == Len(stack[t])
           p == Top(t).job
<1>1. n \in 1..Len(stack[t]) /\ Top(t) = stack[t][n] /\ Top(t) \in Frame
  BY TopFacts
<1>2. p \in Scripts /\ p \in Waiters /\ Top(t).left = {} /\ OnStack(p)
  BY <1>1 DEF Framed, Frame, OnStack
<1>3. SUFFICES ASSUME NEW j \in Children[p] PROVE ran[j] = 1 /\ ~Doing(j)
  OBVIOUS
<1>4. ~Live(j)
  BY <1>2, NobodyLive
<1>5. j \in Jobs /\ Parent(j) = p
  BY <1>2, ChildrenAreJobs, ParentIs
<1>6. Begun(p)
  BY <1>2 DEF Begun, InTurn, Scripts
<1>7. ~Held(j)
  <2> SUFFICES ASSUME Held(j) PROVE FALSE
    OBVIOUS
  <2>1. PICK u \in Threads : \E i \in 1..Len(stack[u]) : j \in stack[u][i].left
    BY DEF Held
  <2>2. PICK i \in 1..Len(stack[u]) : j \in stack[u][i].left
    BY <2>1
  <2>3. u = t /\ i = n
    BY <1>1, <1>5, <2>2, OneHolder
  <2> QED
    BY <1>1, <1>2, <2>2, <2>3
<1>8. ran[j] = 1
  BY <1>4, <1>5, <1>6, <1>7 DEF InTurn, Live
<1> QED
  BY <1>4, <1>8 DEF Live

\* With no workers, nothing queued and the starting thread waiting, nothing is live.
LEMMA AloneIsSettled ==
    ASSUME Work, Crewed, crew = {}, AtStep(Main, "help"), queue = <<>>
    PROVE  outstanding[Top(Main).job] = 0
<1> USE DEF Work
<1> DEFINE n == Len(stack[Main])
           p == Top(Main).job
<1>1. Main \in Threads /\ Running(Main) /\ Top(Main).at = "help"
  BY DEF AtStep, Threads
<1>2. n \in 1..Len(stack[Main]) /\ Top(Main) = stack[Main][n] /\ Top(Main) \in Frame
  BY <1>1, TopFacts
<1>3. p \in Scripts /\ p \in Waiters
  BY <1>1, <1>2 DEF Framed, Frame
<1>4. Len(queue) = 0
  OBVIOUS
<1>6. ASSUME NEW u \in Threads, u # Main PROVE Len(stack[u]) = 0
  BY <1>6 DEF Crewed, Threads
<1>7. ASSUME NEW j \in Children[p] PROVE ~Live(j)
  <2>1. j \in Jobs /\ Parent(j) = p
    BY <1>3, ChildrenAreJobs, ParentIs
  <2>2. ~Queued(j)
    BY <1>4 DEF Queued
  <2>3. ASSUME InHand(j) PROVE FALSE
    <3>1. PICK u \in Threads : \E i \in 1..Len(stack[u]) :
                 stack[u][i].at = "push" /\ stack[u][i].next = j
      BY <2>3 DEF InHand
    <3>2. PICK i \in 1..Len(stack[u]) : stack[u][i].at = "push" /\ stack[u][i].next = j
      BY <3>1
    <3>3. u = Main /\ i = n
      BY <1>1, <1>2, <2>1, <3>2, OneHolder
    <3> QED
      BY <1>1, <1>2, <3>2, <3>3
  <2>4. ASSUME Doing(j) PROVE FALSE
    <3>1. PICK u \in Threads : \E i \in 1..Len(stack[u]) :
                 stack[u][i].job = j /\ stack[u][i].at # "count"
      BY <2>4 DEF Doing
    <3>2. PICK i \in 1..Len(stack[u]) : stack[u][i].job = j /\ stack[u][i].at # "count"
      BY <3>1
    <3>3. u = Main
      BY <1>6, <3>2
    <3>4. j # p
      BY <2>1, NotItsOwnParent
    <3>5. i # n
      BY <1>2, <3>2, <3>3, <3>4
    <3>6. i \in 1..Len(stack[Main]) /\ i < n
      BY <1>2, <3>2, <3>3, <3>5
    <3>7. stack[Main][i].job \notin Children[stack[Main][n].job]
      BY <1>1, <1>2, <3>6 DEF Placed
    <3> QED
      BY <1>2, <3>2, <3>3, <3>7
  <2> QED
    BY <2>2, <2>3, <2>4 DEF Live
<1>8. LiveOf(p) = {}
  BY <1>7 DEF LiveOf
<1>9. Cardinality(LiveOf(p)) = 0
  BY <1>8, FS_EmptySet
<1> QED
  BY <1>3, <1>9 DEF Groups

LEMMA PointWaits ==
    ASSUME Waited, DoneStays, Work', Work,
           \A u \in Threads : \A i \in 1..Len(stack'[u]) :
             stack'[u][i].job \in Waiters /\ stack'[u][i].at \in {"end", "count"} =>
               \/ \E k \in 1..Len(stack[u]) : /\ stack[u][k].job = stack'[u][i].job
                                              /\ stack[u][k].at \in {"end", "count"}
               \/ \A j \in Children[stack'[u][i].job] : ran[j] = 1 /\ ~Doing(j)
    PROVE  Waited'
<1> SUFFICES ASSUME NEW u \in Threads, NEW i \in 1..Len(stack'[u]),
                    stack'[u][i].job \in Waiters, stack'[u][i].at \in {"end", "count"},
                    NEW j \in Children[stack'[u][i].job]
             PROVE  ran'[j] = 1 /\ ~Doing(j)'
  BY DEF Waited
<1>1. \A x \in Children[stack'[u][i].job] : ran[x] = 1 /\ ~Doing(x)
  <2>1. CASE \E k \in 1..Len(stack[u]) : /\ stack[u][k].job = stack'[u][i].job
                                         /\ stack[u][k].at \in {"end", "count"}
    BY <2>1 DEF Waited
  <2> QED
    BY <2>1
<1>2. j \in Jobs
  BY ChildrenAreJobs, PoolAssumption
<1> QED
  BY <1>1, <1>2 DEF DoneStays

LEMMA TopSetWaits ==
    ASSUME Work, Waited, Work', DoneStays, NEW t \in Threads, Running(t), NEW f, TopSet(t, f),
           f.job = Top(t).job,
           f.job \in Waiters /\ f.at \in {"end", "count"} =>
             \/ Top(t).at \in {"end", "count"}
             \/ \A j \in Children[f.job] : ran[j] = 1 /\ ~Doing(j)
    PROVE  Waited'
<1>1. Len(stack[t]) \in 1..Len(stack[t]) /\ Top(t) = stack[t][Len(stack[t])]
  BY TopFacts DEF Work
<1>2. \A u \in Threads : \A i \in 1..Len(stack'[u]) :
         \/ i \in 1..Len(stack[u]) /\ stack'[u][i] = stack[u][i]
         \/ u = t /\ i = Len(stack[t]) /\ stack'[u][i] = f
  BY DEF TopSet
<1>3. ASSUME NEW u \in Threads, NEW i \in 1..Len(stack'[u]),
             stack'[u][i].job \in Waiters, stack'[u][i].at \in {"end", "count"}
      PROVE  \/ \E k \in 1..Len(stack[u]) : /\ stack[u][k].job = stack'[u][i].job
                                            /\ stack[u][k].at \in {"end", "count"}
             \/ \A j \in Children[stack'[u][i].job] : ran[j] = 1 /\ ~Doing(j)
  <2>1. CASE i \in 1..Len(stack[u]) /\ stack'[u][i] = stack[u][i]
    BY <1>3, <2>1
  <2>2. CASE u = t /\ i = Len(stack[t]) /\ stack'[u][i] = f
    BY <1>1, <1>3, <2>2
  <2> QED
    BY <1>2, <2>1, <2>2
<1> QED
  BY <1>3, PointWaits


LEMMA TopSetTop ==
    ASSUME Typed, NEW t \in Threads, Running(t), NEW f, TopSet(t, f)
    PROVE  Running(t)' /\ Top(t)' = f
<1>1. Len(stack[t]) \in Nat /\ Len(stack[t]) > 0
  BY TopFacts
<1>2. stack'[t] \in Seq(Frame) /\ Len(stack'[t]) = Len(stack[t]) /\ stack'[t][Len(stack[t])] = f
  BY DEF TopSet
<1>3. stack'[t] # <<>>
  BY <1>1, <1>2
<1> QED
  BY <1>2, <1>3, TopIs DEF Running, Top

LEMMA AddedTop ==
    ASSUME Typed, NEW t \in Threads, NEW f, TopAdded(t, f)
    PROVE  Running(t)' /\ Top(t)' = f
<1>1. Len(stack[t]) \in Nat
  BY LenIsNat
<1>2. stack'[t] \in Seq(Frame) /\ Len(stack'[t]) = Len(stack[t]) + 1 /\ stack'[t][Len(stack[t]) + 1] = f
  BY DEF TopAdded
<1>3. stack'[t] # <<>>
  BY <1>1, <1>2
<1> QED
  BY <1>2, <1>3, TopIs DEF Running, Top

LEMMA ShorterTop ==
    ASSUME Typed, NEW t \in Threads, Running(t), Shorter(t), Running(t)'
    PROVE  Top(t)'.at # "help"
<1>1. stack'[t] \in Seq(Frame) /\ stack'[t] # <<>>
  BY DEF Shorter, Running
<1>2. Len(stack'[t]) \in 1..Len(stack'[t]) /\ Top(t)' = stack'[t][Len(stack'[t])]
  BY <1>1, TopIs DEF Top
<1>3. stack'[t][Len(stack'[t])].at = IF stack[t][Len(stack'[t])].at = "help"
                                     THEN "wait" ELSE stack[t][Len(stack'[t])].at
  BY <1>2 DEF Shorter
<1> QED
  BY <1>2, <1>3

\* What a step of thread t in a job keeps of the waits.
WaitsKept(t) == Waited' /\ (AtStep(t, "help")' => outstanding'[Top(t)'.job] # 0)

LEMMA TopSetWaitsKept ==
    ASSUME Work, Waited, Work', DoneStays, NEW t \in Threads, Running(t), NEW f \in Frame, SetTop(t, f),
           f.job = Top(t).job,
           f.job \in Waiters /\ f.at \in {"end", "count"} =>
             \/ Top(t).at \in {"end", "count"}
             \/ \A j \in Children[f.job] : ran[j] = 1 /\ ~Doing(j),
           f.at = "help" => outstanding'[f.job] # 0
    PROVE  WaitsKept(t)
<1>1. TopSet(t, f)
  BY SetTopIs DEF Work
<1>2. Running(t)' /\ Top(t)' = f
  BY <1>1, TopSetTop DEF Work
<1>3. Waited'
  BY <1>1, TopSetWaits
<1> QED
  BY <1>2, <1>3 DEF WaitsKept, AtStep

LEMMA SubmitKeepsWaits ==
    ASSUME Work, Waited, NEW t \in Threads,
           SubmitAdd(t) \/ SubmitPush(t) \/ SubmitNotify(t) \/ SubmitDone(t)
    PROVE  WaitsKept(t)
<1>1. Work' /\ DoneStays
  BY AddWorks, PushWorks, NotifyWorks, DoneWorks
<1>2. Running(t)
  BY DEF SubmitAdd, SubmitPush, SubmitNotify, SubmitDone, AtStep
<1>3. Top(t) \in Frame
  BY <1>2, TopFacts DEF Work
<1>4. CASE SubmitAdd(t)
  <2>1. PICK j \in Top(t).left : SetTop(t, [Top(t) EXCEPT !.at = "push", !.left = @ \ {j}, !.next = j])
    BY <1>4 DEF SubmitAdd
  <2> DEFINE f == [Top(t) EXCEPT !.at = "push", !.left = @ \ {j}, !.next = j]
  <2>2. f \in Frame /\ f.job = Top(t).job /\ f.at = "push"
    <3>1. j \in Jobs
      BY <1>3 DEF Frame
    <3> QED
      BY <1>3, <3>1 DEF Frame
  <2>3. SetTop(t, f)
    BY <2>1
  <2> HIDE DEF f
  <2> QED
    BY <1>1, <1>2, <2>2, <2>3, TopSetWaitsKept
<1>5. CASE SubmitPush(t)
  <2>1. Goto(t, "notify")
    BY <1>5 DEF SubmitPush
  <2>2. PICK f \in Frame : SetTop(t, f) /\ f.job = Top(t).job /\ f.at = "notify"
    BY <1>2, <2>1, GotoIs DEF Work
  <2> QED
    BY <1>1, <1>2, <2>2, TopSetWaitsKept
<1>6. CASE SubmitNotify(t)
  <2> DEFINE f == [Top(t) EXCEPT !.at = "submit", !.next = Nobody]
  <2>1. SetTop(t, f)
    BY <1>6 DEF SubmitNotify
  <2>2. f \in Frame /\ f.job = Top(t).job /\ f.at = "submit"
    BY <1>3 DEF Frame
  <2> HIDE DEF f
  <2> QED
    BY <1>1, <1>2, <2>1, <2>2, TopSetWaitsKept
<1>7. CASE SubmitDone(t)
  <2> DEFINE at == IF Top(t).job \in Waiters THEN "wait" ELSE "end"
  <2>1. Goto(t, at)
    BY <1>7 DEF SubmitDone
  <2>2. PICK f \in Frame : SetTop(t, f) /\ f.job = Top(t).job /\ f.at = at
    BY <1>2, <2>1, GotoIs DEF Work
  <2> QED
    BY <1>1, <1>2, <2>2, TopSetWaitsKept
<1> QED
  BY <1>4, <1>5, <1>6, <1>7

LEMMA LooksKeepsWaits ==
    ASSUME Work, Waited, NEW t \in Threads, WaitLooks(t) PROVE WaitsKept(t)
<1> DEFINE p == Top(t).job
           at == IF Settled(p) THEN "end" ELSE "help"
<1>1. Running(t) /\ Top(t).at = "wait" /\ Goto(t, at) /\ outstanding' = outstanding
  BY DEF WaitLooks, AtStep
<1>2. PICK f \in Frame : SetTop(t, f) /\ f.job = p /\ f.at = at
  BY <1>1, GotoIs DEF Work
<1>3. Work' /\ DoneStays
  BY LooksWorks
<1>4. f.at \in {"end", "count"} => \A j \in Children[p] : ran[j] = 1 /\ ~Doing(j)
  BY <1>1, <1>2, SettledMeansDone DEF Settled
<1>5. f.at = "help" => outstanding'[f.job] # 0
  BY <1>1, <1>2 DEF Settled
<1> QED
  BY <1>1, <1>2, <1>3, <1>4, <1>5, TopSetWaitsKept

\* A thread that waits gives up only if there is nobody to wait for: never.
LEMMA YieldsKeepsWaits ==
    ASSUME Work, Waited, Crewed, Alone, NEW t \in Threads, WaitYields(t) PROVE WaitsKept(t)
<1> DEFINE at == IF crew = {} THEN "end" ELSE "wait"
<1>1. Running(t) /\ Top(t).at = "help" /\ Goto(t, at) /\ queue = <<>>
  BY DEF WaitYields, AtStep
<1>2. PICK f \in Frame : SetTop(t, f) /\ f.job = Top(t).job /\ f.at = at
  BY <1>1, GotoIs DEF Work
<1>3. Work' /\ DoneStays
  BY YieldsWorks
<1>4. crew # {}
  <2> SUFFICES ASSUME crew = {} PROVE FALSE
    OBVIOUS
  <2>1. t = Main
    BY <1>1 DEF Crewed, Running, Threads
  <2>2. AtStep(Main, "help")
    BY <1>1, <2>1 DEF AtStep
  <2> QED
    BY <1>1, <2>2, AloneIsSettled DEF Alone
<1> QED
  BY <1>1, <1>2, <1>3, <1>4, TopSetWaitsKept

LEMMA EndKeepsWaits ==
    ASSUME Work, Waited, NEW t \in Threads, JobDone(t) PROVE WaitsKept(t)
<1>1. Running(t) /\ Top(t).at = "end" /\ Goto(t, "count")
  BY DEF JobDone, AtStep
<1>2. PICK f \in Frame : SetTop(t, f) /\ f.job = Top(t).job /\ f.at = "count"
  BY <1>1, GotoIs DEF Work
<1>3. Work' /\ DoneStays
  BY JobEndWorks
<1> QED
  BY <1>1, <1>2, <1>3, TopSetWaitsKept

LEMMA CountedKeepsWaits ==
    ASSUME Work, Waited, NEW t \in Threads, JobCounted(t) PROVE WaitsKept(t)
<1>1. Running(t) /\ stack' = [stack EXCEPT ![t] = Return(Front(@))]
  BY DEF JobCounted, AtStep
<1>2. Shorter(t)
  BY <1>1, CountedIs DEF Work
<1>3. Work' /\ DoneStays
  BY CountedWorks
<1>4. ASSUME NEW u \in Threads, NEW i \in 1..Len(stack'[u]), stack'[u][i].at \in {"end", "count"}
      PROVE  i \in 1..Len(stack[u]) /\ stack[u][i].job = stack'[u][i].job
             /\ stack[u][i].at \in {"end", "count"}
  <2>1. i \in 1..Len(stack[u]) /\ stack[u][i].job = stack'[u][i].job
    BY <1>1, <1>2, ShorterIs DEF Work
  <2>2. stack[u][i].at \in {"end", "count"}
    BY <1>2, <1>4, <2>1 DEF Shorter
  <2> QED
    BY <2>1, <2>2
<1>5. Waited'
  BY <1>3, <1>4, PointWaits
<1>6. ~AtStep(t, "help")'
  BY <1>1, <1>2, ShorterTop DEF AtStep, Work
<1> QED
  BY <1>5, <1>6 DEF WaitsKept

LEMMA TakeKeepsWaits ==
    ASSUME Work, Waited, Work', DoneStays, NEW t \in Threads, Take(t) PROVE WaitsKept(t)
<1>1. TopAdded(t, Enter(Head(queue)))
  BY TakenIs DEF Work
<1>2. Enter(Head(queue)).at = "submit"
  BY DEF Enter
<1>3. \A u \in Threads : \A i \in 1..Len(stack'[u]) :
                \/ stack'[u][i] = Enter(Head(queue))
                \/ i \in 1..Len(stack[u]) /\ stack'[u][i] = stack[u][i]
  BY <1>1, AddedIs DEF Work
<1>4. Waited'
  BY <1>2, <1>3, PointWaits
<1>5. Top(t)'.at = "submit"
  BY <1>1, <1>2, AddedTop DEF Work
<1> QED
  BY <1>4, <1>5 DEF WaitsKept, AtStep

LEMMA BootKeepsWaits ==
    ASSUME Work, Waited, StopBegins PROVE WaitsKept(Main)
<1>1. Work' /\ DoneStays
  BY BootWorks
<1>2. stack'[Main] = <<>> /\ \A u \in Threads : u # Main => stack'[u] = stack[u]
  BY BootMoves DEF Work
<1>3. Len(stack'[Main]) = 0
  BY <1>2
<1>4. Waited'
  BY <1>1, <1>2, <1>3, PointWaits
<1> QED
  BY <1>2, <1>4 DEF WaitsKept, AtStep, Running


-----------------------------------------------------------------------------
(* The threads, and the whole invariant. *)

Modes == {"look", "block", "sleep", "gone", "drain", "flag", "wake", "join", "stopped"}

\* The part of TypeOK that the counts do not give.
Manned ==
    /\ crew \subseteq Workers /\ mutex \in Workers \cup {Nobody} /\ asleep \subseteq Workers
    /\ stopping \in BOOLEAN /\ mode \in [Threads -> Modes] /\ spurious \in 0..MaxSpurious

LEMMA TypeIs == TypeOK => Manned /\ Typed
  BY DEF TypeOK, Manned, Modes, Typed

LEMMA TypeFromWork == ASSUME Work', Manned' PROVE TypeOK'
<1>1. IsFiniteSet(Jobs) /\ Cardinality(Jobs) \in Nat
  BY PoolAssumption, FS_CardinalityType
<1>2. completed' \in 0..Cardinality(Jobs)
  <2>1. Gone' \subseteq Jobs
    BY DEF Gone
  <2>2. Cardinality(Gone') \in Nat /\ Cardinality(Gone') <= Cardinality(Jobs)
    BY <1>1, <2>1, FS_Subset, FS_CardinalityType
  <2> QED
    BY <1>1, <2>2 DEF Work, Groups
<1>3. ASSUME NEW p \in Scripts PROVE outstanding'[p] \in 0..Cardinality(Jobs)
  <2>1. LiveOf(p)' \subseteq Jobs
    BY ChildrenAreJobs DEF LiveOf
  <2>2. Cardinality(LiveOf(p)') \in Nat /\ Cardinality(LiveOf(p)') <= Cardinality(Jobs)
    BY <1>1, <2>1, FS_Subset, FS_CardinalityType
  <2> QED
    BY <1>1, <2>2 DEF Work, Groups
<1>4. outstanding' \in [Scripts -> 0..Cardinality(Jobs)]
  BY <1>3 DEF Work, Typed
<1> QED
  BY <1>2, <1>4 DEF TypeOK, Manned, Modes, Work, Typed

\* What a step of thread t in a job leaves alone.
OnlyIts(t) ==
    /\ Running(t) /\ UNCHANGED <<crew, mutex, stopping, spurious>>
    /\ \A u \in Threads : u # t => stack'[u] = stack[u]
    /\ \/ UNCHANGED <<asleep, mode>>
       \/ \E w \in asleep : asleep' = asleep \ {w} /\ mode' = [mode EXCEPT ![w] = "look"]

LEMMA OthersKeep ==
    ASSUME Typed, NEW t \in Threads, NEW s, stack' = [stack EXCEPT ![t] = s]
    PROVE  \A u \in Threads : u # t => stack'[u] = stack[u]
  BY DEF Typed

LEMMA InJobOnlyIts == ASSUME Typed, NEW t \in Threads, InJob(t) PROVE OnlyIts(t)
<1>1. Running(t)
  BY DEF InJob, SubmitAdd, SubmitPush, SubmitNotify, SubmitDone, WaitLooks, WaitHelps, WaitYields,
         JobDone, JobCounted, AtStep
<1>2. UNCHANGED <<crew, mutex, stopping, spurious>>
  BY DEF InJob, SubmitAdd, SubmitPush, SubmitNotify, SubmitDone, WaitLooks, WaitHelps, WaitYields,
         JobDone, JobCounted
<1>3. \/ UNCHANGED <<asleep, mode>>
      \/ \E w \in asleep : asleep' = asleep \ {w} /\ mode' = [mode EXCEPT ![w] = "look"]
  BY DEF InJob, SubmitAdd, SubmitPush, SubmitNotify, SubmitDone, WaitLooks, WaitHelps, WaitYields,
         JobDone, JobCounted
<1>4. \E s : stack' = [stack EXCEPT ![t] = s]
  <2>1. CASE \E f : SetTop(t, f)
    <3>1. PICK f : SetTop(t, f)
      BY <2>1
    <3>2. stack' = [stack EXCEPT ![t] = Append(Front(stack[t]), f)]
      BY <3>1 DEF SetTop
    <3> QED
      BY <3>2
  <2>2. CASE Take(t)
    <3>1. stack' = [stack EXCEPT ![t] = Append(stack[t], Enter(Head(queue)))]
      BY <2>2 DEF Take
    <3> QED
      BY <3>1
  <2>3. CASE JobCounted(t)
    <3>1. stack' = [stack EXCEPT ![t] = Return(Front(stack[t]))]
      BY <2>3 DEF JobCounted
    <3> QED
      BY <3>1
  <2>4. (\E f : SetTop(t, f)) \/ Take(t) \/ JobCounted(t)
    <3>1. CASE SubmitAdd(t) \/ SubmitNotify(t)
      BY <3>1 DEF SubmitAdd, SubmitNotify
    <3>2. CASE SubmitPush(t) \/ SubmitDone(t) \/ WaitLooks(t) \/ WaitYields(t) \/ JobDone(t)
      BY <3>2 DEF SubmitPush, SubmitDone, WaitLooks, WaitYields, JobDone, Goto
    <3>3. CASE WaitHelps(t)
      BY <3>3 DEF WaitHelps
    <3> QED
      BY <3>1, <3>2, <3>3 DEF InJob
  <2> QED
    BY <2>1, <2>2, <2>3, <2>4
<1>5. PICK s : stack' = [stack EXCEPT ![t] = s]
  BY <1>4
<1> QED
  BY <1>1, <1>2, <1>3, <1>5, OthersKeep DEF OnlyIts

LEMMA InJobKeeps ==
    ASSUME IInv, NEW t \in Threads, InJob(t)
    PROVE  IInv'
<1> USE DEF IInv
<1>1. Manned /\ Typed
  BY TypeIs
<1>2. Work' /\ WaitsKept(t)
  <2>1. CASE SubmitAdd(t)
    BY <2>1, AddWorks, SubmitKeepsWaits
  <2>2. CASE SubmitPush(t)
    BY <2>2, PushWorks, SubmitKeepsWaits
  <2>3. CASE SubmitNotify(t)
    BY <2>3, NotifyWorks, SubmitKeepsWaits
  <2>4. CASE SubmitDone(t)
    BY <2>4, DoneWorks, SubmitKeepsWaits
  <2>5. CASE WaitLooks(t)
    BY <2>5, LooksWorks, LooksKeepsWaits
  <2>6. CASE WaitHelps(t)
    <3>1. Take(t) /\ Top(t).at = "help" /\ UNCHANGED <<outstanding, completed>>
      BY <2>6 DEF WaitHelps, AtStep
    <3> QED
      BY <3>1, TakeWorks, TakeKeepsWaits
  <2>7. CASE WaitYields(t)
    BY <2>7, YieldsWorks, YieldsKeepsWaits
  <2>8. CASE JobDone(t)
    BY <2>8, JobEndWorks, EndKeepsWaits
  <2>9. CASE JobCounted(t)
    BY <2>9, CountedWorks, CountedKeepsWaits
  <2> QED
    BY <2>1, <2>2, <2>3, <2>4, <2>5, <2>6, <2>7, <2>8, <2>9 DEF InJob
<1>3. OnlyIts(t)
  BY <1>1, InJobOnlyIts
<1>4. \A w \in asleep : w \in Workers /\ mode[w] = "sleep" /\ w # Main
  BY PoolAssumption DEF Crewed
<1>5. /\ crew' = crew /\ asleep' \subseteq asleep /\ mode' \in [Threads -> Modes]
      /\ \A u \in Threads : mode'[u] = mode[u] \/ (u \in asleep /\ u \notin asleep' /\ mode'[u] = "look")
  <2>1. CASE UNCHANGED <<asleep, mode>>
    BY <1>1, <1>3, <2>1 DEF Manned, OnlyIts
  <2>2. CASE \E w \in asleep : asleep' = asleep \ {w} /\ mode' = [mode EXCEPT ![w] = "look"]
    BY <1>1, <1>3, <2>2 DEF Manned, OnlyIts, Modes
  <2> QED
    BY <1>3, <2>1, <2>2 DEF OnlyIts
<1>6. Manned'
  BY <1>1, <1>3, <1>5 DEF Manned, OnlyIts
<1>7. TypeOK'
  BY <1>2, <1>6, TypeFromWork
<1>8. Running(t) /\ \A u \in Threads : u # t => stack'[u] = stack[u]
  BY <1>3 DEF OnlyIts
<1>9. Workers \subseteq Threads /\ Main \in Threads /\ Main \notin Workers
  BY PoolAssumption DEF Threads
<1>10. mode'[Main] = mode[Main] /\ \A w \in Workers : mode'[w] = "gone" <=> mode[w] = "gone"
  BY <1>4, <1>5, <1>9
<1>11. Crewed'
  <2>1. crew' \subseteq Workers /\ asleep' \subseteq Workers
    BY <1>5 DEF Crewed
  <2>2. \A w \in Workers \ crew' : mode'[w] = "gone"
    BY <1>5, <1>10 DEF Crewed
  <2>3. \A w \in Workers : mode'[w] = "gone" => stack'[w] = <<>>
    BY <1>8, <1>9, <1>10 DEF Crewed, Running
  <2>4. \A w \in asleep' : mode'[w] = "sleep"
    BY <1>4, <1>5, <1>9
  <2>5. mode'[Main] # "drain" => stack'[Main] = <<>>
    BY <1>8, <1>9, <1>10 DEF Crewed, Running
  <2>6. mode'[Main] = "stopped" => \A w \in Workers : mode'[w] = "gone"
    BY <1>10 DEF Crewed
  <2> QED
    BY <2>1, <2>2, <2>3, <2>4, <2>5, <2>6 DEF Crewed
<1>12. Alone'
  <2> SUFFICES ASSUME crew' = {}, AtStep(Main, "help")' PROVE outstanding'[Top(Main)'.job] # 0
    BY DEF Alone
  <2>1. t = Main
    BY <1>5, <1>8, <1>9 DEF Crewed, Running, Threads
  <2> QED
    BY <1>2, <2>1 DEF WaitsKept
<1>13. NothingLeft'
  <2> SUFFICES ASSUME mode'[Main] # "drain", \A w \in Workers : mode'[w] = "gone" PROVE FALSE
    BY DEF NothingLeft
  <2> QED
    BY <1>8, <1>10 DEF Crewed, Running, Threads
<1> QED
  BY <1>2, <1>7, <1>11, <1>12, <1>13 DEF WaitsKept


LEMMA StillKeeps ==
    ASSUME Work, Waited, Alone, UNCHANGED <<queue, stack, ran, outstanding, completed, crew>>
    PROVE  Work' /\ Waited' /\ Alone'
<1>1. Work' /\ DoneStays
  BY StillWorks
<1>2. Waited'
  BY DEF Waited, Doing
<1>3. Alone'
  BY DEF Alone, AtStep, Running, Top
<1> QED
  BY <1>1, <1>2, <1>3

LEMMA LooksKeeps == ASSUME IInv, NEW w \in Workers, WorkerLooks(w) PROVE IInv'
<1> USE DEF IInv
<1>1. /\ Manned /\ Typed /\ ~Running(w) /\ mode[w] = "look" /\ w \in Threads /\ w # Main
      /\ Main \in Threads /\ Workers \subseteq Threads
      /\ UNCHANGED <<crew, asleep, stopping, outstanding, completed, spurious>>
  BY TypeIs, PoolAssumption DEF WorkerLooks, Threads
<1>2. w \in crew /\ w \notin asleep
  BY <1>1 DEF Crewed
<1>3. CASE Take(w) /\ UNCHANGED <<mutex, mode>>
  <2>1. Work' /\ DoneStays
    BY <1>1, <1>3, TakeWorks
  <2>2. WaitsKept(w)
    BY <1>1, <1>3, <2>1, TakeKeepsWaits
  <2>3. TypeOK'
    <3>1. Manned'
      BY <1>1, <1>3 DEF Manned
    <3> QED
      BY <2>1, <3>1, TypeFromWork
  <2>4. \A u \in Threads : u # w => stack'[u] = stack[u]
    BY <1>1, <1>3, TakenIs DEF TopAdded
  <2>5. Crewed'
    BY <1>1, <1>3, <2>4 DEF Crewed
  <2>6. Alone'
    BY <1>1, <1>2 DEF Alone
  <2>7. NothingLeft'
    BY <1>1, <1>3 DEF NothingLeft
  <2> QED
    BY <2>1, <2>2, <2>3, <2>5, <2>6, <2>7 DEF WaitsKept
<1>4. CASE MayLeave /\ mode' = [mode EXCEPT ![w] = "gone"] /\ UNCHANGED <<queue, stack, ran, mutex>>
  <2>1. Work' /\ Waited' /\ Alone'
    BY <1>1, <1>4, StillKeeps
  <2>2. /\ mode' \in [Threads -> Modes] /\ mode'[w] = "gone"
        /\ \A u \in Threads : u # w => mode'[u] = mode[u]
    BY <1>1, <1>4 DEF Manned, Modes
  <2>3. TypeOK'
    <3>1. Manned'
      BY <1>1, <1>4, <2>2 DEF Manned
    <3> QED
      BY <2>1, <3>1, TypeFromWork
  <2>4. Crewed'
    BY <1>1, <1>2, <1>4, <2>2 DEF Crewed, Running
  <2>5. NothingLeft'
    BY <1>4 DEF NothingLeft, MayLeave
  <2> QED
    BY <2>1, <2>3, <2>4, <2>5
<1>5. CASE /\ queue = <<>> /\ mode' = [mode EXCEPT ![w] = "block"] /\ mutex' = w
           /\ UNCHANGED <<queue, stack, ran>>
  <2>1. Work' /\ Waited' /\ Alone'
    BY <1>1, <1>5, StillKeeps
  <2>2. /\ mode' \in [Threads -> Modes] /\ mode'[w] = "block"
        /\ \A u \in Threads : u # w => mode'[u] = mode[u]
    BY <1>1, <1>5 DEF Manned, Modes
  <2>3. TypeOK'
    <3>1. Manned'
      BY <1>1, <1>5, <2>2 DEF Manned
    <3> QED
      BY <2>1, <3>1, TypeFromWork
  <2>4. Crewed'
    BY <1>1, <1>2, <1>5, <2>2 DEF Crewed
  <2>5. NothingLeft'
    BY <1>5 DEF NothingLeft
  <2> QED
    BY <2>1, <2>3, <2>4, <2>5
<1> QED
  BY <1>3, <1>4, <1>5 DEF WorkerLooks

LEMMA SleepKeeps ==
    ASSUME IInv, NEW w \in Workers, WorkerBlocks(w) \/ SpuriousWakeUp(w) PROVE IInv'
<1> USE DEF IInv
<1>1. /\ Manned /\ Typed /\ w \in Threads /\ w # Main /\ Main \in Threads /\ Workers \subseteq Threads
      /\ mode[w] # "gone"
  <2>1. mode[w] # "gone"
    BY DEF WorkerBlocks, SpuriousWakeUp, Crewed
  <2> QED
    BY <2>1, TypeIs, PoolAssumption DEF Threads
<1>2. UNCHANGED <<crew, queue, stopping, outstanding, completed, stack, ran>>
  BY DEF WorkerBlocks, SpuriousWakeUp
<1>3. \/ mode' = [mode EXCEPT ![w] = "sleep"] /\ asleep' = asleep \cup {w} /\ mutex' = Nobody
         /\ spurious' = spurious
      \/ mode' = [mode EXCEPT ![w] = "look"] /\ asleep' = asleep \ {w} /\ mutex' = mutex
         /\ spurious' = spurious + 1 /\ spurious < MaxSpurious
  BY DEF WorkerBlocks, SpuriousWakeUp
<1>4. Work' /\ Waited' /\ Alone'
  BY <1>2, StillKeeps
<1>5. /\ mode' \in [Threads -> Modes] /\ \A u \in Threads : u # w => mode'[u] = mode[u]
      /\ \/ mode'[w] = "sleep" /\ asleep' = asleep \cup {w}
         \/ mode'[w] = "look" /\ asleep' = asleep \ {w}
  BY <1>1, <1>3 DEF Manned, Modes
<1>6. TypeOK'
  <2>1. spurious' \in 0..MaxSpurious
    BY <1>1, <1>3, PoolAssumption DEF Manned
  <2>2. mutex' \in Workers \cup {Nobody} /\ asleep' \subseteq Workers
    BY <1>1, <1>3 DEF Manned
  <2>3. Manned'
    BY <1>1, <1>2, <1>5, <2>1, <2>2 DEF Manned
  <2> QED
    BY <1>4, <2>3, TypeFromWork
<1>7. w \in crew
  BY <1>1 DEF Crewed
<1>8. Crewed'
  <2>1. crew' \subseteq Workers /\ asleep' \subseteq Workers
    BY <1>2, <1>5 DEF Crewed
  <2>2. \A u \in Workers \ crew' : mode'[u] = "gone"
    BY <1>1, <1>2, <1>5, <1>7 DEF Crewed
  <2>3. \A u \in Workers : mode'[u] = "gone" => stack'[u] = <<>>
    BY <1>1, <1>2, <1>5 DEF Crewed
  <2>4. \A u \in asleep' : mode'[u] = "sleep"
    BY <1>1, <1>5 DEF Crewed
  <2>5. mode'[Main] # "drain" => stack'[Main] = <<>>
    BY <1>1, <1>2, <1>5 DEF Crewed
  <2>6. mode'[Main] = "stopped" => \A u \in Workers : mode'[u] = "gone"
    BY <1>1, <1>5 DEF Crewed
  <2> QED
    BY <2>1, <2>2, <2>3, <2>4, <2>5, <2>6 DEF Crewed
<1>9. NothingLeft'
  BY <1>1, <1>5 DEF NothingLeft
<1> QED
  BY <1>4, <1>6, <1>8, <1>9

LEMMA BootKeeps == ASSUME IInv, StopBegins PROVE IInv'
<1> USE DEF IInv
<1>1. /\ Manned /\ Typed /\ Main \in Threads /\ Workers \subseteq Threads /\ Main \notin Workers
      /\ Running(Main)
      /\ UNCHANGED <<crew, queue, mutex, asleep, stopping, outstanding, completed, mode, ran, spurious>>
  BY TypeIs, PoolAssumption DEF StopBegins, Threads, AtStep
<1>2. Work' /\ WaitsKept(Main)
  BY BootWorks, BootKeepsWaits
<1>3. stack'[Main] = <<>> /\ \A u \in Threads : u # Main => stack'[u] = stack[u]
  BY BootMoves DEF Work
<1>4. TypeOK'
  <2>1. Manned'
    BY <1>1 DEF Manned
  <2> QED
    BY <1>2, <2>1, TypeFromWork
<1>5. Crewed'
  BY <1>1, <1>3 DEF Crewed
<1>6. Alone'
  BY <1>2 DEF Alone, WaitsKept
<1>7. NothingLeft'
  BY <1>1 DEF NothingLeft
<1> QED
  BY <1>2, <1>4, <1>5, <1>6, <1>7 DEF WaitsKept

LEMMA DrainKeeps == ASSUME IInv, Drain PROVE IInv'
<1> USE DEF IInv
<1>1. /\ Manned /\ Typed /\ Main \in Threads /\ Workers \subseteq Threads /\ Main \notin Workers
      /\ ~Running(Main) /\ mode[Main] = "drain"
      /\ UNCHANGED <<crew, mutex, asleep, stopping, outstanding, completed, spurious>>
  BY TypeIs, PoolAssumption DEF Drain, Threads
<1>2. CASE Take(Main) /\ UNCHANGED mode
  <2>1. Work' /\ DoneStays
    BY <1>1, <1>2, TakeWorks
  <2>2. WaitsKept(Main)
    BY <1>1, <1>2, <2>1, TakeKeepsWaits
  <2>3. TypeOK'
    <3>1. Manned'
      BY <1>1, <1>2 DEF Manned
    <3> QED
      BY <2>1, <3>1, TypeFromWork
  <2>4. \A u \in Threads : u # Main => stack'[u] = stack[u]
    BY <1>1, <1>2, TakenIs DEF TopAdded
  <2>5. Crewed'
    BY <1>1, <1>2, <2>4 DEF Crewed
  <2>6. Alone'
    BY <2>2 DEF Alone, WaitsKept
  <2>7. NothingLeft'
    BY <1>1, <1>2 DEF NothingLeft
  <2> QED
    BY <2>1, <2>2, <2>3, <2>5, <2>6, <2>7 DEF WaitsKept
<1>3. CASE queue = <<>> /\ mode' = [mode EXCEPT ![Main] = "flag"] /\ UNCHANGED <<queue, stack, ran>>
  <2>1. Work' /\ Waited' /\ Alone'
    BY <1>1, <1>3, StillKeeps
  <2>2. /\ mode' \in [Threads -> Modes] /\ mode'[Main] = "flag"
        /\ \A u \in Threads : u # Main => mode'[u] = mode[u]
    BY <1>1, <1>3 DEF Manned, Modes
  <2>3. TypeOK'
    <3>1. Manned'
      BY <1>1, <1>3, <2>2 DEF Manned
    <3> QED
      BY <2>1, <3>1, TypeFromWork
  <2>4. Crewed'
    BY <1>1, <1>3, <2>2 DEF Crewed, Running
  <2>5. NothingLeft'
    BY <1>3 DEF NothingLeft
  <2> QED
    BY <2>1, <2>3, <2>4, <2>5
<1> QED
  BY <1>2, <1>3 DEF Drain

LEMMA StopKeeps == ASSUME IInv, SetFlag \/ WakeAll \/ Join PROVE IInv'
<1> USE DEF IInv
<1>1. /\ Manned /\ Typed /\ Main \in Threads /\ Workers \subseteq Threads /\ Main \notin Workers
      /\ mode[Main] \in {"flag", "wake", "join"}
      /\ UNCHANGED <<crew, queue, mutex, outstanding, completed, stack, ran, spurious>>
  BY TypeIs, PoolAssumption DEF SetFlag, WakeAll, Join, Threads
<1>2. Work' /\ Waited' /\ Alone'
  BY <1>1, StillKeeps
<1>3. /\ mode' \in [Threads -> Modes] /\ mode'[Main] \in {"wake", "join", "stopped"}
      /\ asleep' \subseteq asleep /\ stopping' \in BOOLEAN
      /\ \A w \in Workers : mode'[w] = mode[w] \/ (w \in asleep /\ w \notin asleep' /\ mode'[w] = "look")
      /\ mode'[Main] = "stopped" => \A w \in Workers : mode[w] = "gone"
  <2>1. CASE SetFlag
    BY <1>1, <2>1 DEF SetFlag, Manned, Modes
  <2>2. CASE WakeAll
    BY <1>1, <2>2 DEF WakeAll, Manned, Modes
  <2>3. CASE Join
    BY <1>1, <2>3 DEF Join, Manned, Modes
  <2> QED
    BY <2>1, <2>2, <2>3
<1>4. TypeOK'
  <2>1. Manned'
    BY <1>1, <1>3 DEF Manned
  <2> QED
    BY <1>2, <2>1, TypeFromWork
<1>5. \A w \in Workers : mode'[w] = "gone" <=> mode[w] = "gone"
  BY <1>3 DEF Crewed
<1>6. Crewed'
  BY <1>1, <1>3, <1>5 DEF Crewed
<1>7. NothingLeft'
  BY <1>1, <1>5 DEF NothingLeft
<1> QED
  BY <1>2, <1>4, <1>6, <1>7

LEMMA InitKeeps == Init => IInv
<1> SUFFICES ASSUME Init PROVE IInv
  OBVIOUS
<1>1. /\ queue = <<>> /\ Len(queue) = 0 /\ queue \in Seq(Jobs)
      /\ Boot \in Scripts /\ Main \in Threads /\ Main \notin Workers /\ Workers \subseteq Threads
      /\ Boot \notin Jobs /\ Jobs \subseteq Scripts
  BY PoolAssumption DEF Init, Scripts, Threads
<1>2. Enter(Boot) \in Frame /\ Enter(Boot).job = Boot /\ Enter(Boot).at = "submit"
      /\ Enter(Boot).left = Children[Boot]
  <2>1. Children[Boot] \subseteq Jobs
    BY <1>1, ChildrenAreJobs
  <2> QED
    BY <1>1, <2>1 DEF Enter, Frame
<1>3. /\ stack \in [Threads -> Seq(Frame)] /\ stack[Main] = <<Enter(Boot)>>
      /\ \A u \in Threads : u # Main => stack[u] = <<>>
  <2>1. <<Enter(Boot)>> \in Seq(Frame)
    BY <1>2
  <2>2. <<>> \in Seq(Frame)
    OBVIOUS
  <2> HIDE DEF Enter
  <2> QED
    BY <1>1, <2>1, <2>2 DEF Init
<1>4. /\ \A u \in Threads : \A i \in 1..Len(stack[u]) : u = Main /\ i = 1 /\ stack[u][i] = Enter(Boot)
      /\ 1 \in 1..Len(stack[Main]) /\ stack[Main][1] = Enter(Boot) /\ Len(stack[Main]) = 1
  <2>1. Len(stack[Main]) = 1 /\ stack[Main][1] = Enter(Boot)
    BY <1>3
  <2>2. \A u \in Threads : u # Main => Len(stack[u]) = 0
    BY <1>3
  <2> QED
    BY <2>1, <2>2
<1>5. /\ \A j \in Jobs : ~OnStack(j) /\ ~Doing(j)
      /\ \A j : (Held(j) <=> j \in Children[Boot]) /\ ~InHand(j) /\ ~Queued(j)
  <2>1. \A j \in Jobs : ~OnStack(j) /\ ~Doing(j)
    BY <1>1, <1>2, <1>4 DEF OnStack, Doing
  <2>2. \A j : Held(j) <=> j \in Children[Boot]
    BY <1>1, <1>2, <1>4 DEF Held
  <2>3. \A j : ~InHand(j)
    BY <1>2, <1>4 DEF InHand
  <2>4. \A j : ~Queued(j)
    BY <1>1 DEF Queued
  <2> QED
    BY <2>1, <2>2, <2>3, <2>4
<1>6. Typed
  BY <1>1, <1>3 DEF Typed, Init
<1>7. Framed
  BY <1>2, <1>4 DEF Framed
<1>8. Placed /\ Distinct
  <2>1. Placed
    BY <1>4 DEF Placed
  <2>2. Distinct
    BY <1>1 DEF Distinct
  <2> QED
    BY <2>1, <2>2
<1>9. \A j \in Jobs : ran[j] = 0
  BY DEF Init
<1>10. InTurn
  <2>1. \A j \in Jobs : Begun(Parent(j)) <=> j \in Children[Boot]
    <3> SUFFICES ASSUME NEW j \in Jobs PROVE Begun(Parent(j)) <=> j \in Children[Boot]
      OBVIOUS
    <3>1. Parent(j) \in Scripts /\ j \in Children[Parent(j)]
          /\ \A p \in Scripts : j \in Children[p] => p = Parent(j)
      BY ParentIs
    <3> QED
      BY <1>1, <1>9, <3>1 DEF Begun, Scripts
  <2> QED
    BY <1>5, <1>9, <2>1 DEF InTurn
<1>11. Groups
  <2>1. Cardinality({}) = 0
    BY FS_EmptySet
  <2>2. \A p \in Scripts : LiveOf(p) = {}
    BY <1>5, ChildrenAreJobs DEF LiveOf, Live
  <2>3. Gone = {}
    BY <1>9 DEF Gone
  <2>4. (\A p \in Scripts : outstanding[p] = 0) /\ completed = 0
    BY DEF Init
  <2> QED
    BY <2>1, <2>2, <2>3, <2>4 DEF Groups
<1>12. Waited
  BY <1>2, <1>4 DEF Waited
<1>13. /\ crew \subseteq Workers /\ asleep = {} /\ mode \in [Threads -> Modes] /\ mode[Main] = "drain"
       /\ \A w \in Workers : w \notin crew => mode[w] = "gone"
  BY <1>1 DEF Init, Modes
<1>14. Crewed
  BY <1>1, <1>3, <1>13 DEF Crewed
<1>15. Alone
  <2>1. Top(Main).at # "help"
    <3>1. Top(Main) = stack[Main][1]
      <4>1. stack[Main] \in Seq(Frame) /\ stack[Main] # <<>>
        <5>1. stack[Main] \in Seq(Frame) /\ Len(stack[Main]) # 0
          BY <1>1, <1>3, <1>4
        <5> QED
          BY <5>1
      <4>2. Last(stack[Main]) = stack[Main][Len(stack[Main])]
        BY <4>1, TopIs
      <4> QED
        BY <1>4, <4>2 DEF Top
    <3> QED
      BY <1>2, <1>4, <3>1
  <2> QED
    BY <2>1 DEF Alone, AtStep
<1>16. NothingLeft
  BY <1>13 DEF NothingLeft
<1>17. TypeOK
  <2>1. IsFiniteSet(Jobs) /\ Cardinality(Jobs) \in Nat
    BY PoolAssumption, FS_CardinalityType
  <2>2. completed \in 0..Cardinality(Jobs) /\ outstanding \in [Scripts -> 0..Cardinality(Jobs)]
    BY <2>1 DEF Init
  <2>3. mutex = Nobody /\ stopping = FALSE /\ spurious = 0 /\ 0 \in 0..MaxSpurious
    BY PoolAssumption DEF Init
  <2> QED
    BY <1>6, <1>13, <2>2, <2>3 DEF TypeOK, Typed, Modes
<1> QED
  BY <1>6, <1>7, <1>8, <1>10, <1>11, <1>12, <1>14, <1>15, <1>16, <1>17 DEF IInv, Work

LEMMA StutterKeeps == ASSUME IInv, UNCHANGED vars PROVE IInv'
<1> USE DEF IInv
<1>1. UNCHANGED <<crew, queue, mutex, asleep, stopping, outstanding, completed, stack, mode, ran, spurious>>
  BY DEF vars
<1>2. Work' /\ Waited' /\ Alone'
  BY <1>1, StillKeeps
<1>3. TypeOK' /\ Crewed' /\ NothingLeft'
  BY <1>1 DEF TypeOK, Crewed, NothingLeft
<1> QED
  BY <1>2, <1>3

LEMMA NextKeeps == IInv /\ [Next]_vars => IInv'
<1> SUFFICES ASSUME IInv, [Next]_vars PROVE IInv'
  OBVIOUS
<1>1. Workers \subseteq Threads /\ Main \in Threads
  BY DEF Threads
<1>2. ASSUME NEW w \in Workers, Worker(w) PROVE IInv'
  BY <1>1, <1>2, InJobKeeps, LooksKeeps, SleepKeeps DEF Worker
<1>3. ASSUME NEW w \in Workers, SpuriousWakeUp(w) PROVE IInv'
  BY <1>3, SleepKeeps
<1>4. CASE Starter
  BY <1>1, <1>4, InJobKeeps, BootKeeps, DrainKeeps, StopKeeps DEF Starter
<1>5. CASE UNCHANGED vars
  BY <1>5, StutterKeeps
<1> QED
  BY <1>2, <1>3, <1>4, <1>5 DEF Next


LEMMA SpecKeeps == Spec => []IInv
<1>1. Init => IInv
  BY InitKeeps
<1>2. IInv /\ [Next]_vars => IInv'
  BY NextKeeps
<1> QED
  BY <1>1, <1>2, PTL DEF Spec

-----------------------------------------------------------------------------
(* What it comes to. *)

LEMMA WaitedIsWaitMeansDone == ASSUME Work, Waited PROVE WaitMeansDone
<1>1. \A t \in Threads : DOMAIN stack[t] = 1..Len(stack[t])
  <2> SUFFICES ASSUME NEW t \in Threads PROVE DOMAIN stack[t] = 1..Len(stack[t])
    OBVIOUS
  <2>1. stack[t] \in Seq(Frame)
    BY DEF Work, Typed
  <2> QED
    BY <2>1
<1>2. ASSUME NEW j, ran[j] = 1, ~Doing(j) PROVE Finished(j)
  BY <1>1, <1>2 DEF Finished, Doing
<1> QED
  BY <1>1, <1>2 DEF WaitMeansDone, Waited

LEMMA NoTwoPlaces == ASSUME Work PROVE JobInOnePlace
<1> USE DEF Work
<1> SUFFICES ASSUME NEW j \in Jobs
             PROVE  LET queued == {i \in DOMAIN queue : queue[i] = j}
                        stacked == {x \in Threads \X (1..Cardinality(Scripts)) :
                                        x[2] <= Len(stack[x[1]]) /\ stack[x[1]][x[2]].job = j}
                    IN  Cardinality(queued) + Cardinality(stacked) <= 1
  BY DEF JobInOnePlace
<1> DEFINE queued == {i \in DOMAIN queue : queue[i] = j}
           stacked == {x \in Threads \X (1..Cardinality(Scripts)) :
                           x[2] <= Len(stack[x[1]]) /\ stack[x[1]][x[2]].job = j}
<1>1. Cardinality({}) = 0
  BY FS_EmptySet
<1>2. \A i, k \in queued : i = k
  <2>1. DOMAIN queue = 1..Len(queue)
    BY DEF Typed
  <2> QED
    BY <2>1 DEF Distinct
<1>3. Cardinality(queued) <= 1 /\ Cardinality(queued) \in Nat
  <2>1. CASE queued = {}
    BY <1>1, <2>1
  <2>2. CASE queued # {}
    <3>1. PICK i : i \in queued
      BY <2>2
    <3>2. queued = {i}
      BY <1>2, <3>1
    <3> HIDE DEF queued
    <3> QED
      BY <3>2, FS_Singleton
  <2> QED
    BY <2>1, <2>2
<1>4. \A x \in stacked : /\ x[1] \in Threads /\ x[2] \in 1..Len(stack[x[1]])
                         /\ stack[x[1]][x[2]].job = j /\ x = <<x[1], x[2]>>
  BY LenIsNat
<1>5. \A x, y \in stacked : x = y
  <2> SUFFICES ASSUME NEW x \in stacked, NEW y \in stacked PROVE x = y
    OBVIOUS
  <2>1. x[1] = y[1] /\ x[2] = y[2]
    BY <1>4 DEF Placed
  <2> QED
    BY <1>4, <2>1
<1>6. Cardinality(stacked) <= 1 /\ Cardinality(stacked) \in Nat
  <2> HIDE DEF stacked
  <2>1. CASE stacked = {}
    BY <1>1, <2>1
  <2>2. CASE stacked # {}
    <3>1. PICK x : x \in stacked
      BY <2>2
    <3>2. stacked = {x}
      BY <1>5, <3>1
    <3> QED
      BY <3>2, FS_Singleton
  <2> QED
    BY <2>1, <2>2
<1>7. queued = {} \/ stacked = {}
  <2> SUFFICES ASSUME NEW i \in queued, NEW x \in stacked PROVE FALSE
    OBVIOUS
  <2>1. Queued(j)
    <3>1. queue \in Seq(Jobs)
      BY DEF Typed
    <3>2. i \in 1..Len(queue) /\ queue[i] = j
      BY <3>1
    <3> QED
      BY <3>2 DEF Queued
  <2>2. OnStack(j)
    BY <1>4 DEF OnStack
  <2> QED
    BY <2>1, <2>2 DEF InTurn
<1> HIDE DEF queued, stacked
<1>8. Cardinality(queued) + Cardinality(stacked) <= 1
  BY <1>1, <1>3, <1>6, <1>7
<1> QED
  BY <1>8 DEF queued, stacked

LEMMA StoppedIsFinished == ASSUME IInv PROVE StopFinishesWork
<1> USE DEF IInv, Work
<1> SUFFICES ASSUME mode[Main] = "stopped"
             PROVE  queue = <<>> /\ completed = Cardinality(Jobs) /\ \A j \in Jobs : Finished(j)
  BY DEF StopFinishesWork
<1>1. \A t \in Threads : stack[t] = <<>>
  BY DEF Crewed, Threads
<1>2. queue = <<>>
  BY DEF Crewed, NothingLeft
<1>3. \A j : ~OnStack(j) /\ ~Doing(j) /\ ~Held(j) /\ ~InHand(j) /\ ~Queued(j)
  <2>1. \A t \in Threads : Len(stack[t]) = 0
    BY <1>1
  <2>2. Len(queue) = 0
    BY <1>2
  <2> QED
    BY <2>1, <2>2 DEF OnStack, Doing, Held, InHand, Queued
<1>4. \A j \in Jobs : ran[j] = 1
  <2> DEFINE S == {j \in Jobs : ran[j] # 1}
  <2> SUFFICES ASSUME S # {} PROVE FALSE
    OBVIOUS
  <2>1. PICK j \in S : Parent(j) \notin S
    BY TreeAssumption
  <2>2. Begun(Parent(j))
    BY <2>1, ParentIs DEF Begun, Scripts
  <2>3. ran[j] = 1
    BY <1>3, <2>2 DEF InTurn
  <2> QED
    BY <2>3
<1>5. completed = Cardinality(Jobs)
  <2>1. Gone = Jobs
    BY <1>3, <1>4 DEF Gone
  <2> QED
    BY <2>1 DEF Groups
<1>6. \A j \in Jobs : Finished(j)
  <2>1. \A t \in Threads : DOMAIN stack[t] = {}
    <3>1. DOMAIN <<>> = {}
      OBVIOUS
    <3> QED
      BY <1>1, <3>1, Zenon
  <2> QED
    BY <1>4, <2>1 DEF Finished
<1> QED
  BY <1>2, <1>5, <1>6

(* The state is well typed: no job is begun twice, no group's count goes     *)
(* below nothing or above the jobs there are (TaskPool.h's WaitGroup, whose  *)
(* count is an atomic int with no check), and completed never passes them.   *)
THEOREM PoolTyped == Spec => []TypeOK
<1>1. IInv => TypeOK
  BY DEF IInv
<1> QED
  BY <1>1, SpecKeeps, PTL

(* A wait that has returned, on whatever thread and however deep below other *)
(* waits, waited for all it submitted (TaskPool::Wait), whatever the scripts *)
(* and the number of workers, none included.                                 *)
THEOREM WaitsAreForAll == Spec => []WaitMeansDone
<1>1. IInv => WaitMeansDone
  BY WaitedIsWaitMeansDone DEF IInv
<1> QED
  BY <1>1, SpecKeeps, PTL

(* Every job is in one place at a time, and when Stop has returned all have  *)
(* been run, once, and counted (TaskPool::Stop).                             *)
THEOREM EveryJobRunsOnce == Spec => []JobsRunOnce
<1>1. IInv => JobsRunOnce
  BY NoTwoPlaces, StoppedIsFinished DEF IInv, JobsRunOnce
<1> QED
  BY <1>1, SpecKeeps, PTL

-----------------------------------------------------------------------------
(* The pool is never stuck: what StopReturns asks of every state, without    *)
(* the fairness of the threads.                                              *)

NeedsMutex(t) ==
    \/ Running(t) /\ Top(t).at \in {"push", "help"}
    \/ ~Running(t) /\ mode[t] \in {"look", "drain", "flag"}

\* Thread t has nothing to do: it would look again for work that nobody queued, or
\* for the mutex, or it sleeps, has left, or joins a worker that has not.
Idle(t) ==
    \/ /\ Running(t) /\ Top(t).at \in {"wait", "help"}
       /\ ~Settled(Top(t).job) /\ queue = <<>>
    \/ NeedsMutex(t) /\ ~Free
    \/ ~Running(t) /\ mode[t] \in {"sleep", "gone"}
    \/ ~Running(t) /\ mode[t] = "join" /\ \E w \in Workers : mode[w] # "gone"

NeverStuck == mode[Main] # "stopped" => \E t \in Threads : ~Idle(t)

\* Nobody holds the mutex but to fall asleep, and nobody sleeps through the flag.
Told ==
    /\ \A w \in Workers : mode[w] \in {"look", "block", "sleep", "gone"}
    /\ mode[Main] \in {"drain", "flag", "wake", "join", "stopped"}
    /\ \A w \in Workers : mode[w] = "sleep" => w \in asleep
    /\ \A w \in Workers : mode[w] = "block" => mutex = w /\ ~stopping
    /\ \A w \in Workers : mode[w] \in {"block", "sleep"} => stack[w] = <<>>
    /\ mutex # Nobody => mutex \in Workers /\ mode[mutex] = "block"
    /\ mode[Main] \in {"wake", "join", "stopped"} => stopping
    /\ mode[Main] \in {"join", "stopped"} => asleep = {}

\* The scripts can be ranked so that a job ranks above the one that submitted it and
\* above those it was put on top of: by when they were begun.
RankedBy(rank, n) ==
    /\ rank \in [Scripts -> Nat] /\ n \in Nat /\ \A p \in Scripts : rank[p] <= n
    /\ \A t \in Threads : \A i, k \in 1..Len(stack[t]) :
         i < k => rank[stack[t][i].job] < rank[stack[t][k].job]
    /\ \A j \in Jobs : ran[j] = 1 => rank[Parent(j)] < rank[j]
Ranked == \E rank, n : RankedBy(rank, n)

\* What is on the stacks was there before, in its place.
SameJobs ==
    \A t \in Threads : \A i \in 1..Len(stack'[t]) :
      i \in 1..Len(stack[t]) /\ stack'[t][i].job = stack[t][i].job

LEMMA SameRanks == ASSUME Ranked, SameJobs, ran' = ran PROVE Ranked'
<1>1. PICK rank, n : RankedBy(rank, n)
  BY DEF Ranked
<1>2. RankedBy(rank, n)'
  BY <1>1 DEF RankedBy, SameJobs
<1> QED BY <1>2 DEF Ranked

LEMMA TopSetSame ==
    ASSUME Typed, NEW t \in Threads, Running(t), NEW f, f.job = Top(t).job, TopSet(t, f)
    PROVE  SameJobs
<1>1. Len(stack[t]) \in Nat /\ Len(stack[t]) > 0 /\ Top(t) = stack[t][Len(stack[t])]
  BY TopFacts
<1>2. \A u \in Threads : Len(stack[u]) \in Nat
  BY LenIsNat
<1>3. ASSUME NEW u \in Threads, NEW i \in 1..Len(stack'[u])
      PROVE  i \in 1..Len(stack[u]) /\ stack'[u][i].job = stack[u][i].job
  <2>1. Len(stack'[u]) = Len(stack[u])
    BY DEF TopSet
  <2>2. CASE u = t /\ i = Len(stack[t])
    BY <1>1, <2>1, <2>2 DEF TopSet
  <2>3. CASE u # t \/ i # Len(stack[t])
    BY <2>1, <2>3 DEF TopSet
  <2> QED BY <2>2, <2>3
<1> QED BY <1>3 DEF SameJobs

LEMMA TakeRanks == ASSUME Work, Ranked, NEW t \in Threads, Take(t) PROVE Ranked'
<1> DEFINE h == Head(queue)
<1>1. PICK rank, n : RankedBy(rank, n)
  BY DEF Ranked
<1>2. /\ h \in Jobs /\ queue # <<>> /\ h = queue[1] /\ Len(queue) \in Nat /\ Len(queue) > 0
      /\ TopAdded(t, Enter(h)) /\ ran' = [ran EXCEPT ![h] = @ + 1]
  BY TakenIs DEF Work
<1>3. Enter(h).job = h
  BY DEF Enter
<1> HIDE DEF h
<1>4. Queued(h) /\ ran[h] = 0 /\ ~OnStack(h)
  <2>1. 1 \in 1..Len(queue)
    BY <1>2
  <2>2. Queued(h)
    BY <1>2, <2>1 DEF Queued
  <2> QED BY <1>2, <2>2 DEF Work, InTurn
<1>5. h \in Scripts /\ h # Boot /\ Jobs \subseteq Scripts
  BY <1>2, PoolAssumption DEF Scripts
<1>11. PICK more : more = [rank EXCEPT ![h] = n + 1]
  OBVIOUS
<1>6. /\ more \in [Scripts -> Nat] /\ more[h] = n + 1 /\ n \in Nat /\ n + 1 \in Nat
      /\ \A p \in Scripts : p # h => more[p] = rank[p]
      /\ \A p \in Scripts : rank[p] \in Nat /\ rank[p] <= n /\ more[p] <= n + 1
  BY <1>1, <1>5, <1>11 DEF RankedBy
<1>7. ASSUME NEW u \in Threads, NEW i \in 1..Len(stack[u])
      PROVE  stack[u][i].job \in Scripts /\ stack[u][i].job # h
  <2>1. stack[u][i] \in Frame
    BY LenIsNat DEF Work
  <2> QED BY <1>4, <2>1 DEF OnStack, Frame
<1>8. ASSUME NEW u \in Threads, NEW i \in 1..Len(stack'[u]), NEW k \in 1..Len(stack'[u]), i < k
      PROVE  more[stack'[u][i].job] < more[stack'[u][k].job]
  <2>1. Len(stack[u]) \in Nat
    BY LenIsNat DEF Work
  <2>2. CASE u # t
    <3>1. stack'[u] = stack[u]
      BY <1>2, <2>2 DEF TopAdded
    <3>2. rank[stack[u][i].job] < rank[stack[u][k].job]
      BY <1>1, <1>8, <3>1 DEF RankedBy
    <3> QED BY <1>6, <1>7, <3>1, <3>2
  <2>3. CASE u = t
    <3>1. /\ Len(stack'[t]) = Len(stack[t]) + 1 /\ stack'[t][Len(stack[t]) + 1].job = h
          /\ \A x \in 1..Len(stack[t]) : stack'[t][x] = stack[t][x]
      BY <1>2, <1>3 DEF TopAdded
    <3>2. i \in 1..Len(stack[t]) /\ stack'[t][i] = stack[t][i]
      BY <1>8, <2>1, <2>3, <3>1
    <3>3. CASE k = Len(stack[t]) + 1
      <4>1. stack'[u][k].job = h /\ stack'[u][i].job = stack[t][i].job
        BY <2>3, <3>1, <3>2, <3>3
      <4>2. /\ more[stack[t][i].job] = rank[stack[t][i].job] /\ rank[stack[t][i].job] \in Nat
            /\ rank[stack[t][i].job] <= n
        BY <1>6, <1>7, <3>2
      <4> QED BY <1>6, <4>1, <4>2
    <3>4. CASE k # Len(stack[t]) + 1
      <4>1. k \in 1..Len(stack[t]) /\ stack'[t][k] = stack[t][k]
        BY <2>1, <2>3, <3>1, <3>4
      <4>2. rank[stack[t][i].job] < rank[stack[t][k].job]
        BY <1>1, <1>8, <3>2, <4>1 DEF RankedBy
      <4> QED BY <1>6, <1>7, <2>3, <3>2, <4>1, <4>2
    <3> QED BY <3>3, <3>4
  <2> QED BY <2>2, <2>3
<1>9. ASSUME NEW j \in Jobs, ran'[j] = 1 PROVE more[Parent(j)] < more[j]
  <2>1. Parent(j) \in Scripts /\ Parent(j) # j /\ j \in Scripts
    BY <1>5, ParentIs, NotItsOwnParent
  <2>2. CASE j = h
    BY <1>6, <2>1, <2>2
  <2>3. CASE j # h
    <3>1. ran[j] = 1
      BY <1>2, <1>9, <2>3 DEF Work, Typed
    <3>2. Begun(Parent(j))
      BY <3>1 DEF Work, InTurn
    <3>3. Parent(j) # h
      BY <1>4, <1>5, <3>2 DEF Begun
    <3>4. rank[Parent(j)] < rank[j]
      BY <1>1, <3>1 DEF RankedBy
    <3> QED BY <1>6, <2>1, <2>3, <3>3, <3>4
  <2> QED BY <2>2, <2>3
<1>10. RankedBy(more, n + 1)'
  BY <1>6, <1>8, <1>9 DEF RankedBy
<1> QED BY <1>10 DEF Ranked

LEMMA InJobRanks == ASSUME Work, Ranked, NEW t \in Threads, InJob(t) PROVE Ranked'
<1>1. CASE WaitHelps(t)
  BY <1>1, TakeRanks DEF WaitHelps
<1>2. CASE JobCounted(t)
  <2>1. Running(t) /\ ran' = ran /\ Shorter(t)
    BY <1>2, CountedIs DEF JobCounted, AtStep, Work
  <2>2. SameJobs
    BY <2>1, ShorterIs DEF SameJobs, Work
  <2> QED BY <2>1, <2>2, SameRanks
<1>3. CASE \/ SubmitAdd(t) \/ SubmitPush(t) \/ SubmitNotify(t) \/ SubmitDone(t)
           \/ WaitLooks(t) \/ WaitYields(t) \/ JobDone(t)
  <2>1. Running(t) /\ ran' = ran
    BY <1>3 DEF SubmitAdd, SubmitPush, SubmitNotify, SubmitDone, WaitLooks, WaitYields, JobDone,
                AtStep
  <2>2. Top(t) \in Frame
    BY <2>1, TopFacts DEF Work
  <2>3. \E f \in Frame : f.job = Top(t).job /\ SetTop(t, f)
    <3>1. CASE SubmitAdd(t)
      <4>1. PICK j \in Top(t).left : SetTop(t, [Top(t) EXCEPT !.at = "push", !.left = @ \ {j}, !.next = j])
        BY <3>1 DEF SubmitAdd
      <4> DEFINE f == [Top(t) EXCEPT !.at = "push", !.left = @ \ {j}, !.next = j]
      <4>2. f \in Frame /\ f.job = Top(t).job
        BY <2>2 DEF Frame
      <4> QED BY <4>1, <4>2
    <3>2. CASE SubmitNotify(t)
      <4> DEFINE f == [Top(t) EXCEPT !.at = "submit", !.next = Nobody]
      <4>1. f \in Frame /\ f.job = Top(t).job
        BY <2>2 DEF Frame
      <4>2. SetTop(t, f)
        BY <3>2 DEF SubmitNotify
      <4> QED BY <4>1, <4>2
    <3>3. CASE SubmitPush(t) \/ SubmitDone(t) \/ WaitLooks(t) \/ WaitYields(t) \/ JobDone(t)
      <4>1. PICK at \in {"notify", "wait", "end", "help", "count"} : Goto(t, at)
        BY <3>3 DEF SubmitPush, SubmitDone, WaitLooks, WaitYields, JobDone
      <4> DEFINE f == [Top(t) EXCEPT !.at = at]
      <4>2. f \in Frame /\ f.job = Top(t).job
        BY <2>2 DEF Frame
      <4> QED BY <4>1, <4>2 DEF Goto
    <3> QED BY <1>3, <3>1, <3>2, <3>3
  <2>4. PICK f \in Frame : f.job = Top(t).job /\ SetTop(t, f)
    BY <2>3
  <2>5. SameJobs
    BY <2>1, <2>4, SetTopIs, TopSetSame DEF Work
  <2> QED BY <2>1, <2>5, SameRanks
<1> QED BY <1>1, <1>2, <1>3 DEF InJob

LEMMA StepRanks == ASSUME IInv, Ranked, [Next]_vars PROVE Ranked'
<1>1. Workers \subseteq Threads /\ Main \in Threads /\ Work
  BY DEF Threads, IInv
<1>2. ASSUME UNCHANGED <<stack, ran>> PROVE Ranked'
  BY <1>2, SameRanks DEF SameJobs
<1>3. ASSUME NEW w \in Workers, Worker(w) \/ SpuriousWakeUp(w) PROVE Ranked'
  <2>1. CASE InJob(w)
    BY <1>1, <2>1, InJobRanks
  <2>2. CASE WorkerLooks(w)
    BY <1>1, <1>2, <2>2, TakeRanks DEF WorkerLooks
  <2>3. CASE WorkerBlocks(w) \/ SpuriousWakeUp(w)
    BY <1>2, <2>3 DEF WorkerBlocks, SpuriousWakeUp
  <2> QED BY <1>3, <2>1, <2>2, <2>3 DEF Worker
<1>4. CASE Starter
  <2>1. CASE InJob(Main)
    BY <1>1, <2>1, InJobRanks
  <2>2. CASE StopBegins
    <3>1. stack' = [stack EXCEPT ![Main] = <<>>] /\ stack \in [Threads -> Seq(Frame)] /\ ran' = ran
      BY <1>1, <2>2 DEF StopBegins, Work, Typed
    <3>2. SameJobs
      BY <1>1, <3>1 DEF SameJobs
    <3> QED BY <3>1, <3>2, SameRanks
  <2>3. CASE Drain
    BY <1>1, <1>2, <2>3, TakeRanks DEF Drain
  <2>4. CASE SetFlag \/ WakeAll \/ Join
    BY <1>2, <2>4 DEF SetFlag, WakeAll, Join
  <2> QED BY <1>4, <2>1, <2>2, <2>3, <2>4 DEF Starter
<1>5. CASE UNCHANGED vars
  BY <1>2, <1>5 DEF vars
<1> QED BY <1>3, <1>4, <1>5 DEF Next

LEMMA InJobTold == ASSUME IInv, Told, NEW t \in Threads, InJob(t) PROVE Told'
<1>1. /\ Manned /\ Typed /\ Workers \subseteq Threads /\ Main \in Threads /\ Main \notin Workers
      /\ Nobody \notin Workers /\ \A w \in asleep : w \in Workers /\ mode[w] = "sleep"
  BY TypeIs, PoolAssumption DEF IInv, Threads, Crewed
<1>2. OnlyIts(t)
  BY <1>1, InJobOnlyIts
<1>3. /\ mutex' = mutex /\ stopping' = stopping /\ Running(t)
      /\ \A u \in Threads : u # t => stack'[u] = stack[u]
  BY <1>2 DEF OnlyIts
<1>4. /\ asleep' \subseteq asleep
      /\ \A u \in Threads :
           \/ mode'[u] = mode[u] /\ (u \in asleep' <=> u \in asleep)
           \/ u \in asleep /\ u \notin asleep' /\ mode'[u] = "look"
  <2>1. CASE UNCHANGED <<asleep, mode>>
    BY <2>1
  <2>2. CASE \E w \in asleep : asleep' = asleep \ {w} /\ mode' = [mode EXCEPT ![w] = "look"]
    BY <1>1, <2>2 DEF Manned
  <2> QED BY <1>2, <2>1, <2>2 DEF OnlyIts
<1>5. mode'[Main] = mode[Main]
  BY <1>1, <1>4
<1>6. \A w \in Workers : mode'[w] \in {"look", "block", "sleep", "gone"}
  BY <1>1, <1>4 DEF Told
<1>7. \A w \in Workers : mode'[w] = "sleep" => w \in asleep'
  BY <1>1, <1>4 DEF Told
<1>8. \A w \in Workers : mode'[w] = "block" => mutex' = w /\ ~stopping'
  BY <1>1, <1>3, <1>4 DEF Told
<1>9. \A w \in Workers : mode'[w] \in {"block", "sleep"} => stack'[w] = <<>>
  BY <1>1, <1>3, <1>4 DEF Told, Running
<1>10. mutex' # Nobody => mutex' \in Workers /\ mode'[mutex'] = "block"
  BY <1>1, <1>3, <1>4 DEF Told
<1>11. mode'[Main] \in {"join", "stopped"} => asleep' = {}
  BY <1>4, <1>5 DEF Told
<1> QED BY <1>3, <1>5, <1>6, <1>7, <1>8, <1>9, <1>10, <1>11 DEF Told

LEMMA StepTold == ASSUME IInv, Told, [Next]_vars PROVE Told'
<1>1. /\ Manned /\ Typed /\ Workers \subseteq Threads /\ Main \in Threads /\ Main \notin Workers
      /\ Nobody \notin Workers /\ \A w \in asleep : w \in Workers /\ mode[w] = "sleep"
      /\ mode \in [Threads -> Modes]
  BY TypeIs, PoolAssumption DEF IInv, Threads, Crewed, Manned
<1>2. ASSUME NEW t \in Threads, Take(t), ~Running(t), mode[t] \in {"look", "drain"},
             UNCHANGED <<mutex, asleep, stopping, mode>>
      PROVE  Told'
  <2>1. \A u \in Threads : u # t => stack'[u] = stack[u]
    BY <1>1, <1>2, TakenIs DEF TopAdded
  <2> QED BY <1>1, <1>2, <2>1 DEF Told
<1>3. ASSUME NEW w \in Workers, Worker(w) \/ SpuriousWakeUp(w) PROVE Told'
  <2>1. CASE InJob(w)
    BY <1>1, <2>1, InJobTold
  <2>2. CASE WorkerLooks(w)
    <3>1. ~Running(w) /\ mode[w] = "look" /\ mutex = Nobody /\ asleep' = asleep /\ stopping' = stopping
      BY <2>2 DEF WorkerLooks, Free
    <3>2. CASE Take(w) /\ UNCHANGED <<mutex, mode>>
      BY <1>1, <1>2, <3>1, <3>2
    <3>3. CASE mode' = [mode EXCEPT ![w] = "gone"] /\ UNCHANGED <<stack, mutex>>
      BY <1>1, <3>1, <3>3 DEF Told
    <3>4. CASE ~stopping /\ mode' = [mode EXCEPT ![w] = "block"] /\ mutex' = w /\ UNCHANGED stack
      <4>1. mode'[w] = "block" /\ stack[w] = <<>> /\ \A u \in Threads : u # w => mode'[u] = mode[u]
        BY <1>1, <3>1, <3>4 DEF Running
      <4>2. mode[Main] \notin {"wake", "join", "stopped"} /\ mode'[Main] = mode[Main]
        BY <1>1, <3>4, <4>1 DEF Told
      <4>3. \A u \in Workers : u # w => mode'[u] # "block"
        BY <1>1, <3>1, <4>1 DEF Told
      <4> QED BY <1>1, <3>1, <3>4, <4>1, <4>2, <4>3 DEF Told
    <3> QED BY <2>2, <3>2, <3>3, <3>4 DEF WorkerLooks
  <2>3. CASE WorkerBlocks(w)
    <3>1. /\ mode[w] = "block" /\ mode' = [mode EXCEPT ![w] = "sleep"] /\ asleep' = asleep \cup {w}
          /\ mutex' = Nobody /\ UNCHANGED <<stopping, stack>>
      BY <2>3 DEF WorkerBlocks
    <3>2. mode'[w] = "sleep" /\ \A u \in Threads : u # w => mode'[u] = mode[u]
      BY <1>1, <3>1
    <3>3. stack[w] = <<>> /\ ~stopping /\ mode'[Main] = mode[Main]
      BY <1>1, <3>1, <3>2 DEF Told
    <3>4. \A u \in Workers : u # w => mode'[u] # "block"
      BY <1>1, <3>1, <3>2 DEF Told
    <3> QED BY <1>1, <3>1, <3>2, <3>3, <3>4 DEF Told
  <2>4. CASE SpuriousWakeUp(w)
    <3>1. /\ w \in asleep /\ mode' = [mode EXCEPT ![w] = "look"] /\ asleep' = asleep \ {w}
          /\ UNCHANGED <<mutex, stopping, stack>>
      BY <2>4 DEF SpuriousWakeUp
    <3>2. mode'[w] = "look" /\ \A u \in Threads : u # w => mode'[u] = mode[u]
      BY <1>1, <3>1
    <3>3. mode[w] = "sleep" /\ mode'[Main] = mode[Main] /\ mutex # w
      BY <1>1, <3>1, <3>2 DEF Told
    <3> QED BY <1>1, <3>1, <3>2, <3>3 DEF Told
  <2> QED BY <1>3, <2>1, <2>2, <2>3, <2>4 DEF Worker
<1>4. CASE Starter
  <2>1. CASE InJob(Main)
    BY <1>1, <2>1, InJobTold
  <2>2. CASE StopBegins
    <3>1. stack' = [stack EXCEPT ![Main] = <<>>] /\ UNCHANGED <<mutex, asleep, stopping, mode>>
      BY <2>2 DEF StopBegins
    <3> QED BY <1>1, <3>1 DEF Told, Typed
  <2>3. CASE Drain
    <3>1. CASE Take(Main) /\ UNCHANGED mode
      BY <1>1, <1>2, <2>3, <3>1 DEF Drain
    <3>2. CASE mode' = [mode EXCEPT ![Main] = "flag"] /\ UNCHANGED stack
      BY <1>1, <2>3, <3>2 DEF Told, Drain
    <3> QED BY <2>3, <3>1, <3>2 DEF Drain
  <2>4. CASE SetFlag
    <3>1. /\ mutex = Nobody /\ stopping' = TRUE /\ mode' = [mode EXCEPT ![Main] = "wake"]
          /\ UNCHANGED <<mutex, asleep, stack>>
      BY <2>4 DEF SetFlag, MayPublish, Free
    <3> QED BY <1>1, <3>1 DEF Told
  <2>5. CASE WakeAll
    <3>1. /\ mode[Main] = "wake" /\ asleep' = {} /\ UNCHANGED <<mutex, stopping, stack>>
          /\ mode' = [t \in Threads |-> IF t = Main THEN "join" ELSE IF t \in asleep THEN "look" ELSE mode[t]]
      BY <2>5 DEF WakeAll
    <3>2. /\ mode'[Main] = "join"
          /\ \A w \in Workers : mode'[w] = IF w \in asleep THEN "look" ELSE mode[w]
      BY <1>1, <3>1
    <3>3. \A w \in Workers : mode'[w] # "sleep"
      BY <3>2 DEF Told
    <3> QED BY <1>1, <3>1, <3>2, <3>3 DEF Told
  <2>6. CASE Join
    <3>1. /\ mode[Main] = "join" /\ mode' = [mode EXCEPT ![Main] = "stopped"]
          /\ UNCHANGED <<mutex, asleep, stopping, stack>>
      BY <2>6 DEF Join
    <3> QED BY <1>1, <3>1 DEF Told
  <2> QED BY <1>4, <2>1, <2>2, <2>3, <2>4, <2>5, <2>6 DEF Starter
<1>5. CASE UNCHANGED vars
  BY <1>5 DEF Told, vars
<1> QED BY <1>3, <1>4, <1>5 DEF Next

LEMMA InitTold == Init => Told /\ Ranked
<1> SUFFICES ASSUME Init PROVE Told /\ Ranked
  OBVIOUS
<1>1. /\ Main \notin Workers /\ Main \in Threads /\ Workers \subseteq Threads
      /\ mutex = Nobody /\ asleep = {} /\ \A j \in Jobs : ran[j] = 0
  BY PoolAssumption DEF Init, Threads
<1>2. mode[Main] = "drain" /\ \A w \in Workers : mode[w] \in {"look", "gone"}
  BY <1>1 DEF Init
<1>3. Told
  BY <1>1, <1>2 DEF Told
<1>4. PICK rank : rank = [p \in Scripts |-> 0]
  OBVIOUS
<1>5. \A t \in Threads : \A i, k \in 1..Len(stack[t]) : ~(i < k)
  <2>1. \A t \in Threads : stack[t] = IF t = Main THEN <<Enter(Boot)>> ELSE <<>>
    BY DEF Init
  <2>2. Len(<<Enter(Boot)>>) = 1 /\ Len(<<>>) = 0
    OBVIOUS
  <2>3. ASSUME NEW t \in Threads PROVE Len(stack[t]) = 0 \/ Len(stack[t]) = 1
    BY <2>1, <2>2
  <2>4. ASSUME NEW t \in Threads, NEW i \in 1..Len(stack[t]), NEW k \in 1..Len(stack[t]) PROVE ~(i < k)
    <3>1. CASE Len(stack[t]) = 0
      BY <3>1
    <3>2. CASE Len(stack[t]) = 1
      <4>1. i = 1 /\ k = 1
        BY <3>2
      <4> QED BY <4>1
    <3> QED BY <2>3, <3>1, <3>2
  <2> QED BY <2>4
<1>6. RankedBy(rank, 0)
  BY <1>1, <1>4, <1>5 DEF RankedBy
<1> QED BY <1>3, <1>6 DEF Ranked

\* Of the scripts on the stacks one ranks highest.
LEMMA Newest ==
    ASSUME Typed, NEW rank, NEW n, RankedBy(rank, n), NEW S, S \subseteq Scripts, S # {}
    PROVE  \E p \in S : \A q \in S : rank[q] <= rank[p]
<1> DEFINE R == OpToRel(<, Nat)
           Depths == {n - rank[p] : p \in S}
<1>1. n \in Nat /\ \A p \in S : rank[p] \in Nat /\ rank[p] <= n
  BY DEF RankedBy
<1>2. Depths \subseteq Nat /\ Depths # {}
  BY <1>1
<1>3. \A i, k \in Nat : i < k => <<i, k>> \in R
  BY DEF OpToRel
<1>4. IsWellFoundedOn(R, Nat)
  BY NatLessThanWellFounded
<1> HIDE DEF R
<1>5. PICK d \in Depths : \A e \in Depths : ~ (<<e, d>> \in R)
  <2> HIDE DEF Depths
  <2> QED BY <1>2, <1>4, WFMin
<1>6. PICK p \in S : d = n - rank[p]
  OBVIOUS
<1>7. ASSUME NEW q \in S PROVE rank[q] <= rank[p]
  <2>1. n - rank[q] \in Depths
    OBVIOUS
  <2>2. ~(n - rank[q] < n - rank[p])
    BY <1>2, <1>3, <1>5, <1>6, <2>1
  <2> QED BY <1>1, <2>2
<1> QED BY <1>7

\* A group that is not settled has a job in hand, queued or being done.
LEMMA UnsettledIsOwed ==
    ASSUME Work, NEW p \in Scripts, outstanding[p] # 0
    PROVE  \E j \in Children[p] : Live(j)
<1>1. Cardinality(LiveOf(p)) # 0
  BY DEF Work, Groups
<1>2. LiveOf(p) # {}
  BY <1>1, FS_EmptySet
<1> QED BY <1>2 DEF LiveOf

\* If the threads on a job all wait in vain, the newest job waits for a newer one.
LEMMA SomeoneWorks ==
    ASSUME IInv, Ranked, Free, NEW u \in Threads, Running(u)
    PROVE  \E t \in Threads : ~Idle(t)
<1> SUFFICES ASSUME \A t \in Threads : Idle(t) PROVE FALSE
  OBVIOUS
<1>1. PICK rank, n : RankedBy(rank, n)
  BY DEF Ranked
<1>2. Work /\ Typed /\ Framed /\ InTurn
  BY DEF IInv, Work
<1>3. \A t \in Threads : \A i \in 1..Len(stack[t]) :
        stack[t][i] \in Frame /\ stack[t][i].job \in Scripts /\ Len(stack[t]) \in Nat
  BY <1>2, LenIsNat DEF Frame
<1> DEFINE S == {p \in Scripts : OnStack(p)}
<1>4. S \subseteq Scripts /\ S # {}
  <2>1. Len(stack[u]) \in Nat /\ Len(stack[u]) > 0
    BY <1>2, TopFacts
  <2>2. Len(stack[u]) \in 1..Len(stack[u])
    BY <2>1
  <2>3. stack[u][Len(stack[u])].job \in S
    BY <1>3, <2>2 DEF OnStack
  <2> QED BY <2>3
<1>5. PICK p \in S : \A q \in S : rank[q] <= rank[p]
  <2> HIDE DEF S
  <2> QED BY <1>1, <1>2, <1>4, Newest
<1>6a. PICK t \in Threads : \E i \in 1..Len(stack[t]) : stack[t][i].job = p
  BY <1>5 DEF OnStack
<1>6. PICK i \in 1..Len(stack[t]) : stack[t][i].job = p
  BY <1>6a
<1>7. \A q \in Scripts : OnStack(q) => rank[q] \in Nat /\ rank[q] <= rank[p] /\ rank[p] \in Nat
  BY <1>1, <1>5 DEF RankedBy
<1>8. i = Len(stack[t])
  <2> SUFFICES ASSUME i # Len(stack[t]) PROVE FALSE
    OBVIOUS
  <2> DEFINE k == Len(stack[t])
  <2>1. i < k /\ k \in 1..Len(stack[t])
    BY <1>3
  <2>2. rank[p] < rank[stack[t][k].job]
    BY <1>1, <1>6, <2>1 DEF RankedBy
  <2>3. OnStack(stack[t][k].job) /\ stack[t][k].job \in Scripts
    BY <1>3, <2>1 DEF OnStack
  <2> QED BY <1>7, <2>2, <2>3
<1>9. Running(t) /\ Top(t) = stack[t][Len(stack[t])] /\ Top(t).job = p
  <2>1. Running(t)
    BY <1>6 DEF Running
  <2> QED BY <1>2, <1>6, <1>8, <2>1, TopFacts
<1>10. ~Settled(p) /\ queue = <<>>
  BY <1>9 DEF Idle
<1>11. PICK j \in Children[p] : Live(j)
  BY <1>2, <1>5, <1>10, UnsettledIsOwed DEF Settled
<1>12. j \in Jobs /\ Parent(j) = p /\ j \in Scripts
  <2>1. j \in Jobs
    BY <1>5, <1>11, ChildrenAreJobs
  <2> QED BY <1>5, <1>11, <2>1, ParentIs DEF Scripts
<1>13. ~InHand(j)
  <2> SUFFICES ASSUME NEW x \in Threads, NEW k \in 1..Len(stack[x]), stack[x][k].at = "push" PROVE FALSE
    BY DEF InHand
  <2>1. k = Len(stack[x])
    BY <1>2, <1>3 DEF Framed
  <2>2. Running(x)
    BY DEF Running
  <2>3. Top(x).at = "push"
    BY <1>2, <2>1, <2>2, TopFacts
  <2>4. Idle(x)
    OBVIOUS
  <2> QED BY <2>2, <2>3, <2>4 DEF Idle
<1>14. ~Queued(j)
  BY <1>10 DEF Queued
<1>15. OnStack(j)
  BY <1>11, <1>13, <1>14 DEF Live, Doing, OnStack
<1>16. rank[p] < rank[j]
  BY <1>1, <1>2, <1>12, <1>15 DEF RankedBy, InTurn
<1> QED BY <1>7, <1>12, <1>15, <1>16

LEMMA ToldAndRankedMove == ASSUME IInv, Told, Ranked PROVE NeverStuck
<1> SUFFICES ASSUME mode[Main] # "stopped", \A t \in Threads : Idle(t) PROVE FALSE
  BY DEF NeverStuck
<1>1. Workers \subseteq Threads /\ Main \in Threads /\ (mode[Main] # "drain" => stack[Main] = <<>>)
  BY DEF Threads, IInv, Crewed
<1>2. Free
  <2> SUFFICES ASSUME mutex # Nobody PROVE FALSE
    BY DEF Free
  <2>1. mutex \in Threads /\ mode[mutex] = "block" /\ ~Running(mutex)
    BY <1>1 DEF Told, Running
  <2>2. Idle(mutex)
    BY <2>1
  <2> QED BY <2>1, <2>2 DEF Idle, NeedsMutex
<1>3. \A t \in Threads : ~Running(t)
  BY <1>2, SomeoneWorks
<1>4. mode[Main] = "join" /\ \E w \in Workers : mode[w] # "gone"
  <2>1. Idle(Main)
    BY <1>1
  <2> QED BY <1>1, <1>2, <1>3, <2>1 DEF Idle, Told
<1>5. PICK w \in Workers : mode[w] # "gone"
  BY <1>4
<1>6. mode[w] = "sleep" \/ mode[w] = "join"
  <2>1. Idle(w)
    BY <1>1
  <2> QED BY <1>1, <1>2, <1>3, <1>5, <2>1 DEF Idle
<1> QED BY <1>4, <1>6 DEF Told

(* Until Stop has returned some thread always has something to do: waiting   *)
(* threads, that each run what is queued on top of what they wait for, never *)
(* hold each other's jobs, and no worker sleeps through the flag             *)
(* (TaskPool::Wait, WorkerLoop, Stop).                                       *)
THEOREM PoolNeverStuck == Spec => []NeverStuck
<1> DEFINE Inv == IInv /\ Told /\ Ranked
<1>1. Init => Inv
  BY InitKeeps, InitTold
<1>2. Inv /\ [Next]_vars => Inv'
  BY NextKeeps, StepTold, StepRanks
<1>3. Inv => NeverStuck
  BY ToldAndRankedMove
<1> QED BY <1>1, <1>2, <1>3, PTL DEF Spec
=============================================================================
