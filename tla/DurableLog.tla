----------------------------- MODULE DurableLog -----------------------------
(***************************************************************************)
(* What persistence promises a shard (ADR-025), without a file in sight:   *)
(* outcomes are accepted in order; a commit makes everything accepted so   *)
(* far safe; a crash may take outcomes that were not, from the end only;   *)
(* and a stop that is not a crash takes none.  On a disk that fails to     *)
(* give back what it took, still only the end can go.                      *)
(***************************************************************************)
EXTENDS Naturals, Sequences

CONSTANT Outcomes

VARIABLES
    accepted,  \* the outcomes the shard's state has, in order; while it is
               \* down, those it had
    safe,      \* how many of them no crash may take
    up,        \* whether the shard is running
    sound      \* whether the disk has kept all it was given

vars == <<accepted, safe, up, sound>>

Init == accepted = <<>> /\ safe = 0 /\ up = FALSE /\ sound = TRUE

Accept ==
    /\ up
    /\ \E outcome \in Outcomes : accepted' = Append(accepted, outcome)
    /\ UNCHANGED <<safe, up, sound>>

Commit ==
    /\ up
    /\ safe' = Len(accepted)
    /\ UNCHANGED <<accepted, up, sound>>

Stop ==
    /\ up
    /\ up' = FALSE
    /\ safe' = Len(accepted)
    /\ UNCHANGED <<accepted, sound>>

Crash ==
    /\ up' = FALSE
    /\ UNCHANGED <<accepted, safe, sound>>

\* What comes back is what is on the disk, so it is safe from then on.
Recover ==
    /\ ~up
    /\ up' = TRUE
    /\ \E kept \in (IF sound THEN safe ELSE 0)..Len(accepted) :
         /\ accepted' = SubSeq(accepted, 1, kept)
         /\ safe' = kept
    /\ UNCHANGED sound

DiskFails ==
    /\ sound' = FALSE
    /\ UNCHANGED <<accepted, safe, up>>

Next == Accept \/ Commit \/ Stop \/ Crash \/ Recover \/ DiskFails

Spec == Init /\ [][Next]_vars

=============================================================================
