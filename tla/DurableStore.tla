---------------------------- MODULE DurableStore ----------------------------
(***************************************************************************)
(* NeuronServer/DurableStore: a snapshot and a journal, the rotation that  *)
(* replaces both, and the boot that reads them back.                       *)
(*                                                                         *)
(* The store has two kinds of caller.  The shard (ServerHost, and Main for *)
(* the boot) has the whole of its state written now and then and when it   *)
(* stops; it appends no record, knows none, and its clock starts at zero   *)
(* in every process.  A recorder appends a stamped record for each outcome *)
(* and flushes: the program has none yet, only DurableStoreTests does it,  *)
(* with one clock that goes on from open to open, and the store's promises *)
(* about records are for such a clock.                                     *)
(*                                                                         *)
(* A death may come between any two steps below, and takes what only the C *)
(* runtime's buffer had: a prefix of the buffered frames may have reached  *)
(* the disk, with a torn one behind it.                                    *)
(*                                                                         *)
(* The bytes of a frame, and the hashes a load is guarded on, are left     *)
(* out: a frame is good, or it is the torn one at the end of the file.     *)
(***************************************************************************)
EXTENDS Integers, Sequences, FiniteSets, SequencesExt

CONSTANTS
    Outcomes,      \* what a record may say
    Callers,       \* who the store may have for a caller: see Caller
    Faults,        \* the file operations that may fail: see Fault
    MaxOutcomes,   \* bound: outcomes in the caller's state
    MaxBoots       \* bound: how often the store is opened

\* "rename": the temporary is not written whole, or not renamed.
\* "reopen": the journal, closed to be truncated, does not open again.
\* "damage": the disk loses a frame that had been written and committed.
Fault == {"rename", "reopen", "damage"}
Caller == {"shard", "recorder"}
ASSUME FaultAssumption == Faults \subseteq Fault
ASSUME CallerAssumption == Callers \subseteq Caller
ASSUME BoundAssumption == MaxOutcomes \in Nat /\ MaxBoots \in Nat

VARIABLES
    caller,        \* whose store it is
    mode,          \* where the program is, see Mode
    leaving,       \* whether the shard's loop has ended
    state,         \* the outcomes in the caller's state (a history while down)
    tick,          \* the caller's clock, which stamps records and snapshots
    snapshot,      \* the snapshot file, or NoFile
    header,        \* the journal's header: the tick it names, or None or Torn
    frames,        \* the frames of the journal that are on the disk
    buffered,      \* the frames the C runtime still holds
    open,          \* whether m_journal is a file
    snapshotTick,  \* m_snapshotTick
    safe,          \* history: how much of "state" the caller was told is safe
    missed,        \* history: whether a snapshot failed since the boot
    sound,         \* history: whether the disk has kept all it was given
    boots          \* how often the store has been opened

journalVars == <<header, frames, buffered>>
callerVars == <<caller, leaving, state, tick>>
storeVars == <<snapshot, journalVars, open, snapshotTick>>
historyVars == <<safe, missed, sound, boots>>
vars == <<mode, callerVars, storeVars, historyVars>>

(***************************************************************************)
(* down      no process                                                    *)
(* starting  Open, writing a fresh journal's header                        *)
(* opened    Open has answered, the snapshot is about to be loaded         *)
(* restoring Replay, writing the header of a journal that had none         *)
(* running   the caller has its state                                      *)
(* renaming  WriteSnapshot: the temporary is whole and on the disk         *)
(* rotating  WriteSnapshot: the snapshot is replaced, the journal is not   *)
(* heading   WriteSnapshot: the journal is truncated and has no header     *)
(* refused   the boot refused what it found                                *)
(***************************************************************************)
Mode == {"down", "starting", "opened", "restoring", "running", "renaming",
         "rotating", "heading", "refused"}
Up == mode \in {"restoring", "running", "renaming", "rotating", "heading"}

\* What a death leaves of the frame that was being written.
TornFrame == [tick |-> 0, outcome |-> "torn"]

NoFile == [tick |-> 0, state |-> <<>>, there |-> FALSE]
None == -1
Torn == -2

\* A frame says an outcome; what a death left of one says nothing.
Frame == [tick : Nat, outcome : Outcomes]
History == BoundedSeq(Outcomes, MaxOutcomes)

TypeOK ==
    /\ caller \in Caller
    /\ mode \in Mode
    /\ leaving \in BOOLEAN
    /\ state \in History
    /\ tick \in Nat
    /\ snapshot \in [tick : Nat, state : History, there : BOOLEAN]
    /\ header \in Nat \cup {None, Torn}
    /\ frames \in Seq(Frame \cup {TornFrame}) /\ buffered \in Seq(Frame)
    /\ open \in BOOLEAN
    /\ snapshotTick \in Nat
    /\ safe \in 0..Len(state)
    /\ missed \in BOOLEAN /\ sound \in BOOLEAN
    /\ boots \in 0..MaxBoots

Init ==
    /\ caller \in Callers
    /\ mode = "down" /\ leaving = FALSE
    /\ state = <<>> /\ tick = 0
    /\ snapshot = NoFile
    /\ header = None /\ frames = <<>> /\ buffered = <<>>
    /\ open = FALSE /\ snapshotTick = 0
    /\ safe = 0 /\ missed = FALSE /\ sound = TRUE /\ boots = 0

Fails(what) == what \in Faults

-----------------------------------------------------------------------------
(***************************************************************************)
(* Open: the snapshot, then the journal's header.  A journal that is there *)
(* and whose header is not whole is refused.  With neither file there, a   *)
(* fresh journal is created.                                               *)
(***************************************************************************)
Fresh == ~snapshot.there /\ header = None

FloorOfAnyJournal == IF snapshot.there THEN snapshot.tick ELSE header
Floor == IF snapshot.there THEN snapshot.tick ELSE IF header \in Nat THEN header ELSE 0

Open ==
    /\ mode = "down" /\ boots < MaxBoots
    /\ boots' = boots + 1
    /\ mode' = IF header = Torn THEN "refused" ELSE IF Fresh THEN "starting" ELSE "opened"
    /\ open' = Fresh
    /\ snapshotTick' = Floor
    /\ leaving' = FALSE /\ missed' = FALSE
    /\ UNCHANGED <<caller, state, tick, snapshot, journalVars, safe, sound>>

\* WriteJournalHeader, for the three callers it has: written, then committed.
HeaderWritten ==
    /\ mode \in {"starting", "restoring", "heading"}
    /\ header' = snapshotTick
    /\ mode' = IF mode = "starting" THEN "opened" ELSE "running"
    /\ UNCHANGED <<callerVars, snapshot, frames, buffered, open, snapshotTick, historyVars>>

(***************************************************************************)
(* What Replay makes of the journal: its good part ends at the first frame *)
(* that does not parse, and a good frame after that one is corruption.  Of *)
(* the good part it hands back what the snapshot does not contain.         *)
(***************************************************************************)
FirstBad(journal) == SelectInSeq(journal, LAMBDA frame : frame = TornFrame)
AnyGoodFrameAfter(journal, at) == \E i \in at..Len(journal) : journal[i] # TornFrame

GoodPart(journal) ==
    IF FirstBad(journal) = 0 THEN journal ELSE SubSeq(journal, 1, FirstBad(journal) - 1)

\* The file Replay leaves to append to.
NotCut(journal) == journal
Cut(journal) == GoodPart(journal)

EveryFrame(journal, floor) == journal
Newer(journal, floor) ==
    LET newer == {i \in DOMAIN journal : journal[i].tick > floor}
        rank(i) == Cardinality({k \in newer : k <= i})
    IN [n \in 1..Cardinality(newer) |-> journal[CHOOSE i \in newer : rank(i) = n]]

OutcomesOf(journal) == [i \in 1..Len(journal) |-> journal[i].outcome]

Corrupt == FirstBad(frames) # 0 /\ AnyGoodFrameAfter(frames, FirstBad(frames))

\* Main's handler knows no kind of record, so the shard refuses any it is handed.
Replayed == Newer(GoodPart(frames), snapshotTick)
Unknown == caller = "shard" /\ Replayed # <<>>

ReplayRefuses ==
    /\ mode = "opened"
    /\ Corrupt \/ Unknown
    /\ mode' = "refused"
    /\ UNCHANGED <<callerVars, storeVars, historyVars>>

\* The snapshot is loaded and the journal applied on top of it; the torn tail
\* is cut off, and the file left open to append to.  What came back is on the
\* disk.  A host that starts counts its ticks from zero.
Replay ==
    /\ mode = "opened" /\ ~Corrupt /\ ~Unknown
    /\ state' = snapshot.state \o OutcomesOf(Replayed)
    /\ safe' = Len(state')
    /\ tick' = IF caller = "shard" THEN 0 ELSE tick
    /\ mode' = IF header = None THEN "restoring" ELSE "running"
    /\ open' = TRUE
    /\ frames' = Cut(frames)
    /\ UNCHANGED <<caller, leaving, snapshot, header, buffered, snapshotTick, missed, sound, boots>>

-----------------------------------------------------------------------------
(* The caller, running. *)

\* SimThread: a tick of the shard passes, and an outcome of it is accepted.
\* Nothing is appended.
ShardTick(outcome) ==
    /\ caller = "shard"
    /\ mode = "running" /\ ~leaving /\ Len(state) < MaxOutcomes
    /\ tick' = tick + 1
    /\ state' = Append(state, outcome)
    /\ UNCHANGED <<mode, caller, leaving, storeVars, historyVars>>

\* Append, by a recorder that stamps each record later than the one before.  A
\* store whose journal is gone takes the record without a word.
AppendRecord(outcome) ==
    /\ caller = "recorder"
    /\ mode = "running" /\ Len(state) < MaxOutcomes
    /\ tick' = tick + 1
    /\ state' = Append(state, outcome)
    /\ buffered' = IF open THEN Append(buffered, [tick |-> tick', outcome |-> outcome])
                   ELSE buffered
    /\ UNCHANGED <<mode, caller, leaving, snapshot, header, frames, open, snapshotTick, historyVars>>

\* How many of the buffered frames CommitToDisk pushes to the disk.
PushedNone == 0
Pushed == Len(buffered)

\* Flush has no answer to give.  While there is a journal, what was appended is
\* on the disk after it; without one it does nothing.
Flush ==
    /\ caller = "recorder"
    /\ mode = "running"
    /\ frames' = frames \o SubSeq(buffered, 1, Pushed)
    /\ buffered' = SubSeq(buffered, Pushed + 1, Len(buffered))
    /\ safe' = IF open THEN Len(state) ELSE safe
    /\ UNCHANGED <<mode, callerVars, snapshot, header, open, snapshotTick, missed, sound, boots>>

(***************************************************************************)
(* WriteSnapshot, in the steps a crash may come between.  Each of the      *)
(* first two may fail and leaves everything as it was.  The host does not  *)
(* ask for a snapshot when the store has lost its journal.                 *)
(***************************************************************************)
WriteTemporary ==
    /\ mode = "running" /\ open /\ ~leaving
    /\ mode' = "renaming"
    /\ UNCHANGED <<callerVars, storeVars, historyVars>>

RenameOver ==
    /\ mode = "renaming"
    /\ snapshot' = [tick |-> tick, state |-> state, there |-> TRUE]
    /\ safe' = Len(state)
    /\ mode' = "rotating"
    /\ UNCHANGED <<callerVars, journalVars, open, snapshotTick, missed, sound, boots>>

RenameFails ==
    /\ Fails("rename")
    /\ mode = "renaming"
    /\ mode' = "running"
    /\ missed' = TRUE
    /\ UNCHANGED <<callerVars, storeVars, safe, sound, boots>>

\* m_journal is closed and opened again for writing, which empties it.
TruncateJournal ==
    /\ mode = "rotating"
    /\ header' = None /\ frames' = <<>> /\ buffered' = <<>>
    /\ snapshotTick' = tick
    /\ mode' = "heading"
    /\ UNCHANGED <<callerVars, snapshot, open, historyVars>>

\* It was closed, which wrote what was buffered, and would not open again: the
\* frames stay, behind a snapshot that has their outcomes; the file is gone.
ReopenFails ==
    /\ Fails("reopen")
    /\ mode = "rotating"
    /\ frames' = frames \o buffered /\ buffered' = <<>>
    /\ open' = FALSE
    /\ mode' = "running"
    /\ missed' = TRUE
    /\ UNCHANGED <<callerVars, snapshot, header, snapshotTick, safe, sound, boots>>

\* SimThread's loop has ended: one more WriteDurableSnapshot, as above and on.
LastSnapshot ==
    /\ caller = "shard"
    /\ mode = "running" /\ ~leaving
    /\ leaving' = TRUE
    /\ mode' = IF open THEN "renaming" ELSE mode
    /\ UNCHANGED <<caller, state, tick, storeVars, historyVars>>

\* The store closes: of the shard when its last snapshot has been tried (and the
\* journal, in which there is nothing, flushed), of a recorder at any time.
Stop ==
    /\ mode = "running"
    /\ caller = "shard" => leaving
    /\ mode' = "down"
    /\ frames' = frames \o buffered /\ buffered' = <<>>
    /\ safe' = IF caller = "recorder" /\ open THEN Len(state) ELSE safe
    /\ open' = FALSE
    /\ UNCHANGED <<callerVars, snapshot, header, snapshotTick, missed, sound, boots>>

(***************************************************************************)
(* Power loss.  Some of what was buffered had reached the disk, the last   *)
(* of it perhaps in part; a header that was being written is there, in     *)
(* part, or not at all.                                                    *)
(***************************************************************************)
Crash ==
    /\ mode \notin {"down", "refused"}
    /\ mode' = "down"
    /\ \E kept \in 0..Len(buffered) :
         frames' \in {frames \o SubSeq(buffered, 1, kept)} \cup
                     (IF kept = Len(buffered) THEN {}
                      ELSE {frames \o SubSeq(buffered, 1, kept) \o <<TornFrame>>})
    /\ header' \in IF mode \in {"starting", "restoring", "heading"}
                   THEN {None, Torn, snapshotTick} ELSE {header}
    /\ buffered' = <<>>
    /\ open' = FALSE
    /\ UNCHANGED <<callerVars, snapshot, snapshotTick, historyVars>>

\* A fault of the disk, not of the program.
Damage ==
    /\ Fails("damage")
    /\ mode = "down"
    /\ \E i \in 1..Len(frames) : frames' = [frames EXCEPT ![i] = TornFrame]
    /\ sound' = FALSE
    /\ UNCHANGED <<mode, callerVars, snapshot, header, buffered, open, snapshotTick,
                   safe, missed, boots>>

Next ==
    \/ Open \/ HeaderWritten \/ ReplayRefuses \/ Replay
    \/ \E outcome \in Outcomes : ShardTick(outcome) \/ AppendRecord(outcome)
    \/ Flush
    \/ WriteTemporary \/ RenameOver \/ RenameFails \/ TruncateJournal \/ ReopenFails
    \/ LastSnapshot \/ Stop \/ Crash \/ Damage

Spec == Init /\ [][Next]_vars

-----------------------------------------------------------------------------
(* Properties. *)

\* What a boot would make of the two files, the buffer written out.
Said == snapshot.state \o OutcomesOf(Newer(frames \o buffered, Floor))

\* While a recorder is up, the two files and the buffer between them say all of its
\* state, each outcome once and in order: at every step of a rotation the file a
\* boot would need is there, and no record is applied on top of a snapshot that has
\* it already (ADR-025 section 5).  Of a shard, which records nothing, and of a store
\* that has lost its journal, they say a beginning, with all in it that was safe --
\* and not, as ServerHost's log line has it, "everything since the last one".
Covered ==
    Up /\ sound =>
      IF caller = "recorder" /\ open THEN state = Said
      ELSE \E kept \in safe..Len(state) : Said = SubSeq(state, 1, kept)

\* A death only ever damages the end of the journal, and the boot after it cuts
\* that end off, so no later append can land behind a bad frame and turn an
\* interrupted write into corruption (section 6.6).
TornOnlyAtTheEnd == sound => ~Corrupt

\* "A clean stop loses nothing" (ServerHost.cpp, after the loop), unless a snapshot
\* failed since the boot: the last one, or an earlier one that cost the journal and
\* with it every snapshot after it.
CleanStop == mode = "running" /\ leaving /\ ~missed => safe = Len(state)

\* What the disk holds can be read back, all of it and once: the files cover the
\* state, damage is never in the middle of them, and a stop leaves the state there.
FilesReadBack == Covered /\ TornOnlyAtTheEnd /\ CleanStop

\* A shard that has a snapshot is never refused by what its death left behind
\* (section 5: the crash between any two steps has to be survivable).
RotationsSurvive == snapshot.there /\ sound => mode # "refused"

\* Persistence keeps its promise: a death takes outcomes from the end only, and
\* none that a flush, a snapshot, a close or an earlier boot had made safe.  Where the
\* disk lost what it had been given, what a boot brings back is still a
\* beginning of what the caller had: a record lost in the middle refuses the boot
\* rather than loading half a shard, and one the snapshot has already is not applied
\* again, not even when the journal could not be emptied after the snapshot.
Log == INSTANCE DurableLog WITH accepted <- state, up <- Up
Promise == Log!Spec

=============================================================================
