------------------------------- MODULE Cleanup -------------------------------
(***************************************************************************)
(* The cleanup loop, src/daemon/tracking/cleanup.rs spawn_loop().          *)
(*                                                                         *)
(* One serial task consumes commands from an unbounded channel: each       *)
(* command's future runs to completion (then a 10 s timer) before the next *)
(* is taken.  Reschedule is synchronous; Base(dir) is a chain of pool jobs *)
(* (scan_dir joined with read_keep_list, find_unused, then for each unused *)
(* path dir_deleted, remove_state_file and, if that succeeded,            *)
(* remove_image), any error of which ends the command; IndexGc is one pool *)
(* job whose error is logged.                                              *)
(*                                                                         *)
(* Collaborators outside the source tree are modelled from spec 4.8:       *)
(* sort_out may put any scanned path outside the keep list into `unused`  *)
(* (its age/count policy is abstracted away); should_run_index_gc is       *)
(* deleted_since_index_gc exceeding a threshold; dir_deleted marks the     *)
(* path deleted and counts it; dry_cleanup() is true until the startup     *)
(* window ends.                                                            *)
(***************************************************************************)
EXTENDS Naturals, Sequences, SequencesExt, FiniteSets

CONSTANTS
    BaseDirs,        \* configured base directories
    AutoClean,       \* those whose config has auto_clean
    DirPaths,        \* BaseDirs -> the virtual paths of its subdirectories
    KeepList,        \* paths named in the directories' keep lists
    Images,
    GcThreshold,     \* should_run_index_gc: deletions since the last GC above this
    AggressiveGc,    \* config.aggressive_index_gc
    NoImage, NoDir, NoCommand

Paths == UNION {DirPaths[d] : d \in BaseDirs}

VARIABLES
    queue,           \* the cleanup channel
    running,         \* the command whose future the loop is driving
    stateImg,        \* path -> image of its .state file, or NoImage
    diskImg,         \* path -> image directory present in the base dir
    indexes,         \* images whose index is in the index store
    deleted,         \* paths marked deleted by dir_deleted
    deletedSinceGc,  \* state.deleted_since_index_gc
    dryRun           \* sys.dry_cleanup(): still inside the startup window

vars == <<queue, running, stateImg, diskImg, indexes, deleted,
          deletedSinceGc, dryRun>>

Command == [kind : {"Base", "IndexGc", "Reschedule"}, dir : BaseDirs \union {NoDir}]
Reschedule == [kind |-> "Reschedule", dir |-> NoDir]
IndexGc == [kind |-> "IndexGc", dir |-> NoDir]
Base(d) == [kind |-> "Base", dir |-> d]

\* A Base future: its phase, the paths left to remove, the one whose image
\* is being removed, and whether find_unused ran inside the dry-run window.
Running == [dir : BaseDirs, phase : {"scan", "remove", "image"},
            pending : SUBSET Paths, cur : Paths \union {NoDir},
            decidedDry : BOOLEAN]

Referenced == {stateImg[p] : p \in Paths} \ {NoImage}

-----------------------------------------------------------------------------
\* Startup: paths on disk with their state files; the first Reschedule is
\* sent by the tracking subsystem.
Init ==
    /\ stateImg \in [Paths -> Images \union {NoImage}]
    /\ diskImg = stateImg
    /\ indexes \in {s \in SUBSET Images : Referenced \subseteq s}
    /\ queue = <<Reschedule>>
    /\ running = NoCommand
    /\ deleted = {}
    /\ deletedSinceGc = 0
    /\ dryRun = TRUE

\* Mutant: Reschedule forgets to reset deleted_since_index_gc.
DoRescheduleNoReset ==
    LET gc == AggressiveGc \/ deletedSinceGc > GcThreshold IN
    /\ running = NoCommand /\ queue # <<>> /\ Head(queue) = Reschedule
    /\ queue' = Tail(queue) \o (IF gc THEN <<IndexGc>> ELSE <<>>)
                \o SetToSeq({Base(d) : d \in AutoClean}) \o <<Reschedule>>
    /\ UNCHANGED <<running, stateImg, diskImg, indexes, deleted,
                   deletedSinceGc, dryRun>>

\* Mutant: should_run_index_gc is not consulted.
DoRescheduleNoGcCheck ==
    LET gc == AggressiveGc IN
    /\ running = NoCommand /\ queue # <<>> /\ Head(queue) = Reschedule
    /\ queue' = Tail(queue) \o (IF gc THEN <<IndexGc>> ELSE <<>>)
                \o SetToSeq({Base(d) : d \in AutoClean}) \o <<Reschedule>>
    /\ deletedSinceGc' = IF gc THEN 0 ELSE deletedSinceGc
    /\ UNCHANGED <<running, stateImg, diskImg, indexes, deleted, dryRun>>

\* Command::Reschedule: queue IndexGc (and reset the counter) when due,
\* Base(dir) for every auto_clean directory, and Reschedule itself.
DoReschedule ==
    LET gc == AggressiveGc \/ deletedSinceGc > GcThreshold IN
    /\ running = NoCommand /\ queue # <<>> /\ Head(queue) = Reschedule
    /\ queue' = Tail(queue) \o (IF gc THEN <<IndexGc>> ELSE <<>>)
                \o SetToSeq({Base(d) : d \in AutoClean}) \o <<Reschedule>>
    /\ deletedSinceGc' = IF gc THEN 0 ELSE deletedSinceGc
    /\ UNCHANGED <<running, stateImg, diskImg, indexes, deleted, dryRun>>

\* Command::Base(dir) is taken: scan_dir and read_keep_list are spawned.
StartBase ==
    /\ running = NoCommand /\ queue # <<>> /\ Head(queue).kind = "Base"
    /\ queue' = Tail(queue)
    /\ running' = [dir |-> Head(queue).dir, phase |-> "scan", pending |-> {},
                   cur |-> NoDir, decidedDry |-> dryRun]
    /\ UNCHANGED <<stateImg, diskImg, indexes, deleted, deletedSinceGc, dryRun>>

\* find_unused: sort_out over the scanned states; dry_cleanup() only picks
\* the log message, the unused list is returned either way.
FindUnused(d) ==
    SUBSET {p \in DirPaths[d] : stateImg[p] # NoImage /\ p \notin KeepList}

\* The joined scan completes: find_unused decides, or an error ends Base.
BaseScanned ==
    /\ running # NoCommand /\ running.phase = "scan"
    /\ \/ \E unused \in FindUnused(running.dir) :
             running' = [running EXCEPT !.phase = "remove", !.pending = unused,
                                        !.decidedDry = dryRun]
       \/ running' = NoCommand
    /\ UNCHANGED <<queue, stateImg, diskImg, indexes, deleted,
                   deletedSinceGc, dryRun>>

\* Mutant: the image is removed before the state file (order swapped).
RemoveStateAfterImage ==
    /\ running # NoCommand /\ running.phase = "remove"
    /\ \E p \in running.pending :
          /\ deleted' = deleted \union {p}
          /\ deletedSinceGc' = deletedSinceGc + 1
          /\ diskImg' = [diskImg EXCEPT ![p] = NoImage]
          /\ \/ /\ stateImg' = [stateImg EXCEPT ![p] = NoImage]
                /\ running' = [running EXCEPT !.pending = @ \ {p}]
             \/ /\ running' = NoCommand
                /\ UNCHANGED stateImg
    /\ UNCHANGED <<queue, indexes, dryRun>>

\* for_each over the unused paths: dir_deleted, then remove_state_file; on
\* error the for_each (and the Base command) stops.
RemoveState ==
    /\ running # NoCommand /\ running.phase = "remove"
    /\ \E p \in running.pending :
          /\ deleted' = deleted \union {p}
          /\ deletedSinceGc' = deletedSinceGc + 1
          /\ \/ /\ stateImg' = [stateImg EXCEPT ![p] = NoImage]
                /\ running' = [running EXCEPT !.phase = "image", !.cur = p]
             \/ /\ running' = NoCommand
                /\ UNCHANGED stateImg
    /\ UNCHANGED <<queue, diskImg, indexes, dryRun>>

\* remove_image after the state file is gone; an error stops the for_each.
RemoveImage ==
    LET p == running.cur IN
    /\ running # NoCommand /\ running.phase = "image"
    /\ \/ /\ diskImg' = [diskImg EXCEPT ![p] = NoImage]
          /\ running' = [running EXCEPT !.phase = "remove", !.cur = NoDir,
                                        !.pending = @ \ {p}]
       \/ /\ running' = NoCommand
          /\ UNCHANGED diskImg
    /\ UNCHANGED <<queue, stateImg, indexes, deleted, deletedSinceGc, dryRun>>

\* All unused paths removed: rescan_dir, and the loop moves on.
BaseDone ==
    /\ running # NoCommand /\ running.phase = "remove" /\ running.pending = {}
    /\ running' = NoCommand
    /\ UNCHANGED <<queue, stateImg, diskImg, indexes, deleted,
                   deletedSinceGc, dryRun>>

\* Command::IndexGc: index_gc deletes every index no state file references,
\* or fails and is logged; last_index_gc is updated either way.
DoIndexGc ==
    /\ running = NoCommand /\ queue # <<>> /\ Head(queue) = IndexGc
    /\ queue' = Tail(queue)
    /\ indexes' \in {indexes \cap Referenced, indexes}
    /\ UNCHANGED <<running, stateImg, diskImg, deleted, deletedSinceGc, dryRun>>

\* The startup window of dry_cleanup() ends.
DryRunEnds ==
    /\ dryRun
    /\ dryRun' = FALSE
    /\ UNCHANGED <<queue, running, stateImg, diskImg, indexes, deleted,
                   deletedSinceGc>>

LoopStep ==
    \/ DoReschedule \/ StartBase \/ BaseScanned \/ RemoveState
    \/ RemoveImage \/ BaseDone \/ DoIndexGc

Next == LoopStep \/ DryRunEnds

\* The loop task is always polled again: pool jobs complete and the 10 s
\* timer after each command fires; the startup window ends.
Spec == Init /\ [][Next]_vars /\ WF_vars(LoopStep) /\ WF_vars(DryRunEnds)

-----------------------------------------------------------------------------
TypeOK ==
    /\ queue \in Seq(Command)
    /\ running \in Running \union {NoCommand}
    /\ stateImg \in [Paths -> Images \union {NoImage}]
    /\ diskImg \in [Paths -> Images \union {NoImage}]
    /\ indexes \subseteq Images
    /\ deleted \subseteq Paths
    /\ deletedSinceGc \in 0..(GcThreshold + Cardinality(Paths))
    /\ dryRun \in BOOLEAN

\* remove_image runs only after remove_state_file succeeded, so whatever
\* fails in between, no state file outlives the image it names (an image
\* may outlive its state file).
NoStateWithoutImage ==
    \A p \in Paths : stateImg[p] # NoImage => diskImg[p] = stateImg[p]

\* Deletions past the threshold eventually get an IndexGc queued (the
\* counter is reset when it is), however the Base commands fail.
IndexGcFollowsDeletions ==
    deletedSinceGc > GcThreshold ~> deletedSinceGc = 0

\* Spec 4.8: during the dry-run window the partitioning is computed but
\* not applied - no state file is removed on a decision find_unused took
\* while dry_cleanup() was true.
NoRemovalDecidedInDryRun ==
    [][\A p \in Paths :
          stateImg[p] # NoImage /\ stateImg'[p] = NoImage =>
              ~running.decidedDry]_vars
=============================================================================
