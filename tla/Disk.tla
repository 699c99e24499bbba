-------------------------------- MODULE Disk --------------------------------
(***************************************************************************)
(* The disk pipeline, src/daemon/disk/public.rs, for one virtual path.     *)
(*                                                                         *)
(* start_image opens (creating it if missing) the shadow `.tmp.<name>` and *)
(* returns an openat Dir handle to it; write_block resolves files under    *)
(* that handle, opens them without truncation and writes one block at its *)
(* offset; commit_image renames `.tmp.<name>` over `<name>`.  Directories  *)
(* are inodes: a name is bound to at most one, a handle keeps pointing at  *)
(* its inode after the name is removed or renamed.  A block slot holds the *)
(* image whose block was written there, Empty, or Torn (a write cut off).  *)
(*                                                                         *)
(* The tracker that drives the pipeline (tracking/mod.rs) and              *)
(* disk/commit.rs are not in the source tree; they follow spec 4.4/4.5:    *)
(* one assembly per path at a time, every block of the index written       *)
(* before commit_image, a write or commit error aborts, and abort removes *)
(* the shadow.  Pool jobs already spawned still run after an abort.        *)
(***************************************************************************)
EXTENDS Naturals, FiniteSets, TLC

CONSTANTS
    Images,
    Blocks,         \* (file, offset) slots of the path's images
    Manifest,       \* Images -> the slots its index lists
    MaxAttempts,    \* bound: assemblies started in one behaviour
    MaxCrashes,     \* bound: daemon crashes in one behaviour
    NoInode, NoImage, Empty, Torn

Inodes == 1..MaxAttempts
Data == Images \union {Empty, Torn}

VARIABLES
    tmp,            \* inode named .tmp.<name>, or NoInode
    final,          \* inode named <name>, or NoInode
    content,        \* inode -> slot -> Data
    attempt,        \* the tracker's assembly of the path
    writes,         \* spawned write_block jobs not yet run
    installed,      \* image the last commit_image installed
    attempts, crashes

vars == <<tmp, final, content, attempt, writes, installed, attempts, crashes>>

Idle == [phase |-> "idle", img |-> NoImage, id |-> 0, handle |-> NoInode,
         done |-> {}]

-----------------------------------------------------------------------------
\* Disk::new: no shadow, nothing committed for the path yet.
Init ==
    /\ tmp = NoInode /\ final = NoInode
    /\ content = [n \in {} |-> [b \in Blocks |-> Empty]]
    /\ attempt = Idle
    /\ writes = {}
    /\ installed = NoImage
    /\ attempts = 0 /\ crashes = 0

\* The tracker has an index for image i and asks for a shadow (spec 4.5).
Begin(i) ==
    /\ attempt.phase = "idle" /\ attempts < MaxAttempts
    /\ attempts' = attempts + 1
    /\ attempt' = [Idle EXCEPT !.phase = "starting", !.img = i,
                               !.id = attempts + 1]
    /\ UNCHANGED <<tmp, final, content, writes, installed, crashes>>

\* start_image: ensure_subdir opens `.tmp.<name>` if it exists and creates
\* it otherwise; the tracker then spawns write_block for every slot of the
\* index.  Opening the base dir or a parent can fail (Failed).
StartImage ==
    LET new == Cardinality(DOMAIN content) + 1
        h == IF tmp = NoInode THEN new ELSE tmp
    IN
    /\ attempt.phase = "starting"
    /\ \/ /\ tmp' = h
          /\ content' = IF tmp = NoInode
                        THEN content @@ (new :> [b \in Blocks |-> Empty])
                        ELSE content
          /\ attempt' = [attempt EXCEPT !.phase = "assembling", !.handle = h]
          /\ writes' = writes \union
                {[handle |-> h, block |-> b, img |-> attempt.img,
                  id |-> attempt.id] : b \in Manifest[attempt.img]}
       \/ /\ attempt' = Idle
          /\ UNCHANGED <<tmp, content, writes>>
    /\ UNCHANGED <<final, installed, attempts, crashes>>

\* fn write_block: update_file (no truncation), seek, write_all.
WriteAt(c, n, b, d) == [c EXCEPT ![n][b] = d]

\* Mutant: the block is written through the path `.tmp.<name>`, resolved
\* when the job runs, instead of through the image's Dir handle.
WriteBlockByName(w) ==
    LET current == attempt.id = w.id /\ attempt.phase = "assembling"
        n == tmp
    IN
    /\ writes' = writes \ {w}
    /\ \/ /\ content' = IF n = NoInode THEN content
                        ELSE WriteAt(content, n, w.block, w.img)
          /\ attempt' = IF current
                        THEN [attempt EXCEPT !.done = @ \union {w.block}]
                        ELSE attempt
       \/ /\ UNCHANGED content
          /\ attempt' = IF current THEN [attempt EXCEPT !.phase = "aborting"]
                        ELSE attempt
    /\ UNCHANGED <<tmp, final, installed, attempts, crashes>>

\* Disk::write_block on the pool, under image.temporary.  The tracker marks
\* the slot done, or aborts on WriteFile; a job of an assembly that is no
\* longer current still writes, and its result is dropped.
WriteBlock(w) ==
    LET current == attempt.id = w.id /\ attempt.phase = "assembling" IN
    /\ writes' = writes \ {w}
    /\ \/ /\ content' = WriteAt(content, w.handle, w.block, w.img)
          /\ attempt' = IF current
                        THEN [attempt EXCEPT !.done = @ \union {w.block}]
                        ELSE attempt
       \/ /\ content' \in {content, WriteAt(content, w.handle, w.block, Torn)}
          /\ attempt' = IF current THEN [attempt EXCEPT !.phase = "aborting"]
                        ELSE attempt
    /\ UNCHANGED <<tmp, final, installed, attempts, crashes>>

\* Disk::commit_image once every slot is written: commit.rs renames
\* `.tmp.<name>` over `<name>` (spec 4.4); an error aborts.
CommitImage ==
    /\ attempt.phase = "assembling" /\ attempt.done = Manifest[attempt.img]
    /\ \/ /\ final' = tmp /\ tmp' = NoInode
          /\ installed' = attempt.img
          /\ attempt' = Idle
       \/ /\ attempt' = [attempt EXCEPT !.phase = "aborting"]
          /\ UNCHANGED <<final, tmp, installed>>
    /\ UNCHANGED <<content, writes, attempts, crashes>>

\* Abort (spec 4.5): the shadow is removed by name.
Abort ==
    /\ attempt.phase = "aborting"
    /\ tmp' = NoInode
    /\ attempt' = Idle
    /\ UNCHANGED <<final, content, writes, installed, attempts, crashes>>

\* The daemon dies: the pool's jobs and the tracker's state are gone, a
\* write in progress may be cut off.  disk::start() does no recovery, so
\* the shadow stays on disk.
CrashRestart ==
    /\ crashes < MaxCrashes
    /\ crashes' = crashes + 1
    /\ content' \in {content} \union
                    {WriteAt(content, w.handle, w.block, Torn) : w \in writes}
    /\ attempt' = Idle
    /\ writes' = {}
    /\ UNCHANGED <<tmp, final, installed, attempts>>

Next ==
    \/ \E i \in Images : Begin(i)
    \/ StartImage
    \/ \E w \in writes : WriteBlock(w)
    \/ CommitImage
    \/ Abort
    \/ CrashRestart

Spec == Init /\ [][Next]_vars

-----------------------------------------------------------------------------
\* The committed directory holds every block of the image last installed,
\* intact: late write_block jobs of an aborted assembly, torn writes and a
\* shadow left behind by a crash and reopened by the next start_image
\* never overwrite a block the commit depends on.
CommittedBlocksIntact ==
    final # NoInode =>
        \A b \in Manifest[installed] : content[final][b] = installed
=============================================================================
