------------------------------ MODULE Metadata ------------------------------
(***************************************************************************)
(* The daemon's metadata service: admission of AppendDir / ReplaceDir      *)
(* requests (src/daemon/metadata/upload.rs start_append, start_replace)    *)
(* and the two-phase `.new.state` -> `.state` commit (commit_dir,          *)
(* abort_dir).                                                             *)
(*                                                                         *)
(* The in-memory `writing` map sits behind one global mutex.  The guard    *)
(* returned by meta.writing() lives until start_* returns, so the read of  *)
(* `.state`, the decision and the write of the file all happen under it.   *)
(* An admission is therefore two steps: Decide (lock taken, `.state` read, *)
(* `writing` updated) and the file write that releases the lock.           *)
(* commit_dir and abort_dir take the Writing by value: the caller has      *)
(* already removed it from the map, and the rename / remove runs later on  *)
(* the worker pool without the lock, so it may land between the two steps  *)
(* of an admission.                                                        *)
(*                                                                         *)
(* The tracker that drives an admitted image (tracking/mod.rs, not in the  *)
(* source tree) is modelled from the spec (4.5): an `Accepted(New)` starts *)
(* a fetch; the image is eventually committed on disk and then the Writing *)
(* is handed to commit_dir, or the fetch fails and it goes to abort_dir.   *)
(***************************************************************************)
EXTENDS Naturals, Sequences, SequencesExt, Bags, TLC

CONSTANTS
    VPaths,          \* virtual paths of configured directories
    AppendOnly,      \* the paths whose directory config has append_only
    Images,          \* image ids
    Sigs,            \* signatures, numbered so that they are totally ordered
    GoodSigs,        \* signatures that verify under some configured upload key
    Timestamps,      \* request timestamps
    MaxReqSigs,      \* bound: signatures carried by one request
    MaxRequests,     \* bound: admission requests in one behaviour
    MaxWriteFailures,\* bound: failed metadata file writes in one behaviour
    NoImage, NoWriting, NoFile, NoHolder

ASSUME AppendOnly \subseteq VPaths /\ GoodSigs \subseteq Sigs
ASSUME Sigs \subseteq Nat /\ Timestamps \subseteq Nat

VARIABLES
    writing,        \* VPath -> Writing{image, signatures, replacing} or NoWriting
    stateFile,      \* VPath -> contents of <name>.state, or NoFile
    newStateFile,   \* VPath -> contents of <name>.new.state, or NoFile
    holder,         \* the admission holding the writing mutex between its steps
    tracked,        \* VPath -> image the tracker is fetching/assembling
    disk,           \* VPath -> image committed in the base directory
    metaJobs,       \* bag of commit_dir / abort_dir jobs queued on the pool
    requests,       \* admissions issued so far
    writeFailures   \* failed replace_file calls so far

vars == <<writing, stateFile, newStateFile, holder, tracked, disk, metaJobs,
          requests, writeFailures>>

-----------------------------------------------------------------------------
(* SignatureEntry is <<timestamp, signature>>; derived Ord compares the     *)
(* timestamp first.                                                         *)
SignatureEntry == Timestamps \X Sigs
EntryLess(a, b) == a[1] < b[1] \/ (a[1] = b[1] /\ a[2] < b[2])

State == [image : Images, signatures : Seq(SignatureEntry)]
Writing == [image : Images, signatures : Seq(SignatureEntry),
            replacing : BOOLEAN]
Accept == {"New", "InProgress", "AlreadyDone"}
Held == [path : VPaths, file : {"state", "new"}, content : State,
         accept : Accept]

\* Request bodies: a non-empty list of signatures, duplicates allowed.
ReqSigs == UNION {[1..n -> Sigs] : n \in 1..MaxReqSigs}

\* sort_signatures: Vec::sort on the derived order.
SortSignatures(s) == SortSeq(s, EntryLess)

\* append_signatures: push every new entry not already present in `old`
\* (entries pushed earlier in the loop count as present), then sort.
AppendSignatures(old, new) ==
    SortSignatures(FoldLeft(LAMBDA acc, e : IF Contains(acc, e) THEN acc
                                            ELSE Append(acc, e),
                            old, new))

\* Mutant: accept when any signature is supplied (verify result ignored).
CheckKeysIgnored(sigs) == sigs # <<>>

\* check_keys: at least one supplied signature verifies.
CheckKeys(sigs) == \E i \in DOMAIN sigs : sigs[i] \in GoodSigs

\* The request's signatures stamped with its timestamp and sorted.
Entries(ts, sigs) == SortSignatures([i \in DOMAIN sigs |-> <<ts, sigs[i]>>])

-----------------------------------------------------------------------------
Init ==
    /\ writing = [v \in VPaths |-> NoWriting]
    /\ stateFile = [v \in VPaths |-> NoFile]
    /\ newStateFile = [v \in VPaths |-> NoFile]
    /\ holder = NoHolder
    /\ tracked = [v \in VPaths |-> NoImage]
    /\ disk = [v \in VPaths |-> NoImage]
    /\ metaJobs = EmptyBag
    /\ requests = 0
    /\ writeFailures = 0

\* Take the lock and decide; the file write happens in WriteHeld.
Hold(v, file, content, accept) ==
    holder' = [path |-> v, file |-> file, content |-> content, accept |-> accept]

\* Vacant entry, `.state` holds the same image: merge signatures into it.
AlreadyDone(v, img, entries) ==
    /\ writing[v] = NoWriting
    /\ stateFile[v] # NoFile /\ stateFile[v].image = img
    /\ Hold(v, "state", [image |-> img,
            signatures |-> AppendSignatures(stateFile[v].signatures, entries)],
            "AlreadyDone")
    /\ UNCHANGED writing

\* Mutant: a fresh admission reported as InProgress, so no fetch starts.
AdmitNewAsInProgress(v, img, entries, replacing) ==
    /\ writing' = [writing EXCEPT ![v] = [image |-> img,
                        signatures |-> entries, replacing |-> replacing]]
    /\ Hold(v, "new", [image |-> img, signatures |-> entries], "InProgress")

\* Vacant entry admitted as New: insert a Writing, then write `.new.state`.
AdmitNew(v, img, entries, replacing) ==
    /\ writing' = [writing EXCEPT ![v] = [image |-> img,
                        signatures |-> entries, replacing |-> replacing]]
    /\ Hold(v, "new", [image |-> img, signatures |-> entries], "New")

\* Occupied entry with the same image: merge into the Writing and rewrite
\* `.new.state` with the merged list.
InProgress(v, img, entries) ==
    LET w == writing[v]
        merged == IF entries # w.signatures
                  THEN AppendSignatures(w.signatures, entries)
                  ELSE w.signatures
    IN /\ w # NoWriting /\ w.image = img
       /\ writing' = [writing EXCEPT ![v].signatures = merged]
       /\ Hold(v, "new", [image |-> img, signatures |-> merged], "InProgress")

\* A request that returns before touching any state: signature_mismatch and
\* dir_is_append_only return before the mutex is taken; already_exists and
\* already_uploading_different_version release it unchanged (as do errors
\* from ensure_dir / read_file).
Rejected == UNCHANGED <<writing, holder>>

\* start_append: append_only is irrelevant; a different committed image
\* is "already_exists".
StartAppend(v, img, ts, sigs) ==
    LET entries == Entries(ts, sigs) IN
    /\ requests < MaxRequests
    /\ requests' = requests + 1
    /\ \/ /\ ~CheckKeys(sigs)
          /\ Rejected
       \/ /\ CheckKeys(sigs) /\ holder = NoHolder
          /\ \/ AlreadyDone(v, img, entries)
             \/ /\ writing[v] = NoWriting
                /\ stateFile[v] # NoFile /\ stateFile[v].image # img
                /\ Rejected
             \/ /\ writing[v] = NoWriting /\ stateFile[v] = NoFile
                /\ AdmitNew(v, img, entries, FALSE)
             \/ InProgress(v, img, entries)
             \/ /\ writing[v] # NoWriting /\ writing[v].image # img
                /\ Rejected
    /\ UNCHANGED <<stateFile, newStateFile, tracked, disk, metaJobs,
                   writeFailures>>

\* start_replace: refused on append_only dirs; a different committed image
\* is replaced (Writing.replacing).
StartReplace(v, img, ts, sigs) ==
    LET entries == Entries(ts, sigs) IN
    /\ requests < MaxRequests
    /\ requests' = requests + 1
    /\ \/ /\ v \in AppendOnly
          /\ Rejected
       \/ /\ v \notin AppendOnly /\ ~CheckKeys(sigs)
          /\ Rejected
       \/ /\ v \notin AppendOnly /\ CheckKeys(sigs) /\ holder = NoHolder
          /\ \/ AlreadyDone(v, img, entries)
             \/ /\ writing[v] = NoWriting
                /\ stateFile[v] # NoFile /\ stateFile[v].image # img
                /\ AdmitNew(v, img, entries, TRUE)
             \/ /\ writing[v] = NoWriting /\ stateFile[v] = NoFile
                /\ AdmitNew(v, img, entries, FALSE)
             \/ InProgress(v, img, entries)
             \/ /\ writing[v] # NoWriting /\ writing[v].image # img
                /\ Rejected
    /\ UNCHANGED <<stateFile, newStateFile, tracked, disk, metaJobs,
                   writeFailures>>

\* The held admission's replace_file succeeds and the lock is released.
\* The caller starts a fetch (tracking.fetch_dir) only on Accepted(New).
WriteHeld ==
    LET v == holder.path IN
    /\ holder # NoHolder
    /\ IF holder.file = "state"
       THEN /\ stateFile' = [stateFile EXCEPT ![v] = holder.content]
            /\ UNCHANGED newStateFile
       ELSE /\ newStateFile' = [newStateFile EXCEPT ![v] = holder.content]
            /\ UNCHANGED stateFile
    /\ tracked' = IF holder.accept = "New"
                  THEN [tracked EXCEPT ![v] = holder.content.image]
                  ELSE tracked
    /\ holder' = NoHolder
    /\ UNCHANGED <<writing, disk, metaJobs, requests, writeFailures>>

\* replace_file fails (WriteMeta): start_* returns Err, the file is left as
\* it was and a Writing inserted by the decision stays in the map.
WriteHeldFails ==
    /\ holder # NoHolder
    /\ writeFailures < MaxWriteFailures
    /\ writeFailures' = writeFailures + 1
    /\ holder' = NoHolder
    /\ UNCHANGED <<writing, stateFile, newStateFile, tracked, disk, metaJobs,
                   requests>>

-----------------------------------------------------------------------------
(* Tracker contract (spec 4.5): disk commit first, then the Writing is     *)
(* taken out of the map (under the mutex) and passed to commit_dir.        *)
TrackerCommit(v) ==
    /\ tracked[v] # NoImage
    /\ holder = NoHolder
    /\ disk' = [disk EXCEPT ![v] = tracked[v]]
    /\ writing' = [writing EXCEPT ![v] = NoWriting]
    /\ metaJobs' = metaJobs (+) SetToBag({<<v, "commit">>})
    /\ tracked' = [tracked EXCEPT ![v] = NoImage]
    /\ UNCHANGED <<stateFile, newStateFile, holder, requests, writeFailures>>

\* The fetch or a block write failed: the Writing goes to abort_dir.
TrackerAbort(v) ==
    /\ tracked[v] # NoImage
    /\ holder = NoHolder
    /\ writing' = [writing EXCEPT ![v] = NoWriting]
    /\ metaJobs' = metaJobs (+) SetToBag({<<v, "abort">>})
    /\ tracked' = [tracked EXCEPT ![v] = NoImage]
    /\ UNCHANGED <<stateFile, newStateFile, holder, disk, requests,
                   writeFailures>>

\* commit_dir: rename `.new.state` over `.state`; fails if it is missing.
CommitDir(v) ==
    /\ BagIn(<<v, "commit">>, metaJobs)
    /\ metaJobs' = metaJobs (-) SetToBag({<<v, "commit">>})
    /\ IF newStateFile[v] # NoFile
       THEN /\ stateFile' = [stateFile EXCEPT ![v] = newStateFile[v]]
            /\ newStateFile' = [newStateFile EXCEPT ![v] = NoFile]
       ELSE UNCHANGED <<stateFile, newStateFile>>
    /\ UNCHANGED <<writing, holder, tracked, disk, requests, writeFailures>>

\* abort_dir: remove `.new.state` (an error if it is missing).
AbortDir(v) ==
    /\ BagIn(<<v, "abort">>, metaJobs)
    /\ metaJobs' = metaJobs (-) SetToBag({<<v, "abort">>})
    /\ newStateFile' = [newStateFile EXCEPT ![v] = NoFile]
    /\ UNCHANGED <<writing, stateFile, holder, tracked, disk, requests,
                   writeFailures>>

-----------------------------------------------------------------------------
Next ==
    \/ \E v \in VPaths, img \in Images, ts \in Timestamps, sigs \in ReqSigs :
          \/ StartAppend(v, img, ts, sigs)
          \/ StartReplace(v, img, ts, sigs)
    \/ WriteHeld
    \/ WriteHeldFails
    \/ \E v \in VPaths :
          \/ TrackerCommit(v)
          \/ TrackerAbort(v)
          \/ CommitDir(v)
          \/ AbortDir(v)

Spec == Init /\ [][Next]_vars

-----------------------------------------------------------------------------
\* Every signature list the service keeps.
SigLists ==
    {writing[v].signatures : v \in {p \in VPaths : writing[p] # NoWriting}}
    \union {stateFile[v].signatures : v \in {p \in VPaths : stateFile[p] # NoFile}}
    \union {newStateFile[v].signatures :
                v \in {p \in VPaths : newStateFile[p] # NoFile}}

\* Spec 3/8: the signatures of every persisted State (`.state` and
\* `.new.state`) are sorted by (timestamp, signature) and contain no
\* duplicates, i.e. strictly ascending.  The request's own list (Entries)
\* is stamped and sorted but never deduplicated before a New admission
\* writes it or a merge folds it in.
NoDuplicateSignatures ==
    \A v \in VPaths :
        \A f \in {stateFile[v], newStateFile[v]} \ {NoFile} :
            \A i \in 1..Len(f.signatures) - 1 :
                EntryLess(f.signatures[i], f.signatures[i + 1])

\* check_keys admits a request only if one of its signatures verifies, and
\* merges only add signatures: every kept list carries a verifying one.
AdmittedSigned ==
    \A s \in SigLists : \E i \in DOMAIN s : s[i][2] \in GoodSigs

\* Every Writing in the map has a driver: the tracker assembles exactly its
\* image, or the admission that inserted it still holds the lock; and the
\* tracker never assembles an image the service holds no Writing for.
WritingDriven ==
    \A v \in VPaths :
        /\ writing[v] # NoWriting =>
              \/ tracked[v] = writing[v].image
              \/ holder # NoHolder /\ holder.path = v /\ holder.accept = "New"
        /\ tracked[v] # NoImage =>
              writing[v] # NoWriting /\ writing[v].image = tracked[v]

\* A path with nothing in flight (no Writing, no lock, no queued job) has
\* `.state` naming the image committed on disk.
Settled(v) ==
    /\ writing[v] = NoWriting
    /\ holder = NoHolder \/ holder.path # v
    /\ \A k \in {"commit", "abort"} : ~BagIn(<<v, k>>, metaJobs)
StateMatchesDisk ==
    \A v \in VPaths :
        Settled(v) =>
            IF stateFile[v] = NoFile THEN disk[v] = NoImage
            ELSE disk[v] = stateFile[v].image
=============================================================================
