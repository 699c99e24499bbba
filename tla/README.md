# TLA+ models of the ciruela daemon

This directory holds TLA+ models of the synchronisation engine of ciruela:
the peer-to-peer daemon that admits signed directory images, fetches them
and commits them atomically on every host that watches a virtual path.
Every action is translated from `src/`. `PROJECT.json` maps each definition
to the lines it models. Where the driving code is not in the source tree
(`tracking/mod.rs`, `metadata/mod.rs`), the definition is modelled from
`spec.md` and marked `spec_modelled`.

## 1. Inventory

| Component | Source | State it keeps | Operations |
|---|---|---|---|
| Metadata admission | `daemon/metadata/upload.rs` | in-memory `writing` map (one global mutex); per path `<name>.state` and `<name>.new.state` files | `start_append`, `start_replace`, `commit_dir`, `abort_dir`, `append_signatures`, `check_keys` |
| Index store | `daemon/metadata/store_index.rs` | `<hex[..2]>/<hex>.ds1` files | `write` (temporary file, then rename) |
| Fetch coordinator | `daemon/tracking/fetch_dir.rs` | `images` (weak cache) and `image_futures` (shared futures) in the tracking state | `start`, its waiter, and the index-read continuation |
| Reconciliation | `daemon/tracking/reconciliation.rs` | `reconciling: (path, hash) -> candidate peers` | `start`: a loop over the candidate peers, then a scan, then append/replace for each subdir |
| Cleanup loop | `daemon/tracking/cleanup.rs` | command queue, `deleted_since_index_gc`, `last_index_gc` | `Reschedule`, `Base(dir)`, `IndexGc` |
| Disk pipeline | `daemon/disk/public.rs` | shadow directory `.tmp.<name>`, committed directories | `start_image`, `write_block`, `commit_image` |
| Upload bookkeeping (client) | `cluster/upload.rs` | accepted/done/aborted/rejected sets behind an RwLock; atomic `total_responses` | `add_response`, `received_image`, `aborted_image`, `check` |
| HTTP introspection | `daemon/http.rs` | none (read-only snapshots) | routing, JSON rendering |
| CLI and crate root | `client/main.rs`, `lib.rs` | none | argument parsing |

**How they interact.**
- A client upload or a peer announcement reaches the metadata service, either directly or through reconciliation, which calls `append_dir`/`replace_dir`.
- On `Accepted(New)` the caller starts `fetch_dir`. This resolves the index, and the tracker assembles the image through the disk pipeline.
- The tracker commits the image on disk first. It then takes the `Writing` out of the map and hands it to `commit_dir`, which renames `.new.state` over `.state`. On failure it hands the `Writing` to `abort_dir`.
- The cleanup loop scans base directories, removes the state files and images of unused paths, and garbage-collects indexes.
- Every coordination handler runs on one event loop. File I/O runs on a worker pool.

**What is hard here.**
- The `writing` mutex is held across the whole of `start_*`, including its file I/O. `commit_dir` and `abort_dir`, however, run on the pool without the mutex, after the `Writing` has already left the map.
- A failed file write can leave in-memory and on-disk state out of step.
- Fetch deduplication depends on which future `image_futures` holds at the moment a waiter runs.
- Reconciliation and cleanup both act on scans that may be stale by the time they act.
- Convergence is a liveness question: each admitted `Writing` must eventually be committed or aborted.

**What makes each component correct.**
- Metadata: stored signature lists are sorted and contain no duplicates. Only verified requests are admitted. Every `Writing` has exactly one driver. Once a path is quiescent, `.state` names the image that is on disk.
- Fetch: at most one resolution runs per image. A failed resolution is evicted so that a later fetch can retry.
- Reconciliation: only a peer whose hash matches is used. The `reconciling` entry is always removed. The forwarded signature is one that can be admitted.
- Cleanup: no path with an admission in flight is deleted. Nothing is deleted during the dry run. The state file and the image are removed together.
- Bookkeeping: each host is counted once.
- Disk: a committed directory holds every block of its index, whatever failed, crashed or ran late during its assembly.

## 2. Plan

Modules are listed in order of importance.

1. **`Metadata`** (done): admission, the two-phase state file, and the tracker contract from spec 4.5.
2. **`FetchDir`** (done): the fetch coordinator as the code has it.
3. **`Reconciliation`** (done): composed with `Metadata` through `INSTANCE`.
4. **`Cleanup`** (done): the command loop, `Base` and `IndexGc`.
5. **`UploadStats`** (done): the client bookkeeping and its counter.
6. **`Disk`** (done): the shadow directory, `write_block`, and `commit_image`, with crash and restart. It is not composed with `Metadata`, whose `disk` variable stays one image.
7. **`Tracking`** (open): `Metadata` composed with `FetchDir` in place of the spec-modelled tracker. With this code no fetch ever produces an index (section 4), so the composition would only show that a fetch never completes.

All 12 runs are in use.

A property is kept only when a plausible bug in the modelled code breaks it. `Metadata`, `FetchDir`, `Reconciliation` and `Disk` have no type invariant: every value they hold is drawn from a finite set, so only a change to the model's own bounds, never a bug in the code, could break one. Properties that restate one assignment or guard, or that hold only through a spec-modelled collaborator and fairness, are left out for the same reason.

## 3. Modules

### Metadata (`Metadata.tla`, `MCMetadata.tla`)

Variables:
- `writing`: the `writing` map.
- `stateFile` and `newStateFile`: the contents of `<name>.state` and `<name>.new.state`.
- `holder`: the admission that holds the mutex between its decision and its file write.
- `tracked`: the image that the tracker is fetching.
- `disk`: the image committed in the base directory.
- `metaJobs`: the bag of `commit_dir`/`abort_dir` jobs queued on the pool.

Each admission is two steps, because the rename in `commit_dir` can land between them:

1. `StartAppend` or `StartReplace`. Every branch of `start_append`/`start_replace` is here: `signature_mismatch`, `dir_is_append_only`, `AlreadyDone` (merge into `.state`), `already_exists`, `New` (insert a `Writing`, with `replacing` set when `.state` holds another image), `InProgress` (merge into the `Writing`), and `already_uploading_different_version`. The step takes the mutex, reads `.state` and updates `writing`.
2. `WriteHeld`. This is the `replace_file`. On `New` the caller starts the fetch. `WriteHeldFails` is the `WriteMeta` error: the file is left as it was, and a `Writing` that was inserted stays in the map.

The remaining actions:
- `TrackerCommit` and `TrackerAbort` (spec-modelled) take the `Writing` out under the mutex and queue the job.
- `CommitDir` renames `.new.state` over `.state`, or fails if the file is missing.
- `AbortDir` removes `.new.state`.

Config errors (`PathNotFound`, `LevelMismatch`) and `ensure_dir`/`read_file` errors return before any state changes, so they are stutter steps. Signatures are numbers, so the derived order on `(timestamp, signature)` can be computed. `append_signatures` is a `FoldLeft` followed by `SortSeq`.

Bounds and why they are enough:
- Two paths: `p1` is append-only and `p2` is replaceable.
- Two images, with symmetry over them.
- Signature 1 verifies and signature 2 does not.
- Two timestamps.
- Up to three requests, each with up to two signatures (one in `meta_driven`).

Three requests are enough for every race found: admit, commit, admit again, abort. Two signatures per request are enough to carry a duplicate (`meta_dup_sigs` needs a single request).

No fairness is assumed: every Metadata run checks safety.

| Run | Expect | What it shows |
|---|---|---|
| `meta_safety` | pass | `AdmittedSigned`: with one failed write allowed, every kept signature list, including merges into files written by earlier requests, carries a signature that verifies. Accepting a request without verifying breaks it. |
| `meta_driven` | pass | `WritingDriven`: without I/O failures, each `Writing` is driven by exactly the tracker fetch of its image, and the tracker never assembles an image that has no `Writing`. Reporting a fresh admission as `InProgress` breaks it. |
| `meta_commit_race` | violation | `StateMatchesDisk`: `abort_dir` of a second admission deletes the `.new.state` that the first admission's pending `commit_dir` was about to rename. The result is no `.state` while the first image is on disk. The same gap lets a rename install another admission's file. |
| `meta_write_leak` | violation | `WritingDriven`: a failed `.new.state` write leaves an undriven `Writing` that blocks the path forever. |
| `meta_dup_sigs` | violation | `NoDuplicateSignatures`: one append whose body lists a signature twice is admitted, and `.new.state` stores both entries. Spec 3 and 8 say a `State`'s signatures are sorted and contain no duplicates. |

### FetchDir (`FetchDir.tla`, `MCFetchDir.tla`)

Variables:
- `imageFutures`: the map `image_futures`.
- `waiters`: the spawned waiters, as (call, image, future).
- `readers`: index reads in flight.
- `crashed`: whether the loop has panicked.

`Start` covers both branches of `start()`:
- If `image_futures` already holds a future, `Start` joins it.
- Otherwise it inserts a new future and spawns its read.

Either way it spawns a waiter.

The oneshot sender `tx` is never moved into the read task, so every shared future resolves to `Canceled`. `WaiterFails` then removes whatever entry `image_futures[id]` holds. The waiter's `Ok` arm and the cached branch are dead code, so they are left out. `ReadCompletes` is the read continuation: both of its arms are `unimplemented!()`, which panics the loop.

Bounds: two images (symmetric) and four calls.

Fairness: weak fairness on waiters only. Their future is ready at once. No fairness is assumed of the reads.

| Run | Expect | What it shows |
|---|---|---|
| `fetch_dir` | pass | `EvictedOnError`: every entry is eventually evicted, unless the daemon panicked first. |
| `fetch_single_flight` | violation | `SingleFlight`: a second read of the same image starts while the first is running. |

### Reconciliation (`Reconciliation.tla`, `MCReconciliation.tla`)

`Reconciliation` declares `Metadata`'s constants and variables and takes its actions through `Meta == INSTANCE Metadata`.

Variables:
- `peerState`: the `BaseDirState` each peer holds. A hash is modelled by the state it digests, since `Hash::for_object` is deterministic.
- `reconciling`: the map from hash to candidate peers.
- `tasks`: the running `start()` futures.
- `calls`: the bag of spawned `append_dir`/`replace_dir` calls.
- `announces`: a bounded counter of announcements.

Actions:
- `Announce` registers a pair or adds a candidate to it. This code is in `tracking/mod.rs`, which is not in the tree, so it is spec-modelled.
- `Ask` is one turn of the candidate loop. A `GetBaseDir` reply with a matching hash breaks out. An error or a mismatch removes the candidate, then takes another one out of the set or gives up.
- `Scan` is the base-dir scan.
- `Apply` spawns one call per remote subdir, with its last signature: `replace` if the scan saw the subdir locally, `append` otherwise. It then removes the `reconciling` entry.
- `Serve` runs a spawned call as `Meta!StartAppend` or `Meta!StartReplace`.
- `MetaStep` is the rest of `Metadata`.
- `PeerUpdates` lets a peer move to another state at any time.

Bounds: two peers and three remote states. Two hold different images of one path, and one carries a signature that does not verify. There are up to three announcements and three metadata requests.

Fairness: weak fairness per hash on the task's steps. Each is a ready future or a pool job, and `GetBaseDir` ends with a reply or an error. Symmetry is not used, because the run checks liveness.

| Run | Expect | What it shows |
|---|---|---|
| `recon` | pass | `ReconcileTerminates`: every registered pair is released, although announcements keep adding candidates to the set the loop draws from. A loop that only reads the candidate set, without removing what it tried, breaks it. |

### Cleanup (`Cleanup.tla`, `MCCleanup.tla`)

Variables:
- `queue`: the command channel.
- `running`: the `Base` future being driven, with its phase and the paths left to remove.
- `stateImg` and `diskImg`: the state files and the image directories.
- `indexes`: the index store.
- `deleted` and `deletedSinceGc`: what `dir_deleted` records.
- `dryRun`: `dry_cleanup()`.

Actions:
- `DoReschedule` queues `IndexGc` when due, then `Base` for every `auto_clean` dir, then itself.
- `StartBase`, `BaseScanned`, `RemoveState`, `RemoveImage` and `BaseDone` are the chain of pool jobs of one `Base` command. Any error in it ends the command.
- `DoIndexGc` runs the index GC.
- `sort_out`'s policy is abstracted: any set of scanned paths outside the keep list may be `unused`.

`RemoveState` takes `dir_deleted` (line 80) and `remove_state_file` (line 84) as one step. No property reads `deleted`, so the merge hides nothing that is checked.

Bounds: an `auto_clean` dir with two paths, one of them kept; a second dir that is not cleaned; two images; GC due after one deletion.

Fairness: weak fairness on the loop, whose pool jobs and 10 s timer complete, and on the end of the dry-run window.

| Run | Expect | What it shows |
|---|---|---|
| `cleanup` | pass | However the pool jobs fail: no state file outlives its image (`NoStateWithoutImage`; removing the image first breaks it); `deleted_since_index_gc` stays bounded (`TypeOK`; a `Reschedule` that does not reset it breaks it); deletions past the threshold lead to an `IndexGc` (`IndexGcFollowsDeletions`; not consulting the counter breaks it). |
| `cleanup_dry_run` | violation | `NoRemovalDecidedInDryRun`: `dry_cleanup()` only picks a log message. State files and images are removed during the startup window as well. |

### UploadStats (`UploadStats.tla`, `MCUploadStats.tla`)

Each `Stats` method holds the `RwLock` for its whole body, so each is one atomic step. `total_responses` is bumped inside `add_response` under the write lock.

Variables:
- the `Bookkeeping` sets and maps. The hostname maps mirror the id maps, so they are folded into them.
- `totalResponses`.
- `handled`: a bounded count of deliveries.
- `verdict`: the first `Some` that `check()` returns.

Actions:
- `AddResponse`, `ReceivedImage` and `AbortedImage` can each be delivered any number of times, in any order, and directly or forwarded.
- `Check` is `check()`.

Each peer gives one answer to the upload. When `cluster/future.rs` polls `check()` is not in the tree, so `Check` may run at any time.

Bounds: three hosts (two accept, one rejects) and six deliveries. Six is enough to duplicate every answer and to deliver a done notice before its host's answer.

| Run | Expect | What it shows |
|---|---|---|
| `upload_stats` | pass | `TypeOK`, whose range bounds `total_responses` by the number of hosts: a duplicated answer is never counted again. Counting every delivery breaks it. |

### Disk (`Disk.tla`, `MCDisk.tla`)

The model covers one virtual path. Directories are inodes, because `start_image` returns an openat `Dir` handle to the shadow. The handle keeps pointing at its inode after `.tmp.<name>` is removed or renamed.

Variables:
- `tmp` and `final`: the inodes named `.tmp.<name>` and `<name>`.
- `content`: inode, then block slot, to the image whose block was written there, `Empty`, or `Torn`.
- `attempt`: the tracker's assembly (phase, image, handle, slots done).
- `writes`: the spawned `write_block` jobs.
- `installed`: the image the last commit installed.

Actions:
- `StartImage`: `ensure_subdir` reopens an existing shadow or creates one. The tracker then spawns a write for every slot of the index.
- `WriteBlock`: writes through the handle without truncating. On failure the block is left untouched or torn, and the current assembly aborts. A job of an assembly that was aborted still writes, but its result is dropped.
- `CommitImage`: runs once every slot is done. It renames the shadow over `<name>`, or fails and aborts.
- `CrashRestart`: pool jobs and tracker state are lost, and a block in flight may be torn. `disk::start()` recovers nothing, so the shadow stays.
- `Begin` and `Abort` are the tracker from spec 4.5 (spec-modelled). Abort removes the shadow by name. `commit.rs` follows spec 4.4.

Bounds: two images, `i1` over slots `b1` and `b2` and `i2` over `b1` only, so a stale `i1` block can sit where `i2` is assembled. Three assemblies and one crash: enough for abort-then-restart and crash-then-reopen, each followed by a commit.

No fairness is assumed: the run checks safety. Whether an assembly ends depends on the spec-modelled tracker's reaction to each result, not on `public.rs`, which passes every error back with `?`.

| Run | Expect | What it shows |
|---|---|---|
| `disk` | pass | `CommittedBlocksIntact`: through torn writes, late jobs of aborted assemblies, commit errors and a crash-reopened shadow, the committed directory holds every block of its image. Writing through the path instead of the handle breaks it. |

## 4. Findings

- **Commit/abort outside the mutex** (`upload.rs:241`, `upload.rs:251`). Spec 4.3 and 8 say that commit removes the `Writing` and installs `.state` together. In the code, the rename or remove runs after the `Writing` has left the map, so a new admission can interleave.
- **Leaked `Writing`** (`upload.rs:114`, `upload.rs:138`). The insert happens before the fallible write.
- **Fetch single flight** (`fetch_dir.rs:38`, `fetch_dir.rs:75`). The sender is dropped and the waiter evicts unconditionally.
- **Not spent on a run**: every completed index read panics (`unimplemented!()`, `fetch_dir.rs:47`, `fetch_dir.rs:58`). With this code, no fetch ever produces an index.
- **Dry run not honoured** (`cleanup.rs:35`). `dry_cleanup()` selects only the log message.
- **Duplicate signatures** (`upload.rs:86`). A request listing a signature twice is stored with the duplicate. Spec 3 and 8 say the signatures are deduplicated.
- **Benign divergence, not spent on a run**: the spec says `InProgress` writes no `.new.state`. The code rewrites it with the merged signatures (`upload.rs:138`).

## 5. Not modelled, and why

- HTTP introspection, the CLI, and the crate root hold no state that the engine depends on. `Route::parse` is a string match on fixed paths; the handlers serialise snapshots of the tracking state and change nothing.
- The error taxonomy is only a type.
- Signature cryptography is abstracted to a set of verifying signatures.
- CBOR encoding round-trips by construction of the model (a `State` record).
- What a shadow reopened after a crash leaves in a committed image. A scratch check shows the crashed assembly's leftover slots reaching `<name>` if `commit.rs` renames without pruning. `commit.rs` is not in the tree, so this is recorded as a hazard (`public.rs:56`), not a finding.
- The index store write is one temporary-file-then-rename. It has no interaction that the other modules observe.
- Cleanup's race with a concurrent admission: `remove_state_file` is not in the tree, so it is not known whether it re-checks the `writing` map (hazard `cleanup.rs:84`).
- In `UploadStats`, a host answering one upload both ways is not modelled. Whether that can happen depends on the peer's admission and on the client's resend, neither of which is in the tree (hazard `upload.rs:81`).
- Reconciliation replacing a newer committed state with a peer's older one is not checked. `start_replace` ignores `old_image` and compares no timestamps, but spec 4.7 says the admission that completes last wins and spec 3 does not require monotone timestamps, so no source promises otherwise.
