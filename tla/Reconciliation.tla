--------------------------- MODULE Reconciliation ---------------------------
(***************************************************************************)
(* The reconciliation engine, src/daemon/tracking/reconciliation.rs        *)
(* start(), composed with the metadata service it feeds (Metadata).        *)
(*                                                                         *)
(* One base directory is reconciled; its subdirectories are the paths of   *)
(* Metadata.  A peer's BaseDirState is a function from subdir name to      *)
(* [image, signatures]; Hash::for_object is deterministic, so a hash is    *)
(* modelled by the state it digests.                                       *)
(*                                                                         *)
(* A task is the future spawned by start(): the loop over candidate peers  *)
(* (phase "ask"), the base-dir scan on the pool ("scan"), and the map step *)
(* that spawns one replace_dir / append_dir per remote subdir ("apply").   *)
(* The spawned admissions run later on the pool: they sit in `calls`      *)
(* until Serve runs Metadata's start_replace / start_append on them.       *)
(*                                                                         *)
(* Registration of (path, hash) in `reconciling` on an announcement is     *)
(* done in tracking/mod.rs, which is not in the source tree: it follows    *)
(* spec 4.7 step 1 (seed the set with the announcing peer, and add the     *)
(* peer to the set of a pair already being reconciled).                    *)
(***************************************************************************)
EXTENDS Naturals, Sequences, SequencesExt, Bags

CONSTANTS
    VPaths, AppendOnly, Images, Sigs, GoodSigs, Timestamps,
    MaxReqSigs, MaxRequests, MaxWriteFailures,
    NoImage, NoWriting, NoFile, NoHolder,
    Peers,           \* peers of the gossip layer (addr, machine_id)
    RemoteStates,    \* BaseDirStates the peers may hold for the base dir
    MaxAnnounces,    \* bound: announcements received in one behaviour
    NotReconciling   \* no entry for the pair in `reconciling`

VARIABLES
    writing, stateFile, newStateFile, holder, tracked, disk, metaJobs,
    requests, writeFailures,
    peerState,       \* Peers -> the BaseDirState the peer holds now
    reconciling,     \* RemoteStates (the hash) -> candidate peers, or NotReconciling
    tasks,           \* running reconciliation futures
    calls,           \* bag of spawned replace_dir / append_dir calls
    announces        \* announcements received so far

metaVars == <<writing, stateFile, newStateFile, holder, tracked, disk,
              metaJobs, requests, writeFailures>>
reconVars == <<peerState, reconciling, tasks, calls, announces>>
vars == <<metaVars, reconVars>>

Meta == INSTANCE Metadata

Task == [hash : RemoteStates, peer : Peers,
         phase : {"ask", "scan", "apply"}, local : SUBSET VPaths]
Call == [kind : {"append", "replace"}, path : VPaths, image : Images,
         timestamp : Timestamps, signature : Sigs]

-----------------------------------------------------------------------------
Init ==
    /\ Meta!Init
    /\ peerState \in [Peers -> RemoteStates]
    /\ reconciling = [h \in RemoteStates |-> NotReconciling]
    /\ tasks = {}
    /\ calls = EmptyBag
    /\ announces = 0

\* A peer admits other images and so holds another BaseDirState.
PeerUpdates(p, s) ==
    /\ s # peerState[p]
    /\ peerState' = [peerState EXCEPT ![p] = s]
    /\ UNCHANGED <<metaVars, reconciling, tasks, calls, announces>>

\* tracking/mod.rs (spec 4.7 step 1): a peer announces the hash it holds;
\* a new pair is registered with the peer as candidate and start() runs,
\* a pair already registered only gains a candidate.
Announce(p) ==
    LET h == peerState[p] IN
    /\ announces < MaxAnnounces
    /\ announces' = announces + 1
    /\ IF reconciling[h] = NotReconciling
       THEN /\ reconciling' = [reconciling EXCEPT ![h] = {p}]
            /\ tasks' = tasks \union
                  {[hash |-> h, peer |-> p, phase |-> "ask", local |-> {}]}
       ELSE /\ reconciling' = [reconciling EXCEPT ![h] = @ \union {p}]
            /\ UNCHANGED tasks
    /\ UNCHANGED <<metaVars, peerState, calls>>

\* The final .then: the pair leaves `reconciling` whether the task
\* succeeded or gave up.
Finish(t) ==
    /\ tasks' = tasks \ {t}
    /\ reconciling' = [reconciling EXCEPT ![t.hash] = NotReconciling]

\* Mutant: the candidate set is only read (get instead of get_mut with the
\* two removes of lines 68 and 70).
AskReadOnly(t) ==
    /\ t \in tasks /\ t.phase = "ask"
    /\ \/ /\ peerState[t.peer] = t.hash
          /\ tasks' = (tasks \ {t}) \union {[t EXCEPT !.phase = "scan"]}
          /\ UNCHANGED reconciling
       \/ \/ \E q \in reconciling[t.hash] :
                /\ tasks' = (tasks \ {t}) \union {[t EXCEPT !.peer = q]}
                /\ UNCHANGED reconciling
          \/ reconciling[t.hash] = {} /\ Finish(t)
    /\ UNCHANGED <<metaVars, peerState, calls, announces>>

\* One turn of loop_fn: GetBaseDir to the current candidate.  A reply whose
\* hash matches breaks out of the loop; an error (always possible) or a
\* mismatching reply drops the candidate, takes any other one out of the
\* set and retries it, or gives up when the set is empty.
Ask(t) ==
    /\ t \in tasks /\ t.phase = "ask"
    /\ \/ /\ peerState[t.peer] = t.hash
          /\ tasks' = (tasks \ {t}) \union {[t EXCEPT !.phase = "scan"]}
          /\ UNCHANGED reconciling
       \/ LET rest == reconciling[t.hash] \ {t.peer} IN
          \/ \E q \in rest :
                /\ reconciling' = [reconciling EXCEPT ![t.hash] = rest \ {q}]
                /\ tasks' = (tasks \ {t}) \union {[t EXCEPT !.peer = q]}
          \/ rest = {} /\ Finish(t)
    /\ UNCHANGED <<metaVars, peerState, calls, announces>>

\* base_dir::scan on the pool: the subdirs that have a `.state` now.  A
\* scan error ends the task.
Scan(t) ==
    /\ t \in tasks /\ t.phase = "scan"
    /\ \/ /\ tasks' = (tasks \ {t}) \union
                 {[t EXCEPT !.phase = "apply",
                            !.local = {v \in VPaths : stateFile[v] # NoFile}]}
          /\ UNCHANGED reconciling
       \/ Finish(t)
    /\ UNCHANGED <<metaVars, peerState, calls, announces>>

\* The call spawned for remote subdir v: the last (highest) signature is
\* popped; replace_dir if the scan saw v locally, append_dir otherwise.
ReconCall(t, v) ==
    LET sig == Last(t.hash[v].signatures) IN
    [kind |-> IF v \in t.local THEN "replace" ELSE "append",
     path |-> v, image |-> t.hash[v].image,
     timestamp |-> sig[1], signature |-> sig[2]]

\* The map step: spawn a call for every remote subdir that has a
\* signature (the others are skipped with a warning), then Finish.
Apply(t) ==
    /\ t \in tasks /\ t.phase = "apply"
    /\ calls' = calls (+) SetToBag({ReconCall(t, v) :
                    v \in {n \in DOMAIN t.hash : t.hash[n].signatures # <<>>}})
    /\ Finish(t)
    /\ UNCHANGED <<metaVars, peerState, announces>>

\* A spawned call runs start_replace / start_append with the single
\* signature; on Accepted(New) its continuation starts fetch_dir, which
\* Metadata's WriteHeld records in `tracked`.
Serve(c) ==
    /\ BagIn(c, calls)
    /\ calls' = calls (-) SetToBag({c})
    /\ IF c.kind = "replace"
       THEN Meta!StartReplace(c.path, c.image, c.timestamp, <<c.signature>>)
       ELSE Meta!StartAppend(c.path, c.image, c.timestamp, <<c.signature>>)
    /\ UNCHANGED <<peerState, reconciling, tasks, announces>>

\* The metadata service and the tracker, as in Metadata.
MetaStep ==
    /\ \/ Meta!WriteHeld
       \/ Meta!WriteHeldFails
       \/ \E v \in VPaths :
             \/ Meta!TrackerCommit(v)
             \/ Meta!TrackerAbort(v)
             \/ Meta!CommitDir(v)
             \/ Meta!AbortDir(v)
    /\ UNCHANGED reconVars

Next ==
    \/ \E p \in Peers, s \in RemoteStates : PeerUpdates(p, s)
    \/ \E p \in Peers : Announce(p)
    \/ \E t \in tasks : Ask(t) \/ Scan(t) \/ Apply(t)
    \/ \E c \in BagToSet(calls) : Serve(c)
    \/ MetaStep

\* Every step of a task is a ready future on the event loop or a pool job;
\* a GetBaseDir request ends with a reply or an error.
Fairness ==
    \A h \in RemoteStates :
        WF_vars(\E t \in tasks : t.hash = h /\ (Ask(t) \/ Scan(t) \/ Apply(t)))

Spec == Init /\ [][Next]_vars /\ Fairness

-----------------------------------------------------------------------------
\* Every registered pair is eventually released: the candidate loop
\* terminates although announcements keep adding candidates to the set
\* it draws from.
ReconcileTerminates ==
    \A h \in RemoteStates :
        reconciling[h] # NotReconciling ~> reconciling[h] = NotReconciling
=============================================================================
