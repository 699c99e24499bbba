------------------------------ MODULE FetchDir ------------------------------
(***************************************************************************)
(* The per-image fetch coordinator, src/daemon/tracking/fetch_dir.rs      *)
(* start().  It runs on the single event loop, so each handler below is   *)
(* atomic with respect to the others.                                     *)
(*                                                                         *)
(* start() looks the image up in the weak `images` cache, then in          *)
(* `image_futures`; if neither has it, it creates a oneshot channel,       *)
(* inserts the shared receiver, spawns the index read and in every case    *)
(* spawns a waiter on the shared future.  The sender `tx` is never moved   *)
(* into the read task: it is dropped when the `else` block ends, so the    *)
(* shared future can only resolve to Err(Canceled).  Hence the waiter's Ok *)
(* arm, the only writer of `images`, never runs, `images` stays empty and  *)
(* the cached branch is never taken; the model leaves both out.  Both arms *)
(* of the read task end in unimplemented!(), a panic that unwinds through  *)
(* the event loop and ends the daemon.                                     *)
(***************************************************************************)
EXTENDS Naturals, FiniteSets

CONSTANTS
    Images,       \* image ids
    MaxFetches,   \* bound: calls of start() in one behaviour
    NoFuture

VARIABLES
    imageFutures, \* Images -> id of the shared future in image_futures
    waiters,      \* spawned waiters: <<call, image, future>>
    readers,      \* spawned index reads not yet completed: <<image, future>>
    crashed,      \* the event loop has panicked
    fetches       \* calls of start() so far; also names futures and waiters

vars == <<imageFutures, waiters, readers, crashed, fetches>>

Futures == 1..MaxFetches

Init ==
    /\ imageFutures = [i \in Images |-> NoFuture]
    /\ waiters = {}
    /\ readers = {}
    /\ crashed = FALSE
    /\ fetches = 0

\* start(): join the future already in image_futures, or insert a new one
\* and spawn its read; either way spawn a waiter on the future.
Start(img) ==
    LET call == fetches + 1 IN
    /\ ~crashed
    /\ fetches < MaxFetches
    /\ fetches' = call
    /\ \/ /\ imageFutures[img] # NoFuture
          /\ waiters' = waiters \union {<<call, img, imageFutures[img]>>}
          /\ UNCHANGED <<imageFutures, readers>>
       \/ /\ imageFutures[img] = NoFuture
          /\ imageFutures' = [imageFutures EXCEPT ![img] = call]
          /\ readers' = readers \union {<<img, call>>}
          /\ waiters' = waiters \union {<<call, img, call>>}
    /\ UNCHANGED crashed

\* Mutant: the waiter logs the error but leaves the entry in place.
WaiterFailsKeeps(w) ==
    /\ ~crashed
    /\ w \in waiters
    /\ waiters' = waiters \ {w}
    /\ UNCHANGED <<imageFutures, readers, crashed, fetches>>

\* A waiter sees Err(Canceled) and removes image_futures[img], whichever
\* future the entry holds by now.
WaiterFails(w) ==
    /\ ~crashed
    /\ w \in waiters
    /\ waiters' = waiters \ {w}
    /\ imageFutures' = [imageFutures EXCEPT ![w[2]] = NoFuture]
    /\ UNCHANGED <<readers, crashed, fetches>>

\* meta.read_index completes (found, not found or failed): every arm of the
\* continuation is unimplemented!().
ReadCompletes(r) ==
    /\ ~crashed
    /\ r \in readers
    /\ readers' = readers \ {r}
    /\ crashed' = TRUE
    /\ UNCHANGED <<imageFutures, waiters, fetches>>

Next ==
    \/ \E img \in Images : Start(img)
    \/ \E w \in waiters : WaiterFails(w)
    \/ \E r \in readers : ReadCompletes(r)

\* A waiter's future is ready at once (its sender is gone), so the event
\* loop eventually runs it.  Nothing is assumed of the reads.
Spec == Init /\ [][Next]_vars
            /\ \A c \in Futures, img \in Images, f \in Futures :
                 WF_vars(WaiterFails(<<c, img, f>>))

-----------------------------------------------------------------------------
\* Spec 8: for every image id at most one index resolution is active.
SingleFlight ==
    \A img \in Images : Cardinality({r \in readers : r[1] = img}) <= 1

\* Spec 4.6: on an error the entry is evicted from image_futures so that a
\* later fetch retries - unless the daemon has gone down first.
EvictedOnError ==
    \A img \in Images :
        imageFutures[img] # NoFuture ~> (imageFutures[img] = NoFuture \/ crashed)

=============================================================================
