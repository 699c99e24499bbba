----------------------------- MODULE UploadStats -----------------------------
(***************************************************************************)
(* The upload client's bookkeeping, src/cluster/upload.rs Stats.           *)
(*                                                                         *)
(* Every method takes the RwLock for its whole body, so each is one atomic *)
(* step; total_responses is an atomic bumped inside add_response while the *)
(* write lock is held.  The peers' messages reach the client reordered and *)
(* possibly more than once (a reconnect re-sends the request, a notice is  *)
(* gossiped along several routes).  A peer answers a given upload the same *)
(* way every time: its admission of one request is deterministic up to     *)
(* New / InProgress / AlreadyDone, all of which are `accepted`.            *)
(***************************************************************************)
EXTENDS Naturals, FiniteSets

CONSTANTS
    Hosts,          \* peers the upload is sent to (addr = machine_id = hostname)
    Answer,         \* Hosts -> "accept" or a reject reason
    Reasons,        \* reject / abort reasons
    MaxDeliveries,  \* bound: messages handled in one behaviour
    NoReason, NoVerdict

VARIABLES
    acceptedIps, doneIps, doneIds, abortedIps, abortedIds, rejectedIps,
    totalResponses,
    handled,        \* messages handled so far
    verdict         \* first Some(..) returned by check(), or NoVerdict

vars == <<acceptedIps, doneIps, doneIds, abortedIps, abortedIds, rejectedIps,
          totalResponses, handled, verdict>>

\* HashMap<K, String> as a function on the keys present.
Insert(m, k, r) == [x \in DOMAIN m \union {k} |-> IF x = k THEN r ELSE m[x]]

Init ==
    /\ acceptedIps = {} /\ doneIps = {} /\ doneIds = {}
    /\ abortedIps = [h \in {} |-> NoReason]
    /\ abortedIds = [h \in {} |-> NoReason]
    /\ rejectedIps = [h \in {} |-> NoReason]
    /\ totalResponses = 0
    /\ handled = 0
    /\ verdict = NoVerdict

Handle == handled < MaxDeliveries /\ handled' = handled + 1

\* Mutant: the accepted branch counts every delivery.
AddResponseRecount(h) ==
    /\ Handle
    /\ IF Answer[h] = "accept"
       THEN /\ acceptedIps' = acceptedIps \union {h}
            /\ totalResponses' = totalResponses + 1
            /\ UNCHANGED rejectedIps
       ELSE /\ rejectedIps' = Insert(rejectedIps, h, Answer[h])
            /\ totalResponses' = IF h \in DOMAIN rejectedIps
                                 THEN totalResponses ELSE totalResponses + 1
            /\ UNCHANGED acceptedIps
    /\ UNCHANGED <<doneIps, doneIds, abortedIps, abortedIds, verdict>>

\* add_response: record the host as accepted or rejected; total_responses
\* is bumped only when the set or map gains the host.
AddResponse(h) ==
    /\ Handle
    /\ IF Answer[h] = "accept"
       THEN /\ acceptedIps' = acceptedIps \union {h}
            /\ totalResponses' = IF h \in acceptedIps
                                 THEN totalResponses ELSE totalResponses + 1
            /\ UNCHANGED rejectedIps
       ELSE /\ rejectedIps' = Insert(rejectedIps, h, Answer[h])
            /\ totalResponses' = IF h \in DOMAIN rejectedIps
                                 THEN totalResponses ELSE totalResponses + 1
            /\ UNCHANGED acceptedIps
    /\ UNCHANGED <<doneIps, doneIds, abortedIps, abortedIds, verdict>>

\* received_image: a host that accepted reports the image done, directly
\* (done_ips) or forwarded by another peer (machine id only).
ReceivedImage(h, forwarded) ==
    /\ Handle
    /\ Answer[h] = "accept"
    /\ doneIps' = IF forwarded THEN doneIps ELSE doneIps \union {h}
    /\ doneIds' = doneIds \union {h}
    /\ UNCHANGED <<acceptedIps, abortedIps, abortedIds, rejectedIps,
                   totalResponses, verdict>>

\* aborted_image: a host that accepted gave the image up.
AbortedImage(h, forwarded, reason) ==
    /\ Handle
    /\ Answer[h] = "accept"
    /\ abortedIps' = IF forwarded THEN abortedIps
                     ELSE Insert(abortedIps, h, reason)
    /\ abortedIds' = Insert(abortedIds, h, reason)
    /\ UNCHANGED <<acceptedIps, doneIps, doneIds, rejectedIps,
                   totalResponses, verdict>>

\* check(): Some(Ok) or Some(Err(Rejected)) once every host that reported
\* done directly has accepted, else None; the upload resolves on the first
\* Some.
Check ==
    /\ verdict = NoVerdict
    /\ doneIps \subseteq acceptedIps
    /\ verdict' = IF DOMAIN rejectedIps # {} THEN "Rejected" ELSE "Ok"
    /\ UNCHANGED <<acceptedIps, doneIps, doneIds, abortedIps, abortedIds,
                   rejectedIps, totalResponses, handled>>

Next ==
    \/ \E h \in Hosts : AddResponse(h)
    \/ \E h \in Hosts, f \in BOOLEAN : ReceivedImage(h, f)
    \/ \E h \in Hosts, f \in BOOLEAN, r \in Reasons : AbortedImage(h, f, r)
    \/ Check

Spec == Init /\ [][Next]_vars

-----------------------------------------------------------------------------
TypeOK ==
    /\ acceptedIps \subseteq Hosts /\ doneIps \subseteq Hosts
    /\ doneIds \subseteq Hosts
    /\ DOMAIN abortedIps \subseteq Hosts /\ DOMAIN abortedIds \subseteq Hosts
    /\ DOMAIN rejectedIps \subseteq Hosts
    /\ totalResponses \in 0..Cardinality(Hosts)
    /\ handled \in 0..MaxDeliveries
    /\ verdict \in {NoVerdict, "Ok", "Rejected"}
=============================================================================
