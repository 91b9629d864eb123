---------------------------- MODULE SoloFlusher ----------------------------
(***************************************************************************)
(* Flusher with the one gateway process that the Dockerfile starts: what   *)
(* the write-behind path guarantees when no second flusher drains the same *)
(* buffer.                                                                 *)
(***************************************************************************)
EXTENDS Flusher

CONSTANT Gateway
ASSUME SoloAssumption == Processes = {Gateway}

\* The entries still to be recorded: those in Redis, after those the flusher has
\* removed from Redis.  Between LRANGE and LTRIM an entry is in both places.
Pending ==
    IF pc[Gateway] = "ltrim" /\ buffer # <<>> THEN buffer ELSE batch[Gateway] \o buffer

\* The audit pipeline implements AuditTrail: whatever fails, and wherever, no
\* entry is recorded twice or out of order.
Trail == INSTANCE AuditTrail WITH pending <- Pending, recorded <- rows
AuditTrailSpec == Trail!Spec

\* An error or a crash costs at most the one batch in the flusher's hands.
LossBound ==
    ~wiped => sent <= Len(rows) + Len(Pending) + BatchSize * faults

\* The SQL usage record of a user and day never decreases, unless an admin
\* flushed the Redis counters the flusher copies.
UsageMonotone ==
    [][~wiped => \A k \in Keys : sql[k] <= sql'[k]]_vars

Stopped == pc[Gateway] = "stopped"

\* As long as nothing has failed, a gateway that is stopped leaves no count behind:
\* the flush that the cancellation starts copies what was counted since the last
\* one.  (After an error the cancellation can fall in the backoff, which ends the
\* task at once: StopsAfterFinalFlush.)
StopLeavesNoCount == Stopped /\ faults = 0 => sql = usage

\* Every count reaches SQL, unless the gateway is stopped or Redis was flushed.
UsageReachesSQL ==
    \A k \in Keys : \A n \in 1 .. MaxCount :
        usage[k] = n ~> sql[k] >= n \/ wiped \/ Stopped

\* Every buffered entry leaves Redis, however far beyond the batch size the
\* buffer has grown, unless the gateway is stopped.
BufferDrains ==
    \A e \in Entries : e \in ToSet(buffer) ~> e \notin ToSet(buffer) \/ Stopped
=============================================================================
