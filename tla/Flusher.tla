------------------------------ MODULE Flusher ------------------------------
(***************************************************************************)
(* The write-behind path from Redis to SQL: usage counters and the audit   *)
(* buffer (redis_service.py), the background flusher of each gateway       *)
(* process (usage_flusher.py), its shutdown (main.py) and the chat handler *)
(* that fills both (chat.py).                                              *)
(*                                                                         *)
(* The handlers and the flusher of a process run on one event loop, and    *)
(* the flusher suspends only in its sleeps, so no handler of that process  *)
(* runs between two commands of a flush.  Other processes, the admin flush *)
(* (a worker thread), Redis and SQL errors and crashes do come in between: *)
(* each Redis command and each SQL commit is a step.                       *)
(***************************************************************************)
EXTENDS Naturals, Sequences, FiniteSets, SequencesExt

CONSTANTS
    Processes,  \* gateway processes, each with its flusher
    Keys,       \* the usage:{user}:{date} keys in play
    BatchSize,  \* batch_size of drain_audit_buffer (500)
    MaxCount,   \* bound: requests counted per key
    MaxEntries, \* bound: audit entries buffered
    MaxFaults   \* bound: errors, crashes and admin flushes

ASSUME FlusherAssumption ==
    /\ BatchSize \in Nat \ {0}
    /\ MaxCount \in Nat /\ MaxEntries \in Nat /\ MaxFaults \in Nat

VARIABLES
    usage,      \* request_count of each usage hash, 0 when it does not exist
    buffer,     \* the list audit:buffer, oldest entry first
    sql,        \* request_count of each UsageRecord row, 0 without a row
    rows,       \* the AuditLog table, in insertion order
    pc,         \* where the flusher of each process is
    todo,       \* usage keys it has scanned and not read yet
    tx,         \* counters pending in its SQL session, 0 for none
    batch,      \* audit entries it holds in memory
    final,      \* it runs the final flush of a shutdown
    sent,       \* entries buffered so far; entries are numbered from 1
    faults,     \* faults so far
    wiped       \* an admin has flushed Redis

redis == <<usage, buffer>>
tables == <<sql, rows>>
flusher == <<pc, todo, tx, batch, final>>
vars == <<redis, tables, flusher, sent, faults, wiped>>

NoCounters == [k \in Keys |-> 0]
Entries == 1 .. MaxEntries
Flushing == {"scan", "read", "lrange", "ltrim", "insert"}
Idle == {"sleep", "backoff"}
Off == {"stopped", "down"}

Init ==
    /\ usage = NoCounters /\ buffer = <<>>
    /\ sql = NoCounters /\ rows = <<>>
    /\ pc = [p \in Processes |-> "sleep"]
    /\ todo = [p \in Processes |-> {}]
    /\ tx = [p \in Processes |-> NoCounters]
    /\ batch = [p \in Processes |-> <<>>]
    /\ final = [p \in Processes |-> FALSE]
    /\ sent = 0 /\ faults = 0 /\ wiped = FALSE

Goto(p, label) == pc' = [pc EXCEPT ![p] = label]
Holds(p, entries) == batch' = [batch EXCEPT ![p] = entries]
Fault == faults < MaxFaults /\ faults' = faults + 1

-----------------------------------------------------------------------------
(* The chat handler, between two awaits: it runs while the flusher sleeps. *)

Count(k) == usage[k] < MaxCount /\ usage' = [usage EXCEPT ![k] = @ + 1]

\* buffer_audit_log: RPUSH
Push ==
    /\ sent < MaxEntries
    /\ sent' = sent + 1
    /\ buffer' = Append(buffer, sent + 1)

\* _record_usage, then _buffer_audit.
Serve(p, k) ==
    /\ pc[p] \in Idle
    /\ Count(k) /\ Push
    /\ UNCHANGED <<tables, flusher, faults, wiped>>

\* Inference failed: an entry with status 400 and no usage.
ServeError(p) ==
    /\ pc[p] \in Idle
    /\ Push
    /\ UNCHANGED <<usage, tables, flusher, faults, wiped>>

\* Redis fails after the usage pipeline: the request is counted, not audited.
ServeHalf(p, k) ==
    /\ pc[p] \in Idle
    /\ Fault /\ Count(k)
    /\ UNCHANGED <<buffer, tables, flusher, sent, wiped>>

-----------------------------------------------------------------------------
(* usage_flush_loop *)

\* sleep(60) is over.
Wake(p) ==
    /\ pc[p] = "sleep"
    /\ Goto(p, "scan")
    /\ UNCHANGED <<redis, tables, todo, tx, batch, final, sent, faults, wiped>>

\* A flush is over: back to the loop, or out of it after the final one.
Finish(p) ==
    /\ Goto(p, IF final[p] THEN "stopped" ELSE "sleep")
    /\ Holds(p, <<>>)

\* Mutant of Escape: no handler, the exception ends the flusher task.
EscapeEndsTask(p) ==
    /\ Goto(p, "ended")
    /\ Holds(p, <<>>)

\* An exception escapes the flush: logged, then sleep(5); it ends the final one.
Escape(p) ==
    /\ Goto(p, IF final[p] THEN "stopped" ELSE "backoff")
    /\ Holds(p, <<>>)

\* sleep(5) is over.
Resume(p) ==
    /\ pc[p] = "backoff"
    /\ Goto(p, "sleep")
    /\ UNCHANGED <<redis, tables, todo, tx, batch, final, sent, faults, wiped>>

(* flush_usage_to_sql *)

\* get_all_usage_keys, outside the try block.
Scan(p) ==
    /\ pc[p] = "scan"
    /\ todo' = [todo EXCEPT ![p] = {k \in Keys : usage[k] > 0}]
    /\ tx' = [tx EXCEPT ![p] = NoCounters]
    /\ Goto(p, "read")
    /\ UNCHANGED <<redis, tables, batch, final, sent, faults, wiped>>

\* Mutant of Read: counters are consumed when they are read.
ReadConsumes(p) ==
    /\ pc[p] = "read"
    /\ \E k \in todo[p] :
          /\ todo' = [todo EXCEPT ![p] = @ \ {k}]
          /\ tx' = [tx EXCEPT ![p][k] = usage[k]]
          /\ usage' = [usage EXCEPT ![k] = 0]
    /\ UNCHANGED <<buffer, tables, pc, batch, final, sent, faults, wiped>>

\* get_usage of one key, and the upsert pending in the session; a counter that
\* has gone since the scan is skipped.
Read(p) ==
    /\ pc[p] = "read"
    /\ \E k \in todo[p] :
          /\ todo' = [todo EXCEPT ![p] = @ \ {k}]
          /\ tx' = [tx EXCEPT ![p][k] = usage[k]]
    /\ UNCHANGED <<redis, tables, pc, batch, final, sent, faults, wiped>>

\* Mutant of Commit: rows are inserted and those that exist are not updated.
CommitInsertsOnly(p) ==
    /\ pc[p] = "read" /\ todo[p] = {}
    /\ sql' = [k \in Keys |-> IF sql[k] = 0 THEN tx[p][k] ELSE sql[k]]
    /\ Goto(p, "lrange")
    /\ UNCHANGED <<redis, rows, todo, tx, batch, final, sent, faults, wiped>>

\* db.commit(): rows are set to the counters that were read.
Commit(p) ==
    /\ pc[p] = "read" /\ todo[p] = {}
    /\ sql' = [k \in Keys |-> IF tx[p][k] > 0 THEN tx[p][k] ELSE sql[k]]
    /\ Goto(p, "lrange")
    /\ UNCHANGED <<redis, rows, todo, tx, batch, final, sent, faults, wiped>>

\* A Redis or SQL error in the try block: rollback, and on to the audit flush.
Rollback(p) ==
    /\ pc[p] = "read"
    /\ Fault
    /\ todo' = [todo EXCEPT ![p] = {}]
    /\ tx' = [tx EXCEPT ![p] = NoCounters]
    /\ Goto(p, "lrange")
    /\ UNCHANGED <<redis, tables, batch, final, sent, wiped>>

(* flush_audit_to_sql *)

\* drain_audit_buffer: LRANGE 0 batch_size-1; nothing to do for an empty list.
Lrange(p) ==
    /\ pc[p] = "lrange"
    /\ IF buffer = <<>>
       THEN Finish(p)
       ELSE /\ Holds(p, SubSeq(buffer, 1,
                           IF Len(buffer) < BatchSize THEN Len(buffer) ELSE BatchSize))
            /\ Goto(p, "ltrim")
    /\ UNCHANGED <<redis, tables, todo, tx, final, sent, faults, wiped>>

\* Mutants of Ltrim: trimming one entry too many, and one too few.
LtrimOffByOne(p) ==
    /\ pc[p] = "ltrim"
    /\ buffer' = SubSeq(buffer, Len(batch[p]) + 2, Len(buffer))
    /\ Goto(p, "insert")
    /\ UNCHANGED <<usage, tables, todo, tx, batch, final, sent, faults, wiped>>

LtrimShort(p) ==
    /\ pc[p] = "ltrim"
    /\ buffer' = SubSeq(buffer, Len(batch[p]), Len(buffer))
    /\ Goto(p, "insert")
    /\ UNCHANGED <<usage, tables, todo, tx, batch, final, sent, faults, wiped>>

\* LTRIM len(raw_entries) -1
Ltrim(p) ==
    /\ pc[p] = "ltrim"
    /\ buffer' = SubSeq(buffer, Len(batch[p]) + 1, Len(buffer))
    /\ Goto(p, "insert")
    /\ UNCHANGED <<usage, tables, todo, tx, batch, final, sent, faults, wiped>>

\* The bulk INSERT commits.
Insert(p) ==
    /\ pc[p] = "insert"
    /\ rows' = rows \o batch[p]
    /\ Finish(p)
    /\ UNCHANGED <<redis, sql, todo, tx, final, sent, faults, wiped>>

\* The INSERT fails: rollback, logged, and the drained entries are gone.
InsertFails(p) ==
    /\ pc[p] = "insert"
    /\ Fault
    /\ Finish(p)
    /\ UNCHANGED <<redis, tables, todo, tx, final, sent, wiped>>

\* A Redis error outside the try blocks.  An LTRIM that raises may have run.
RedisFails(p) ==
    /\ pc[p] \in {"scan", "lrange", "ltrim"}
    /\ Fault
    /\ \/ UNCHANGED buffer
       \/ /\ pc[p] = "ltrim"
          /\ buffer' = SubSeq(buffer, Len(batch[p]) + 1, Len(buffer))
    /\ Escape(p)
    /\ UNCHANGED <<usage, tables, todo, tx, final, sent, wiped>>

-----------------------------------------------------------------------------
(* Shutdown, restart, and what happens to the process and to Redis. *)

\* Mutant of Cancel: the CancelledError ends the task in either sleep.
CancelEndsTask(p) ==
    /\ pc[p] \in Idle
    /\ Goto(p, "stopped")
    /\ UNCHANGED <<redis, tables, todo, tx, batch, final, sent, faults, wiped>>

\* lifespan cancels the flusher task.  In sleep(60) the CancelledError starts the
\* final flush; in the sleep(5) of the error handler it ends the task.
Cancel(p) ==
    /\ \/ /\ pc[p] = "sleep"
          /\ final' = [final EXCEPT ![p] = TRUE]
          /\ Goto(p, "scan")
       \/ /\ pc[p] = "backoff"
          /\ Goto(p, "stopped")
          /\ UNCHANGED final
    /\ UNCHANGED <<redis, tables, todo, tx, batch, sent, faults, wiped>>

\* The process dies; what it held in memory is lost.
Crash(p) ==
    /\ pc[p] \notin Off
    /\ Fault
    /\ Goto(p, "down")
    /\ Holds(p, <<>>)
    /\ todo' = [todo EXCEPT ![p] = {}]
    /\ tx' = [tx EXCEPT ![p] = NoCounters]
    /\ UNCHANGED <<redis, tables, final, sent, wiped>>

\* lifespan starts a new flusher task.
Start(p) ==
    /\ pc[p] \in Off
    /\ Goto(p, "sleep")
    /\ final' = [final EXCEPT ![p] = FALSE]
    /\ UNCHANGED <<redis, tables, todo, tx, batch, sent, faults, wiped>>

\* DELETE /admin/redis/flush, on a worker thread of a running process.
FlushAll ==
    /\ \E p \in Processes : pc[p] \notin Off
    /\ Fault
    /\ usage' = NoCounters
    /\ buffer' = <<>>
    /\ wiped' = TRUE
    /\ UNCHANGED <<tables, flusher, sent>>

\* What the flusher does when nothing fails.
Progress(p) ==
    \/ Wake(p) \/ Resume(p)
    \/ Scan(p) \/ Read(p) \/ Commit(p)
    \/ Lrange(p) \/ Ltrim(p) \/ Insert(p)

Next ==
    \/ \E p \in Processes :
          \/ \E k \in Keys : Serve(p, k) \/ ServeHalf(p, k)
          \/ ServeError(p)
          \/ Progress(p)
          \/ Rollback(p) \/ InsertFails(p) \/ RedisFails(p)
          \/ Cancel(p) \/ Crash(p) \/ Start(p)
    \/ FlushAll

Spec == Init /\ [][Next]_vars

\* The event loop runs the flusher, its timers fire, and docker-compose restarts
\* a gateway that died (but not one that was stopped).
Fairness ==
    \A p \in Processes :
        /\ WF_vars(Progress(p))
        /\ WF_vars(pc[p] = "down" /\ Start(p))

FairSpec == Spec /\ Fairness

-----------------------------------------------------------------------------
\* Types, and when a flusher holds a batch, scanned keys or a final flush.
TypeOK ==
    /\ usage \in [Keys -> 0 .. MaxCount] /\ sql \in [Keys -> 0 .. MaxCount]
    /\ buffer \in Seq(Entries) /\ rows \in Seq(Entries)
    /\ pc \in [Processes -> Flushing \cup Idle \cup Off]
    /\ todo \in [Processes -> SUBSET Keys]
    /\ tx \in [Processes -> [Keys -> 0 .. MaxCount]]
    /\ batch \in [Processes -> Seq(Entries)]
    /\ final \in [Processes -> BOOLEAN]
    /\ sent \in 0 .. MaxEntries /\ faults \in 0 .. MaxFaults /\ wiped \in BOOLEAN
    /\ \A p \in Processes :
          /\ Len(batch[p]) <= BatchSize
          /\ batch[p] # <<>> <=> pc[p] \in {"ltrim", "insert"}
          /\ pc[p] # "read" => todo[p] = {}
          /\ final[p] => pc[p] \notin Idle

\* The docstring of drain_audit_buffer: "entries are consumed exactly once even if
\* multiple flusher instances run concurrently".  Two flushers whose LRANGE and
\* LTRIM interleave insert one batch twice and trim another unread.
ConsumedOnce ==
    faults = 0 /\ (\A p \in Processes : pc[p] = "sleep") =>
        \A e \in 1 .. sent : Cardinality({i \in DOMAIN (rows \o buffer) :
                                             (rows \o buffer)[i] = e}) = 1

-----------------------------------------------------------------------------
(* Sentences of the repository that the code does not keep: README, section 3 *)

\* The header of usage_flusher.py: "On shutdown, a final flush is triggered".
\* A shutdown during the sleep(5) that follows an error triggers none.
StopsAfterFinalFlush ==
    [][\A p \in Processes : pc'[p] = "stopped" /\ pc[p] # "stopped" => final[p]]_vars
=============================================================================
