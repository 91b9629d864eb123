--------------------------- MODULE FlusherProofs ---------------------------
(***************************************************************************)
(* Proofs about Flusher and SoloFlusher, for every set of usage keys, every *)
(* batch size and every bound on counts, entries and faults.               *)
(***************************************************************************)
EXTENDS SoloFlusher, SequenceTheorems, TLAPS

Labels == Flushing \cup Idle \cup Off

-----------------------------------------------------------------------------
(* Sequences of entries *)

\* What is left of a list after its first n elements.
LEMMA Rest ==
    ASSUME NEW s \in Seq(Entries), NEW n \in Nat
    PROVE  /\ SubSeq(s, n + 1, Len(s)) \in Seq(Entries)
           /\ n <= Len(s) => Len(SubSeq(s, n + 1, Len(s))) = Len(s) - n
  <1>1. Len(s) \in Nat /\ \A i \in n + 1 .. Len(s) : s[i] \in Entries
      BY LenProperties, ElementOfSeq
  <1>2. /\ SubSeq(s, n + 1, Len(s)) \in Seq(Entries)
        /\ Len(SubSeq(s, n + 1, Len(s))) = IF n + 1 <= Len(s) THEN Len(s) - (n + 1) + 1 ELSE 0
      BY <1>1, SubSeqProperties
  <1>3. QED
      BY <1>1, <1>2

\* What LRANGE returns of a list that is not empty.
LEMMA First ==
    ASSUME NEW s \in Seq(Entries), s # <<>>,
           NEW b, b = SubSeq(s, 1, IF Len(s) < BatchSize THEN Len(s) ELSE BatchSize)
    PROVE  /\ b \in Seq(Entries) /\ b # <<>>
           /\ Len(b) \in Nat /\ Len(b) <= BatchSize /\ Len(b) <= Len(s)
           /\ b = SubSeq(s, 1, Len(b))
  <1>1. BatchSize \in Nat \ {0}
      BY FlusherAssumption
  <1>2. Len(s) \in Nat \ {0} /\ \A i \in 1 .. Len(s) : s[i] \in Entries
      BY EmptySeq, ElementOfSeq
  <1> DEFINE n == IF Len(s) < BatchSize THEN Len(s) ELSE BatchSize
  <1>3. n \in Nat \ {0} /\ n <= Len(s) /\ n <= BatchSize
      BY <1>1, <1>2
  <1>4. b = SubSeq(s, 1, n)
      OBVIOUS
  <1> HIDE DEF n
  <1>5. b \in Seq(Entries) /\ Len(b) = n
    <2>1. \A i \in 1 .. n : s[i] \in Entries
        BY <1>2, <1>3
    <2>2. /\ SubSeq(s, 1, n) \in Seq(Entries)
          /\ Len(SubSeq(s, 1, n)) = IF 1 <= n THEN n - 1 + 1 ELSE 0
        BY <1>3, <2>1, SubSeqProperties
    <2>3. (IF 1 <= n THEN n - 1 + 1 ELSE 0) = n
        BY <1>3
    <2>4. QED
        BY <1>4, <2>2, <2>3
  <1>6. b # <<>>
      BY <1>3, <1>5, EmptySeq
  <1>7. QED
      BY <1>3, <1>4, <1>5, <1>6

-----------------------------------------------------------------------------
(* Types *)

TypeTables ==
    /\ usage \in [Keys -> 0 .. MaxCount] /\ sql \in [Keys -> 0 .. MaxCount]
    /\ buffer \in Seq(Entries) /\ rows \in Seq(Entries)
    /\ sent \in 0 .. MaxEntries /\ faults \in 0 .. MaxFaults /\ wiped \in BOOLEAN

TypeFlushers ==
    /\ pc \in [Processes -> Labels]
    /\ todo \in [Processes -> SUBSET Keys]
    /\ tx \in [Processes -> [Keys -> 0 .. MaxCount]]
    /\ batch \in [Processes -> Seq(Entries)]
    /\ final \in [Processes -> BOOLEAN]

Holding(p) ==
    /\ Len(batch[p]) <= BatchSize
    /\ batch[p] # <<>> <=> pc[p] \in {"ltrim", "insert"}
    /\ pc[p] # "read" => todo[p] = {}
    /\ final[p] => pc[p] \notin Idle

LEMMA TypeParts == TypeOK <=> TypeTables /\ TypeFlushers /\ \A p \in Processes : Holding(p)
  BY DEF TypeOK, TypeTables, TypeFlushers, Holding, Labels

\* One process goes to another place, with what it then holds.
Moves(p, label, keys, counters, entries, last) ==
    /\ pc' = [pc EXCEPT ![p] = label] /\ label \in Labels
    /\ todo' = [todo EXCEPT ![p] = keys] /\ keys \in SUBSET Keys
    /\ tx' = [tx EXCEPT ![p] = counters] /\ counters \in [Keys -> 0 .. MaxCount]
    /\ batch' = [batch EXCEPT ![p] = entries] /\ entries \in Seq(Entries)
    /\ final' = [final EXCEPT ![p] = last] /\ last \in BOOLEAN
    /\ Len(entries) <= BatchSize
    /\ entries # <<>> <=> label \in {"ltrim", "insert"}
    /\ label # "read" => keys = {}
    /\ last => label \notin Idle

LEMMA MovesType ==
    ASSUME TypeFlushers, \A q \in Processes : Holding(q), NEW p \in Processes,
           NEW label, NEW keys, NEW counters, NEW entries, NEW last,
           Moves(p, label, keys, counters, entries, last)
    PROVE  TypeFlushers' /\ \A q \in Processes : Holding(q)'
  <1>1. TypeFlushers'
      BY DEF TypeFlushers, Moves
  <1>2. ASSUME NEW q \in Processes PROVE Holding(q)'
    <2>1. CASE q = p
        BY <2>1 DEF TypeFlushers, Moves, Holding
    <2>2. CASE q # p
      <3>1. /\ pc'[q] = pc[q] /\ todo'[q] = todo[q] /\ batch'[q] = batch[q]
            /\ final'[q] = final[q]
          BY <2>2 DEF TypeFlushers, Moves
      <3>2. Holding(q)
          OBVIOUS
      <3>3. QED
          BY <3>1, <3>2 DEF Holding
    <2>3. QED
        BY <2>1, <2>2
  <1>3. QED
      BY <1>1, <1>2

\* What a process holds where it is.
LEMMA Held ==
    ASSUME TypeFlushers, NEW p \in Processes, Holding(p)
    PROVE  /\ pc[p] \in Labels /\ todo[p] \in SUBSET Keys /\ tx[p] \in [Keys -> 0 .. MaxCount]
           /\ batch[p] \in Seq(Entries) /\ final[p] \in BOOLEAN /\ Len(batch[p]) <= BatchSize
           /\ pc = [pc EXCEPT ![p] = pc[p]] /\ todo = [todo EXCEPT ![p] = todo[p]]
           /\ tx = [tx EXCEPT ![p] = tx[p]] /\ batch = [batch EXCEPT ![p] = batch[p]]
           /\ final = [final EXCEPT ![p] = final[p]]
           /\ batch[p] # <<>> <=> pc[p] \in {"ltrim", "insert"}
           /\ pc[p] # "read" => todo[p] = {}
           /\ final[p] => pc[p] \notin Idle
  BY DEF TypeFlushers, Holding

LEMMA NoBatch == <<>> \in Seq(Entries) /\ Len(<<>>) <= BatchSize /\ NoCounters \in [Keys -> 0 .. MaxCount]
  <1>1. Len(<<>>) = 0 /\ <<>> \in Seq(Entries)
      BY EmptySeq
  <1>2. QED
      BY <1>1, FlusherAssumption DEF NoCounters

\* The end of a flush, in good order or by an exception.
LEMMA FlushEnds ==
    ASSUME TypeFlushers, \A q \in Processes : Holding(q), NEW p \in Processes,
           Finish(p) \/ Escape(p), pc[p] \in Flushing, pc[p] # "read",
           UNCHANGED <<todo, tx, final>>
    PROVE  TypeFlushers' /\ \A q \in Processes : Holding(q)'
  <1>1. batch' = [batch EXCEPT ![p] = <<>>]
      BY DEF Finish, Escape, Holds
  <1>2. CASE final[p]
    <2>1. pc' = [pc EXCEPT ![p] = "stopped"]
        BY <1>2 DEF Finish, Escape, Goto
    <2>2. Moves(p, "stopped", todo[p], tx[p], <<>>, final[p])
        BY <1>1, <2>1, Held, NoBatch DEF Moves, Labels, Flushing, Idle, Off
    <2>3. QED
        BY <2>2, MovesType
  <1>3. CASE ~ final[p]
    <2>1. PICK label \in Idle : pc' = [pc EXCEPT ![p] = label]
        BY <1>3 DEF Finish, Escape, Goto, Idle
    <2>2. Moves(p, label, todo[p], tx[p], <<>>, final[p])
        BY <1>1, <1>3, <2>1, Held, NoBatch DEF Moves, Labels, Flushing, Idle, Off
    <2>3. QED
        BY <2>2, MovesType
  <1>4. QED
      BY <1>2, <1>3

LEMMA NextTypes == TypeOK /\ [Next]_vars => TypeOK'
  <1> SUFFICES ASSUME TypeOK, [Next]_vars PROVE TypeOK'
      OBVIOUS
  <1>0. /\ TypeTables /\ TypeFlushers /\ \A p \in Processes : Holding(p)
        /\ MaxCount \in Nat /\ MaxEntries \in Nat /\ MaxFaults \in Nat /\ BatchSize \in Nat \ {0}
      BY TypeParts, FlusherAssumption
  <1>S. SUFFICES TypeTables' /\ TypeFlushers' /\ \A p \in Processes : Holding(p)'
    <2>1. TypeOK' <=> (TypeTables /\ TypeFlushers /\ \A p \in Processes : Holding(p))'
        BY TypeParts, PTL
    <2>2. QED
        BY <2>1
  <1> DEFINE Goal == TypeTables' /\ TypeFlushers' /\ \A p \in Processes : Holding(p)'
  <1>1. ASSUME UNCHANGED flusher PROVE TypeFlushers' /\ \A p \in Processes : Holding(p)'
      BY <1>0, <1>1 DEF flusher, TypeFlushers, Holding
  <1>2. ASSUME NEW p \in Processes,
               ServeError(p) \/ \E k \in Keys : Serve(p, k) \/ ServeHalf(p, k)
        PROVE  Goal
    <2>1. UNCHANGED <<flusher, sql, rows, wiped>>
        BY <1>2 DEF Serve, ServeHalf, ServeError, tables
    <2>2. usage' \in [Keys -> 0 .. MaxCount]
        BY <1>0, <1>2 DEF Serve, ServeHalf, ServeError, Count, TypeTables
    <2>3. buffer' \in Seq(Entries) /\ sent' \in 0 .. MaxEntries
      <3>1. CASE Push
        <4>1. sent' \in 0 .. MaxEntries /\ sent + 1 \in Entries
            BY <1>0, <3>1 DEF Push, TypeTables, Entries
        <4>2. QED
            BY <1>0, <3>1, <4>1, AppendProperties DEF Push, TypeTables
      <3>2. CASE ~ Push
          BY <1>0, <1>2, <3>2 DEF Serve, ServeHalf, ServeError, TypeTables
      <3>3. QED
          BY <3>1, <3>2
    <2>4. faults' \in 0 .. MaxFaults
        BY <1>0, <1>2 DEF Serve, ServeHalf, ServeError, Fault, TypeTables
    <2>5. QED
        BY <1>0, <1>1, <2>1, <2>2, <2>3, <2>4 DEF TypeTables
  <1>3. ASSUME FlushAll PROVE Goal
    <2>1. buffer' \in Seq(Entries) /\ usage' \in [Keys -> 0 .. MaxCount]
        BY <1>3, NoBatch DEF FlushAll
    <2>2. QED
        BY <1>0, <1>1, <1>3, <2>1 DEF FlushAll, Fault, TypeTables, tables
  <1>4. ASSUME UNCHANGED vars PROVE Goal
      BY <1>0, <1>1, <1>4 DEF vars, redis, tables, TypeTables
  <1>5. ASSUME NEW p \in Processes, Wake(p) \/ Resume(p) \/ Start(p) \/ Cancel(p) PROVE Goal
    <2>1. TypeTables'
        BY <1>0, <1>5 DEF Wake, Resume, Start, Cancel, TypeTables, redis, tables
    <2>2. \E label, last : Moves(p, label, todo[p], tx[p], batch[p], last)
        BY <1>0, <1>5, Held
           DEF Wake, Resume, Start, Cancel, Goto, Moves, Labels, Flushing, Idle, Off
    <2>3. QED
        BY <1>0, <2>1, <2>2, MovesType
  <1>6. ASSUME NEW p \in Processes, Scan(p) PROVE Goal
    <2>1. TypeTables'
        BY <1>0, <1>6 DEF Scan, TypeTables, redis, tables
    <2>2. Moves(p, "read", {k \in Keys : usage[k] > 0}, NoCounters, batch[p], final[p])
        BY <1>0, <1>6, Held, NoBatch DEF Scan, Goto, Moves, Labels, Flushing, Idle, Off
    <2>3. QED
        BY <1>0, <2>1, <2>2, MovesType
  <1>7. ASSUME NEW p \in Processes, NEW k \in todo[p], Read(p),
               todo' = [todo EXCEPT ![p] = @ \ {k}], tx' = [tx EXCEPT ![p][k] = usage[k]]
        PROVE  Goal
    <2>1. TypeTables'
        BY <1>0, <1>7 DEF Read, TypeTables, redis, tables
    <2>2. [tx[p] EXCEPT ![k] = usage[k]] \in [Keys -> 0 .. MaxCount]
        BY <1>0, <1>7, Held DEF TypeTables
    <2>3. Moves(p, "read", todo[p] \ {k}, [tx[p] EXCEPT ![k] = usage[k]], batch[p], final[p])
        BY <1>0, <1>7, <2>2, Held DEF Read, Moves, Labels, Flushing, Idle, Off, TypeFlushers
    <2>4. QED
        BY <1>0, <2>1, <2>3, MovesType
  <1>8. ASSUME NEW p \in Processes, Commit(p) PROVE Goal
    <2>1. TypeTables'
      <3>1. tx[p] \in [Keys -> 0 .. MaxCount] /\ sql \in [Keys -> 0 .. MaxCount]
          BY <1>0, Held DEF TypeTables
      <3>2. sql' \in [Keys -> 0 .. MaxCount]
          BY <1>8, <3>1 DEF Commit
      <3>3. QED
          BY <1>0, <1>8, <3>2 DEF Commit, TypeTables, redis
    <2>2. Moves(p, "lrange", todo[p], tx[p], batch[p], final[p])
        BY <1>0, <1>8, Held DEF Commit, Goto, Moves, Labels, Flushing, Idle, Off
    <2>3. QED
        BY <1>0, <2>1, <2>2, MovesType
  <1>9. ASSUME NEW p \in Processes, Rollback(p) PROVE Goal
    <2>1. TypeTables'
        BY <1>0, <1>9 DEF Rollback, Fault, TypeTables, redis, tables
    <2>2. Moves(p, "lrange", {}, NoCounters, batch[p], final[p])
        BY <1>0, <1>9, Held, NoBatch DEF Rollback, Goto, Moves, Labels, Flushing, Idle, Off
    <2>3. QED
        BY <1>0, <2>1, <2>2, MovesType
  <1>10. ASSUME NEW p \in Processes, Lrange(p) PROVE Goal
    <2>1. TypeTables'
        BY <1>0, <1>10 DEF Lrange, TypeTables, redis, tables
    <2>2. CASE buffer = <<>>
      <3>1. Finish(p) /\ pc[p] = "lrange" /\ UNCHANGED <<todo, tx, final>>
          BY <1>10, <2>2 DEF Lrange
      <3>2. QED
          BY <1>0, <2>1, <3>1, FlushEnds DEF Flushing
    <2>3. CASE buffer # <<>>
      <3> DEFINE b == SubSeq(buffer, 1, IF Len(buffer) < BatchSize THEN Len(buffer) ELSE BatchSize)
      <3>1. b \in Seq(Entries) /\ b # <<>> /\ Len(b) <= BatchSize
          BY <1>0, <2>3, First DEF TypeTables
      <3>2. batch' = [batch EXCEPT ![p] = b] /\ pc' = [pc EXCEPT ![p] = "ltrim"]
          BY <1>10, <2>3 DEF Lrange, Goto, Holds
      <3> HIDE DEF b
      <3>3. Moves(p, "ltrim", todo[p], tx[p], b, final[p])
          BY <1>0, <1>10, <3>1, <3>2, Held
             DEF Lrange, Moves, Labels, Flushing, Idle, Off
      <3>4. QED
          BY <1>0, <2>1, <3>3, MovesType
    <2>4. QED
        BY <2>2, <2>3
  <1>11. ASSUME NEW p \in Processes, Ltrim(p) PROVE Goal
    <2>1. buffer' \in Seq(Entries)
      <3>1. Len(batch[p]) \in Nat
          BY <1>0, Held, LenProperties
      <3>2. QED
          BY <1>0, <1>11, <3>1, Rest DEF Ltrim, TypeTables
    <2>2. TypeTables'
        BY <1>0, <1>11, <2>1 DEF Ltrim, TypeTables, tables
    <2>3. Moves(p, "insert", todo[p], tx[p], batch[p], final[p])
        BY <1>0, <1>11, Held DEF Ltrim, Goto, Moves, Labels, Flushing, Idle, Off
    <2>4. QED
        BY <1>0, <2>2, <2>3, MovesType
  <1>12. ASSUME NEW p \in Processes, Insert(p) \/ InsertFails(p) PROVE Goal
    <2>1. rows' \in Seq(Entries)
      <3>1. batch[p] \in Seq(Entries) /\ rows \in Seq(Entries)
          BY <1>0, Held DEF TypeTables
      <3>2. rows \o batch[p] \in Seq(Entries)
          BY <3>1, ConcatProperties
      <3>3. QED
          BY <1>12, <3>1, <3>2 DEF Insert, InsertFails, tables
    <2>2. TypeTables'
        BY <1>0, <1>12, <2>1 DEF Insert, InsertFails, Fault, TypeTables, redis, tables
    <2>3. /\ Finish(p) \/ Escape(p)
          /\ pc[p] \in Flushing /\ pc[p] # "read" /\ UNCHANGED <<todo, tx, final>>
        BY <1>12 DEF Insert, InsertFails, Flushing
    <2>4. QED
        BY <1>0, <2>2, <2>3, FlushEnds
  <1>13. ASSUME NEW p \in Processes, RedisFails(p) PROVE Goal
    <2>1. buffer' \in Seq(Entries)
      <3>1. Len(batch[p]) \in Nat
          BY <1>0, Held, LenProperties
      <3>2. SubSeq(buffer, Len(batch[p]) + 1, Len(buffer)) \in Seq(Entries)
          BY <1>0, <3>1, Rest DEF TypeTables
      <3>3. QED
          BY <1>0, <1>13, <3>2 DEF RedisFails, TypeTables
    <2>2. TypeTables'
        BY <1>0, <1>13, <2>1 DEF RedisFails, Fault, TypeTables, tables
    <2>3. /\ Finish(p) \/ Escape(p)
          /\ pc[p] \in Flushing /\ pc[p] # "read" /\ UNCHANGED <<todo, tx, final>>
        BY <1>13 DEF RedisFails, Flushing
    <2>4. QED
        BY <1>0, <2>2, <2>3, FlushEnds
  <1>14. ASSUME NEW p \in Processes, Crash(p) PROVE Goal
    <2>1. TypeTables'
        BY <1>0, <1>14 DEF Crash, Fault, TypeTables, redis, tables
    <2>2. Moves(p, "down", {}, NoCounters, <<>>, final[p])
        BY <1>0, <1>14, Held, NoBatch DEF Crash, Goto, Holds, Moves, Labels, Flushing, Idle, Off
    <2>3. QED
        BY <1>0, <2>1, <2>2, MovesType
  <1>15. ASSUME NEW p \in Processes, Read(p) PROVE Goal
    <2>1. PICK k \in todo[p] :
             todo' = [todo EXCEPT ![p] = @ \ {k}] /\ tx' = [tx EXCEPT ![p][k] = usage[k]]
        BY <1>15 DEF Read
    <2>2. QED
        BY <1>7, <1>15, <2>1
  <1>16. QED
      BY <1>2, <1>3, <1>4, <1>5, <1>6, <1>8, <1>9, <1>10, <1>11, <1>12, <1>13, <1>14, <1>15
         DEF Next, Progress

\* Types, and when a flusher holds a batch, scanned keys or a final flush.
THEOREM TypeCorrect == Spec => []TypeOK
  <1>1. Init => TypeOK
    <2> SUFFICES ASSUME Init PROVE TypeOK
        OBVIOUS
    <2>1. TypeTables
      <3>1. 0 \in 0 .. MaxEntries /\ 0 \in 0 .. MaxFaults
          BY FlusherAssumption
      <3>2. QED
          BY <3>1, NoBatch DEF Init, TypeTables
    <2>2. TypeFlushers
        BY NoBatch DEF Init, TypeFlushers, Labels, Idle
    <2>3. \A p \in Processes : Holding(p)
        BY NoBatch DEF Init, Holding, Idle
    <2>4. QED
        BY <2>1, <2>2, <2>3, TypeParts
  <1>2. QED
      BY <1>1, NextTypes, PTL DEF Spec

-----------------------------------------------------------------------------
(* SoloFlusher implements AuditTrail *)

\* A list is its head followed by its rest.
LEMMA SplitPending ==
    ASSUME NEW s \in Seq(Entries), NEW n \in Nat, n <= Len(s)
    PROVE  SubSeq(s, 1, n) \o SubSeq(s, n + 1, Len(s)) = s
  <1>1. Len(s) \in Nat /\ 1 \in 1 .. Len(s) + 1 /\ n \in 1 - 1 .. Len(s) /\ Len(s) \in n .. Len(s)
      BY LenProperties
  <1>2. SubSeq(s, 1, n) \o SubSeq(s, n + 1, Len(s)) = SubSeq(s, 1, Len(s))
      BY <1>1, ConcatAdjacentSubSeq
  <1>3. QED
      BY <1>2, SubSeqFull

\* The first elements of a concatenation, and the others.
LEMMA PartsOfConcat ==
    ASSUME NEW s \in Seq(Entries), NEW t \in Seq(Entries)
    PROVE  /\ s \o t \in Seq(Entries) /\ Len(s) \in Nat /\ Len(s) <= Len(s \o t)
           /\ SubSeq(s \o t, 1, Len(s)) = s
           /\ SubSeq(s \o t, Len(s) + 1, Len(s \o t)) = t
  <1> DEFINE c == s \o t
  <1>1. /\ c \in Seq(Entries) /\ Len(c) = Len(s) + Len(t) /\ Len(s) \in Nat /\ Len(t) \in Nat
        /\ Len(c) \in Nat
      BY ConcatProperties, LenProperties
  <1>2. \A i \in 1 .. Len(c) : c[i] = IF i <= Len(s) THEN s[i] ELSE t[i - Len(s)]
      BY <1>1, ConcatProperties
  <1>3. \A i \in 1 .. Len(c) : c[i] \in Entries
      BY <1>1, ElementOfSeq
  <1> HIDE DEF c
  <1>4. SubSeq(c, 1, Len(s)) = s
    <2>1. \A i \in 1 .. Len(s) : c[i] \in Entries
        BY <1>1, <1>3
    <2>2. /\ SubSeq(c, 1, Len(s)) \in Seq(Entries)
          /\ Len(SubSeq(c, 1, Len(s))) = IF 1 <= Len(s) THEN Len(s) - 1 + 1 ELSE 0
          /\ \A i \in 1 .. Len(s) - 1 + 1 : SubSeq(c, 1, Len(s))[i] = c[1 + i - 1]
        BY <1>1, <2>1, SubSeqProperties
    <2>3. Len(SubSeq(c, 1, Len(s))) = Len(s)
        BY <1>1, <2>2
    <2>4. ASSUME NEW i \in 1 .. Len(s) PROVE SubSeq(c, 1, Len(s))[i] = s[i]
      <3>1. i \in 1 .. Len(s) - 1 + 1 /\ i \in 1 .. Len(c) /\ 1 + i - 1 = i /\ i <= Len(s)
          BY <1>1
      <3>2. QED
          BY <1>2, <2>2, <3>1
    <2>5. QED
        BY <2>2, <2>3, <2>4, SeqEqual
  <1>5. SubSeq(c, Len(s) + 1, Len(c)) = t
    <2>1. \A i \in Len(s) + 1 .. Len(c) : c[i] \in Entries
        BY <1>1, <1>3
    <2>2. /\ SubSeq(c, Len(s) + 1, Len(c)) \in Seq(Entries)
          /\ Len(SubSeq(c, Len(s) + 1, Len(c)))
               = IF Len(s) + 1 <= Len(c) THEN Len(c) - (Len(s) + 1) + 1 ELSE 0
          /\ \A i \in 1 .. Len(c) - (Len(s) + 1) + 1 :
                 SubSeq(c, Len(s) + 1, Len(c))[i] = c[Len(s) + 1 + i - 1]
        BY <1>1, <2>1, SubSeqProperties
    <2>3. Len(SubSeq(c, Len(s) + 1, Len(c))) = Len(t)
        BY <1>1, <2>2
    <2>4. ASSUME NEW i \in 1 .. Len(t) PROVE SubSeq(c, Len(s) + 1, Len(c))[i] = t[i]
      <3>1. /\ i \in 1 .. Len(c) - (Len(s) + 1) + 1 /\ Len(s) + i \in 1 .. Len(c)
            /\ Len(s) + 1 + i - 1 = Len(s) + i /\ ~ (Len(s) + i <= Len(s))
            /\ Len(s) + i - Len(s) = i
          BY <1>1
      <3>2. c[Len(s) + i] = t[i]
          BY <1>2, <3>1
      <3>3. QED
          BY <2>2, <3>1, <3>2
    <2>5. QED
        BY <2>2, <2>3, <2>4, SeqEqual
  <1>6. QED
      BY <1>1, <1>4, <1>5 DEF c

\* Nothing follows an empty list.
LEMMA NoRest == ASSUME NEW n \in Nat PROVE SubSeq(<<>>, n + 1, Len(<<>>)) = <<>>
  <1>1. <<>> \in Seq(Entries) /\ Len(<<>>) = 0
      BY EmptySeq
  <1>2. /\ SubSeq(<<>>, n + 1, 0) \in Seq(Entries)
        /\ Len(SubSeq(<<>>, n + 1, 0)) = IF n + 1 <= 0 THEN 0 - (n + 1) + 1 ELSE 0
    <2>1. \A i \in n + 1 .. 0 : <<>>[i] \in Entries
        OBVIOUS
    <2>2. QED
        BY <1>1, <2>1, SubSeqProperties
  <1>3. Len(SubSeq(<<>>, n + 1, 0)) = 0
      BY <1>2
  <1>4. QED
      BY <1>1, <1>2, <1>3, EmptySeq

\* Between LRANGE and LTRIM the batch is still the head of the list, unless an
\* admin has emptied it.
Kept ==
    pc[Gateway] = "ltrim" /\ buffer # <<>> =>
        /\ Len(batch[Gateway]) <= Len(buffer)
        /\ batch[Gateway] = SubSeq(buffer, 1, Len(batch[Gateway]))

\* The pending entries begin with the batch.
LEMMA Hands ==
    ASSUME TypeOK, Kept
    PROVE  LET n == Len(batch[Gateway]) IN
           /\ Pending \in Seq(Entries) /\ buffer \in Seq(Entries) /\ batch[Gateway] \in Seq(Entries)
           /\ n \in Nat /\ n <= Len(Pending) /\ n <= BatchSize /\ Len(Pending) \in Nat
           /\ batch[Gateway] # <<>> => n # 0
           /\ SubSeq(Pending, 1, n) = batch[Gateway]
           /\ ~ (pc[Gateway] = "ltrim" /\ buffer # <<>>) =>
                  SubSeq(Pending, n + 1, Len(Pending)) = buffer
           /\ pc[Gateway] \notin {"ltrim", "insert"} => batch[Gateway] = <<>> /\ Pending = buffer
           /\ pc[Gateway] = "ltrim" /\ buffer # <<>> => Pending = buffer
  <1> DEFINE b == batch[Gateway]
             n == Len(b)
  <1>1. /\ buffer \in Seq(Entries) /\ b \in Seq(Entries) /\ Len(b) <= BatchSize
        /\ b # <<>> <=> pc[Gateway] \in {"ltrim", "insert"}
      BY SoloAssumption DEF TypeOK
  <1>2. n \in Nat /\ (b # <<>> => n # 0)
      BY <1>1, EmptySeq, LenProperties
  <1>3. /\ b \o buffer \in Seq(Entries) /\ n <= Len(b \o buffer)
        /\ SubSeq(b \o buffer, 1, n) = b
        /\ SubSeq(b \o buffer, n + 1, Len(b \o buffer)) = buffer
      BY <1>1, PartsOfConcat
  <1>4. CASE pc[Gateway] = "ltrim" /\ buffer # <<>>
    <2>1. Pending = buffer /\ n <= Len(buffer) /\ SubSeq(buffer, 1, n) = b
        BY <1>4 DEF Pending, Kept
    <2>2. Len(buffer) \in Nat
        BY <1>1, LenProperties
    <2>3. QED
        BY <1>1, <1>2, <1>4, <2>1, <2>2
  <1>5. CASE ~ (pc[Gateway] = "ltrim" /\ buffer # <<>>)
    <2>1. Pending = b \o buffer
        BY <1>5 DEF Pending
    <2>2. Len(Pending) \in Nat
        BY <1>3, <2>1, LenProperties
    <2>3. pc[Gateway] \notin {"ltrim", "insert"} => b = <<>> /\ Pending = buffer
        BY <1>1, <2>1, EmptySeq, ConcatEmptySeq
    <2>4. QED
        BY <1>1, <1>2, <1>3, <1>5, <2>1, <2>2, <2>3
  <1>6. QED
      BY <1>4, <1>5

InHand == Len(batch[Gateway])
Left == SubSeq(Pending, InHand + 1, Len(Pending))

\* What a step can do to the pending entries.
Stays == Pending' = Pending /\ UNCHANGED <<rows, sent, wiped>> /\ faults' \in {faults, faults + 1}
Grows ==
    /\ sent' = sent + 1 /\ sent' \in Entries /\ Pending' = Append(Pending, sent')
    /\ UNCHANGED <<rows, wiped, faults>>
Lands ==
    /\ InHand # 0 /\ rows' = rows \o SubSeq(Pending, 1, InHand) /\ Pending' = Left
    /\ UNCHANGED <<sent, wiped, faults>>
Drops == Pending' = Left /\ UNCHANGED <<rows, sent, wiped>> /\ faults' = faults + 1
Empties == Pending' = SubSeq(Pending, 1, InHand) /\ wiped' /\ UNCHANGED <<rows, sent>>

\* After a step that leaves the flusher without a batch, the list is what is pending.
LEMMA Unhanded ==
    ASSUME TypeOK', pc'[Gateway] \notin {"ltrim", "insert"}
    PROVE  Pending' = buffer' /\ Kept'
  <1>1. /\ buffer' \in Seq(Entries)
        /\ batch'[Gateway] # <<>> <=> pc'[Gateway] \in {"ltrim", "insert"}
      BY SoloAssumption DEF TypeOK
  <1>2. batch'[Gateway] = <<>>
      BY <1>1
  <1>3. Pending' = <<>> \o buffer'
      BY <1>2 DEF Pending
  <1>4. <<>> \o buffer' = buffer'
      BY <1>1, ConcatEmptySeq
  <1>5. QED
      BY <1>3, <1>4 DEF Kept

\* Each step is one of these, and the batch stays the head of the list.
LEMMA StepParts ==
    ASSUME TypeOK, TypeOK', Kept, [Next]_vars
    PROVE  (Stays \/ Grows \/ Lands \/ Drops \/ Empties) /\ Kept'
  <1> DEFINE Goal == (Stays \/ Grows \/ Lands \/ Drops \/ Empties) /\ Kept'
             b == batch[Gateway]
  <1>0. /\ Processes = {Gateway} /\ Gateway \in Processes
        /\ pc \in [Processes -> Labels] /\ batch \in [Processes -> Seq(Entries)]
        /\ buffer \in Seq(Entries) /\ b \in Seq(Entries)
        /\ faults \in Nat /\ sent \in Nat /\ wiped \in BOOLEAN
      BY SoloAssumption, FlusherAssumption DEF TypeOK, Labels
  <1>h. /\ Pending \in Seq(Entries) /\ InHand \in Nat /\ InHand <= Len(Pending)
        /\ b # <<>> => InHand # 0
        /\ SubSeq(Pending, 1, InHand) = b
        /\ ~ (pc[Gateway] = "ltrim" /\ buffer # <<>>) => Left = buffer
        /\ pc[Gateway] \notin {"ltrim", "insert"} => b = <<>> /\ Pending = buffer
        /\ pc[Gateway] = "ltrim" /\ buffer # <<>> => Pending = buffer
        /\ b # <<>> <=> pc[Gateway] \in {"ltrim", "insert"}
    <2>1. b # <<>> <=> pc[Gateway] \in {"ltrim", "insert"}
        BY SoloAssumption DEF TypeOK
    <2>2. QED
        BY <2>1, Hands DEF InHand, Left
  <1> HIDE DEF b
  <1>1. ASSUME ServeError(Gateway) \/ \E k \in Keys : Serve(Gateway, k)
        PROVE  Goal
    <2>1. /\ pc[Gateway] \in Idle /\ Push /\ UNCHANGED <<rows, pc, wiped, faults>>
        BY <1>1 DEF Serve, ServeError, tables, flusher
    <2>2. Pending' = buffer' /\ Kept' /\ Pending = buffer
        BY <2>1, <1>h, Unhanded DEF Idle
    <2>3. sent' \in Entries /\ sent' = sent + 1 /\ buffer' = Append(buffer, sent')
        BY <1>0, <2>1, FlusherAssumption DEF Push, Entries
    <2>4. QED
        BY <2>1, <2>2, <2>3 DEF Grows
  <1>2. ASSUME UNCHANGED <<buffer, rows, sent, wiped>>, faults' \in {faults, faults + 1},
               pc[Gateway] \notin {"ltrim", "insert"}, pc'[Gateway] \notin {"ltrim", "insert"}
        PROVE  Goal
      BY <1>2, <1>h, Unhanded DEF Stays
  <1>3. ASSUME \E k \in Keys : ServeHalf(Gateway, k) PROVE Goal
    <2>1. /\ UNCHANGED <<buffer, rows, sent, wiped, pc>> /\ faults' = faults + 1
          /\ pc[Gateway] \in Idle
        BY <1>3 DEF ServeHalf, Fault, tables, flusher
    <2>2. QED
        BY <1>2, <2>1 DEF Idle
  <1>4. ASSUME \/ Wake(Gateway) \/ Resume(Gateway) \/ Scan(Gateway) \/ Read(Gateway)
               \/ Commit(Gateway) \/ Rollback(Gateway) \/ Cancel(Gateway) \/ Start(Gateway)
        PROVE  Goal
    <2>1. UNCHANGED <<buffer, rows, sent, wiped>> /\ faults' \in {faults, faults + 1}
        BY <1>4 DEF Wake, Resume, Scan, Read, Commit, Rollback, Cancel, Start, Fault, redis, tables
    <2>2. pc[Gateway] \notin {"ltrim", "insert"} /\ pc'[Gateway] \notin {"ltrim", "insert"}
        BY <1>0, <1>4 DEF Wake, Resume, Scan, Read, Commit, Rollback, Cancel, Start, Goto, Off
    <2>3. QED
        BY <1>2, <2>1, <2>2
  <1>5. ASSUME Lrange(Gateway) PROVE Goal
    <2>1. pc[Gateway] = "lrange" /\ UNCHANGED <<buffer, rows, sent, wiped, faults>>
        BY <1>5 DEF Lrange, redis, tables
    <2>2. CASE buffer = <<>>
      <3>1. pc'[Gateway] \in {"stopped", "sleep"}
          BY <1>0, <1>5, <2>2 DEF Lrange, Finish, Goto
      <3>2. QED
          BY <1>2, <2>1, <3>1
    <2>3. CASE buffer # <<>>
      <3>1. /\ pc'[Gateway] = "ltrim"
            /\ batch'[Gateway] = SubSeq(buffer, 1, IF Len(buffer) < BatchSize THEN Len(buffer)
                                                   ELSE BatchSize)
          BY <1>0, <1>5, <2>3 DEF Lrange, Goto, Holds
      <3>2. Kept'
          BY <1>0, <2>1, <2>3, <3>1, First DEF Kept
      <3>3. Pending' = buffer /\ Pending = buffer
          BY <1>h, <2>1, <2>3, <3>1 DEF Pending
      <3>4. QED
          BY <2>1, <3>2, <3>3 DEF Stays
    <2>4. QED
        BY <2>2, <2>3
  <1>6. ASSUME Ltrim(Gateway) PROVE Goal
    <2>1. /\ pc[Gateway] = "ltrim" /\ pc'[Gateway] = "insert"
          /\ UNCHANGED <<batch, rows, sent, wiped, faults>>
          /\ buffer' = SubSeq(buffer, InHand + 1, Len(buffer))
        BY <1>0, <1>6 DEF Ltrim, Goto, tables, InHand
    <2>2. Pending' = b \o buffer'
        BY <2>1 DEF Pending, b
    <2>3. CASE buffer # <<>>
      <3>1. Pending = buffer
          BY <1>h, <2>1, <2>3
      <3>2. b \o buffer' = Pending
          BY <1>h, <2>1, <3>1, SplitPending
      <3>3. QED
          BY <2>1, <2>2, <3>2 DEF Stays, Kept
    <2>4. CASE buffer = <<>>
      <3>1. buffer' = <<>>
          BY <1>h, <2>1, <2>4, NoRest
      <3>2. Pending = b \o buffer
          BY <2>4 DEF Pending, b
      <3>3. QED
          BY <2>1, <2>2, <2>4, <3>1, <3>2 DEF Stays, Kept
    <2>5. QED
        BY <2>3, <2>4
  <1>7. ASSUME Insert(Gateway) \/ InsertFails(Gateway) PROVE Goal
    <2>1. /\ pc[Gateway] = "insert" /\ UNCHANGED <<buffer, sent, wiped>>
          /\ pc'[Gateway] \in {"stopped", "sleep"}
        BY <1>0, <1>7 DEF Insert, InsertFails, Finish, Goto, redis
    <2>2. Pending' = buffer /\ Kept' /\ Left = buffer
        BY <1>h, <2>1, Unhanded
    <2>3. CASE Insert(Gateway)
      <3>1. rows' = rows \o b /\ UNCHANGED faults
          BY <2>3 DEF Insert, b
      <3>2. InHand # 0
          BY <1>h, <2>1
      <3>3. QED
          BY <1>h, <2>1, <2>2, <3>1, <3>2 DEF Lands
    <2>4. CASE InsertFails(Gateway)
      <3>1. UNCHANGED rows /\ faults' = faults + 1
          BY <2>4 DEF InsertFails, Fault, tables
      <3>2. QED
          BY <2>1, <2>2, <3>1 DEF Drops
    <2>5. QED
        BY <1>7, <2>3, <2>4
  <1>8. ASSUME RedisFails(Gateway) PROVE Goal
    <2>1. /\ pc'[Gateway] \in {"stopped", "backoff"}
          /\ UNCHANGED <<rows, sent, wiped>> /\ faults' = faults + 1
          /\ pc[Gateway] \in {"scan", "lrange", "ltrim"}
        BY <1>0, <1>8 DEF RedisFails, Escape, Goto, Fault, tables
    <2>2. Pending' = buffer' /\ Kept'
        BY <2>1, Unhanded
    <2>3. CASE buffer' = buffer
      <3>1. CASE pc[Gateway] # "ltrim" \/ buffer # <<>>
          BY <1>h, <2>1, <2>2, <2>3, <3>1 DEF Stays
      <3>2. CASE pc[Gateway] = "ltrim" /\ buffer = <<>>
          BY <1>h, <2>1, <2>2, <2>3, <3>2 DEF Drops
      <3>3. QED
          BY <3>1, <3>2
    <2>4. CASE buffer' # buffer
      <3>1. pc[Gateway] = "ltrim" /\ buffer' = SubSeq(buffer, InHand + 1, Len(buffer))
          BY <1>8, <2>4 DEF RedisFails, InHand
      <3>2. buffer # <<>>
          BY <1>h, <2>4, <3>1, NoRest
      <3>3. Pending' = Left
          BY <1>h, <2>2, <3>1, <3>2 DEF Left
      <3>4. QED
          BY <2>1, <2>2, <3>3 DEF Drops
    <2>5. QED
        BY <2>3, <2>4
  <1>9. ASSUME Crash(Gateway) PROVE Goal
    <2>1. /\ pc'[Gateway] = "down"
          /\ UNCHANGED <<buffer, rows, sent, wiped>> /\ faults' = faults + 1
        BY <1>0, <1>9 DEF Crash, Goto, Fault, redis, tables
    <2>2. Pending' = buffer /\ Kept'
        BY <2>1, Unhanded
    <2>3. QED
        BY <1>h, <2>1, <2>2 DEF Stays, Drops
  <1>10. ASSUME FlushAll PROVE Goal
    <2>1. UNCHANGED <<pc, batch, rows, sent>> /\ buffer' = <<>> /\ wiped'
        BY <1>10 DEF FlushAll, tables, flusher
    <2>2. Pending' = b \o <<>>
        BY <2>1 DEF Pending, b
    <2>3. b \o <<>> = b
        BY <1>0, ConcatEmptySeq
    <2>4. QED
        BY <1>h, <2>1, <2>2, <2>3 DEF Empties, Kept
  <1>11. ASSUME UNCHANGED vars PROVE Goal
      BY <1>11 DEF vars, redis, tables, flusher, Stays, Pending, Kept
  <1>12. QED
    <2>1. CASE \E p \in Processes :
                  \/ \E k \in Keys : Serve(p, k) \/ ServeHalf(p, k)
                  \/ ServeError(p)
        BY <1>0, <1>1, <1>3, <2>1
    <2>2. CASE \E p \in Processes :
                  \/ Progress(p) \/ Rollback(p) \/ InsertFails(p) \/ RedisFails(p)
                  \/ Cancel(p) \/ Crash(p) \/ Start(p)
        BY <1>0, <1>4, <1>5, <1>6, <1>7, <1>8, <1>9, <2>2 DEF Progress
    <2>3. QED
        BY <1>10, <1>11, <2>1, <2>2 DEF Next

IInv == TypeOK /\ Kept

LEMMA IInvCorrect == Spec => []IInv
  <1>1. Init => Kept
      BY SoloAssumption DEF Init, Kept
  <1>2. TypeOK /\ TypeOK' /\ Kept /\ [Next]_vars => Kept'
      BY StepParts
  <1>3. QED
      BY <1>1, <1>2, NextTypes, TypeCorrect, PTL DEF Spec, IInv

\* The audit pipeline implements AuditTrail: whatever fails, and wherever, no entry
\* is recorded twice or out of order (flush_audit_to_sql, drain_audit_buffer).
THEOREM TrailImplemented == Spec => AuditTrailSpec
  <1>1. Init => Trail!Init
    <2> SUFFICES ASSUME Init PROVE Pending = <<>> /\ rows = <<>>
        BY DEF Trail!Init
    <2>1. batch[Gateway] = <<>> /\ buffer = <<>> /\ rows = <<>> /\ pc[Gateway] = "sleep"
        BY SoloAssumption DEF Init
    <2>2. Pending = <<>> \o <<>>
        BY <2>1 DEF Pending
    <2>3. QED
        BY <2>1, <2>2, EmptySeq, ConcatEmptySeq
  <1>2. IInv /\ TypeOK' /\ [Next]_vars => [Trail!Next]_(Trail!trail)
    <2> SUFFICES ASSUME IInv, TypeOK', [Next]_vars PROVE Trail!Next \/ UNCHANGED Trail!trail
        OBVIOUS
    <2>1. /\ Stays \/ Grows \/ Lands \/ Drops \/ Empties
          /\ InHand \in Nat /\ InHand <= Len(Pending) /\ Len(Pending) \in Nat
        BY StepParts, Hands DEF IInv, InHand
    <2>2. CASE Stays
        BY <2>2 DEF Stays, Trail!trail
    <2>3. CASE Grows
      <3>1. Trail!Buffer(sent')
          BY <2>3 DEF Grows, Trail!Buffer
      <3>2. QED
          BY <2>3, <3>1 DEF Grows, Trail!Next
    <2>4. CASE Lands
      <3>1. Trail!Record(InHand) /\ InHand \in 1 .. Len(Pending)
          BY <2>1, <2>4 DEF Lands, Left, Trail!Record
      <3>2. QED
          BY <3>1 DEF Trail!Next
    <2>5. CASE Drops
      <3>1. Trail!Lose(InHand + 1, Len(Pending))
          BY <2>5 DEF Drops, Left, Trail!Lose
      <3>2. InHand + 1 \in 1 .. Len(Pending) + 1 /\ Len(Pending) \in 0 .. Len(Pending)
          BY <2>1
      <3>3. QED
          BY <3>1, <3>2 DEF Trail!Next
    <2>6. CASE Empties
      <3>1. Trail!Lose(1, InHand)
          BY <2>6 DEF Empties, Trail!Lose
      <3>2. 1 \in 1 .. Len(Pending) + 1 /\ InHand \in 0 .. Len(Pending)
          BY <2>1
      <3>3. QED
          BY <3>1, <3>2 DEF Trail!Next
    <2>7. QED
        BY <2>1, <2>2, <2>3, <2>4, <2>5, <2>6
  <1>3. QED
      BY <1>1, <1>2, IInvCorrect, TypeCorrect, PTL DEF Spec, AuditTrailSpec, Trail!Spec, IInv

\* An error or a crash costs at most the batch in the flusher's hands, whatever
\* the batch size and however many faults (drain_audit_buffer, flush_audit_to_sql).
THEOREM LossCorrect == Spec => []LossBound
  <1>1. Init => LossBound
    <2> SUFFICES ASSUME Init PROVE LossBound
        OBVIOUS
    <2>1. batch[Gateway] = <<>> /\ buffer = <<>> /\ rows = <<>> /\ pc[Gateway] = "sleep"
        BY SoloAssumption DEF Init
    <2>2. Pending = <<>> \o <<>> /\ <<>> \o <<>> = <<>>
        BY <2>1, EmptySeq, ConcatEmptySeq DEF Pending
    <2>3. Len(rows) = 0 /\ Len(Pending) = 0
        BY <2>1, <2>2, EmptySeq
    <2>4. BatchSize * 0 = 0
        BY FlusherAssumption
    <2>5. QED
        BY <2>3, <2>4 DEF Init, LossBound
  <1>2. IInv /\ TypeOK' /\ LossBound /\ [Next]_vars => LossBound'
    <2> SUFFICES ASSUME IInv, TypeOK', LossBound, [Next]_vars PROVE LossBound'
        OBVIOUS
    <2> DEFINE cost == BatchSize * faults
    <2>1. /\ Stays \/ Grows \/ Lands \/ Drops \/ Empties
          /\ Pending \in Seq(Entries) /\ rows \in Seq(Entries)
          /\ InHand \in Nat /\ InHand <= Len(Pending) /\ Len(Pending) \in Nat
          /\ InHand <= BatchSize /\ Len(rows) \in Nat
          /\ BatchSize \in Nat /\ faults \in Nat /\ sent \in Nat
      <3>1. rows \in Seq(Entries) /\ faults \in Nat /\ sent \in Nat /\ BatchSize \in Nat
          BY FlusherAssumption DEF IInv, TypeOK
      <3>2. Len(rows) \in Nat
          BY <3>1, LenProperties
      <3>3. Stays \/ Grows \/ Lands \/ Drops \/ Empties
          BY StepParts DEF IInv
      <3>4. /\ Pending \in Seq(Entries) /\ InHand \in Nat /\ InHand <= Len(Pending)
            /\ Len(Pending) \in Nat /\ InHand <= BatchSize
          BY Hands DEF IInv, InHand
      <3>5. QED
          BY <3>1, <3>2, <3>3, <3>4
    <2>2. cost \in Nat /\ BatchSize * (faults + 1) = cost + BatchSize
        BY <2>1
    <2>3. ~wiped => sent <= Len(rows) + Len(Pending) + cost
        BY DEF LossBound
    <2>4. Len(Left) = Len(Pending) - InHand
        BY <2>1, Rest DEF Left
    <2> HIDE DEF cost
    <2>5. CASE Stays
      <3>1. BatchSize * faults' \in {cost, cost + BatchSize}
          BY <2>2, <2>5 DEF Stays, cost
      <3>2. wiped' = wiped /\ sent' = sent /\ rows' = rows /\ Pending' = Pending
          BY <2>5 DEF Stays
      <3> DEFINE after == BatchSize * faults'
      <3>3. after \in {cost, cost + BatchSize}
          BY <3>1
      <3> HIDE DEF after
      <3>4. ~wiped' => sent' <= Len(rows') + Len(Pending') + after
          BY <2>1, <2>2, <2>3, <3>2, <3>3
      <3>5. QED
          BY <3>4 DEF LossBound, after
    <2>6. CASE Grows
      <3>1. Len(Pending') = Len(Pending) + 1
          BY <2>1, <2>6, AppendProperties DEF Grows
      <3>2. BatchSize * faults' = cost
          BY <2>6 DEF Grows, cost
      <3>3. QED
          BY <2>1, <2>2, <2>3, <2>6, <3>1, <3>2 DEF Grows, LossBound
    <2>7. CASE Lands
      <3>1. SubSeq(Pending, 1, InHand) \in Seq(Entries) /\ Len(SubSeq(Pending, 1, InHand)) = InHand
          BY Hands DEF IInv, InHand
      <3>2. Len(rows') = Len(rows) + InHand
          BY <2>1, <2>7, <3>1, ConcatProperties DEF Lands
      <3>3. BatchSize * faults' = cost
          BY <2>7 DEF Lands, cost
      <3>4. Len(Pending') = Len(Pending) - InHand /\ wiped' = wiped /\ sent' = sent
          BY <2>4, <2>7 DEF Lands
      <3>5. ~wiped' => sent' <= Len(rows') + Len(Pending') + cost
          BY <2>1, <2>2, <2>3, <3>2, <3>4
      <3>6. QED
          BY <3>3, <3>5 DEF LossBound
    <2>8. CASE Drops
      <3>1. BatchSize * faults' = cost + BatchSize
          BY <2>2, <2>8 DEF Drops
      <3>2. QED
          BY <2>1, <2>2, <2>3, <2>4, <2>8, <3>1 DEF Drops, LossBound
    <2>9. CASE Empties
        BY <2>9 DEF Empties, LossBound
    <2>10. QED
        BY <2>1, <2>5, <2>6, <2>7, <2>8, <2>9
  <1>3. QED
      BY <1>1, <1>2, IInvCorrect, TypeCorrect, PTL DEF Spec

-----------------------------------------------------------------------------
(* Usage records *)

\* A row never runs ahead of its counter, nor does what is about to be committed;
\* a counter read is at least what its row holds.
Copied ==
    ~wiped => \A k \in Keys :
        /\ sql[k] <= usage[k]
        /\ pc[Gateway] = "read" /\ tx[Gateway][k] # 0 =>
               sql[k] <= tx[Gateway][k] /\ tx[Gateway][k] <= usage[k]

\* Without faults a flush reads every counter as it is, and rows and counters agree
\* from its commit until it is over.
Clean ==
    faults = 0 =>
        /\ ~wiped /\ pc[Gateway] \notin {"backoff", "down"}
        /\ pc[Gateway] = "read" =>
               \A k \in Keys : k \notin todo[Gateway] => tx[Gateway][k] = usage[k]
        /\ pc[Gateway] \in {"lrange", "ltrim", "insert", "stopped"} => sql = usage

Rises == ~wiped => \A k \in Keys : sql[k] <= sql'[k]

LEMMA UsageStep ==
    ASSUME TypeOK, Copied, Clean, [Next]_vars
    PROVE  Copied' /\ Clean' /\ Rises
  <1> DEFINE Goal == Copied' /\ Clean' /\ Rises
  <1>0. /\ Processes = {Gateway} /\ Gateway \in Processes
        /\ pc \in [Processes -> Labels] /\ todo \in [Processes -> SUBSET Keys]
        /\ tx \in [Processes -> [Keys -> Nat]]
        /\ usage \in [Keys -> Nat] /\ sql \in [Keys -> Nat]
        /\ faults \in Nat /\ wiped \in BOOLEAN
      BY SoloAssumption, FlusherAssumption DEF TypeOK, Labels
  <1>r. ASSUME sql' = sql PROVE Rises
      BY <1>0, <1>r DEF Rises
  <1>1. ASSUME UNCHANGED <<pc, todo, tx, sql, wiped>>, faults' \in {faults, faults + 1},
               pc[Gateway] \in Idle, \/ UNCHANGED usage
                                     \/ \E k \in Keys : usage' = [usage EXCEPT ![k] = @ + 1]
        PROVE  Goal
    <2>1. usage' \in [Keys -> Nat] /\ \A k \in Keys : usage[k] <= usage'[k]
        BY <1>0, <1>1
    <2>2. Copied'
        BY <1>0, <1>1, <2>1 DEF Copied, Idle
    <2>3. Clean'
        BY <1>0, <1>1 DEF Clean, Idle
    <2>4. QED
        BY <1>1, <1>r, <2>2, <2>3
  <1>2. ASSUME ServeError(Gateway) \/ \E k \in Keys : Serve(Gateway, k) \/ ServeHalf(Gateway, k)
        PROVE  Goal
    <2>1. /\ UNCHANGED <<pc, todo, tx, sql, wiped>> /\ faults' \in {faults, faults + 1}
          /\ pc[Gateway] \in Idle
        BY <1>2 DEF ServeError, Serve, ServeHalf, Fault, tables, flusher
    <2>2. UNCHANGED usage \/ \E k \in Keys : usage' = [usage EXCEPT ![k] = @ + 1]
        BY <1>2 DEF ServeError, Serve, ServeHalf, Count
    <2>3. QED
        BY <1>1, <2>1, <2>2
  <1>3. ASSUME UNCHANGED <<usage, sql, wiped, faults>>, pc'[Gateway] \notin {"read", "backoff", "down"},
               pc'[Gateway] \in {"lrange", "ltrim", "insert", "stopped"} /\ faults = 0 =>
                   sql = usage
        PROVE  Goal
    <2>1. Copied' /\ Clean'
        BY <1>0, <1>3 DEF Copied, Clean
    <2>2. QED
        BY <1>3, <1>r, <2>1
  <1>4. ASSUME Wake(Gateway) \/ Start(Gateway) \/ Resume(Gateway) PROVE Goal
    <2>1. UNCHANGED <<usage, sql, wiped, faults>> /\ pc'[Gateway] \in {"scan", "sleep"}
        BY <1>0, <1>4 DEF Wake, Start, Resume, Goto, redis, tables
    <2>2. QED
        BY <1>3, <2>1
  <1>5. ASSUME Cancel(Gateway) PROVE Goal
    <2>1. UNCHANGED <<usage, sql, wiped, faults>>
        BY <1>5 DEF Cancel, redis, tables
    <2>2. \/ pc'[Gateway] = "scan"
          \/ pc[Gateway] = "backoff" /\ pc'[Gateway] = "stopped"
        BY <1>0, <1>5 DEF Cancel, Goto
    <2>3. pc[Gateway] = "backoff" => faults # 0
        BY DEF Clean
    <2>4. QED
        BY <1>3, <2>1, <2>2, <2>3
  <1>6. ASSUME Scan(Gateway) PROVE Goal
    <2>1. /\ pc'[Gateway] = "read" /\ UNCHANGED <<usage, sql, wiped, faults>>
          /\ todo'[Gateway] = {k \in Keys : usage[k] > 0} /\ tx'[Gateway] = NoCounters
          /\ pc[Gateway] = "scan"
        BY <1>0, <1>6 DEF Scan, Goto, redis, tables
    <2>2. \A k \in Keys : tx'[Gateway][k] = 0 /\ (k \notin todo'[Gateway] => usage[k] = 0)
        BY <1>0, <2>1 DEF NoCounters
    <2>3. Copied' /\ Clean'
        BY <1>0, <2>1, <2>2 DEF Copied, Clean
    <2>4. QED
        BY <1>r, <2>1, <2>3
  <1>7. ASSUME Read(Gateway) PROVE Goal
    <2>1. PICK key \in todo[Gateway] :
             /\ todo' = [todo EXCEPT ![Gateway] = @ \ {key}]
             /\ tx' = [tx EXCEPT ![Gateway][key] = usage[key]]
        BY <1>7 DEF Read
    <2>2. pc[Gateway] = "read" /\ UNCHANGED <<usage, sql, pc, wiped, faults>>
        BY <1>7 DEF Read, redis, tables
    <2>3. /\ key \in Keys /\ todo'[Gateway] = todo[Gateway] \ {key}
          /\ \A k \in Keys : tx'[Gateway][k] = IF k = key THEN usage[k] ELSE tx[Gateway][k]
        BY <1>0, <2>1
    <2>4. Copied' /\ Clean'
        BY <1>0, <2>2, <2>3 DEF Copied, Clean
    <2>5. QED
        BY <1>r, <2>2, <2>4
  <1>8. ASSUME Commit(Gateway) PROVE Goal
    <2>1. /\ pc[Gateway] = "read" /\ todo[Gateway] = {} /\ pc'[Gateway] = "lrange"
          /\ UNCHANGED <<usage, wiped, faults>>
          /\ sql' = [k \in Keys |-> IF tx[Gateway][k] > 0 THEN tx[Gateway][k] ELSE sql[k]]
        BY <1>0, <1>8 DEF Commit, Goto, redis
    <2>2. Rises
        BY <1>0, <2>1 DEF Rises, Copied
    <2>3. Copied'
        BY <1>0, <2>1 DEF Copied
    <2>4. ASSUME faults = 0 PROVE sql' = usage
      <3>1. \A k \in Keys : tx[Gateway][k] = usage[k] /\ sql[k] <= usage[k]
          BY <2>1, <2>4 DEF Clean, Copied
      <3>2. \A k \in Keys : sql'[k] = usage[k]
          BY <1>0, <2>1, <3>1
      <3>3. QED
          BY <1>0, <2>1, <3>2
    <2>5. Clean'
        BY <2>1, <2>4 DEF Clean
    <2>6. QED
        BY <2>2, <2>3, <2>5
  <1>9. ASSUME faults' = faults + 1, UNCHANGED <<usage, sql, wiped>>, pc'[Gateway] # "read"
        PROVE  Goal
      BY <1>0, <1>9, <1>r DEF Copied, Clean
  <1>10. ASSUME \/ Rollback(Gateway) \/ InsertFails(Gateway) \/ RedisFails(Gateway)
                \/ Crash(Gateway)
         PROVE  Goal
    <2>1. faults' = faults + 1 /\ UNCHANGED <<usage, sql, wiped>>
        BY <1>10 DEF Rollback, InsertFails, RedisFails, Crash, Fault, redis, tables
    <2>2. pc'[Gateway] # "read"
        BY <1>0, <1>10 DEF Rollback, InsertFails, RedisFails, Crash, Goto, Finish, Escape
    <2>3. QED
        BY <1>9, <2>1, <2>2
  <1>11. ASSUME Lrange(Gateway) \/ Ltrim(Gateway) \/ Insert(Gateway) PROVE Goal
    <2>1. /\ UNCHANGED <<usage, sql, wiped, faults>>
          /\ pc[Gateway] \in {"lrange", "ltrim", "insert"}
        BY <1>11 DEF Lrange, Ltrim, Insert, redis, tables
    <2>2. pc'[Gateway] \in {"ltrim", "insert", "sleep", "stopped"}
        BY <1>0, <1>11 DEF Lrange, Ltrim, Insert, Goto, Finish
    <2>3. faults = 0 => sql = usage
        BY <2>1 DEF Clean
    <2>4. QED
        BY <1>3, <2>1, <2>2, <2>3
  <1>12. ASSUME FlushAll PROVE Goal
    <2>1. wiped' /\ faults' = faults + 1 /\ sql' = sql
        BY <1>12 DEF FlushAll, Fault, tables
    <2>2. QED
        BY <1>0, <1>r, <2>1 DEF Copied, Clean
  <1>13. ASSUME UNCHANGED vars PROVE Goal
      BY <1>13, <1>r DEF vars, redis, tables, flusher, Copied, Clean
  <1>14. QED
    <2>1. CASE \E p \in Processes :
                  \/ \E k \in Keys : Serve(p, k) \/ ServeHalf(p, k)
                  \/ ServeError(p)
        BY <1>0, <1>2, <2>1
    <2>2. CASE \E p \in Processes :
                  \/ Progress(p) \/ Rollback(p) \/ InsertFails(p) \/ RedisFails(p)
                  \/ Cancel(p) \/ Crash(p) \/ Start(p)
        BY <1>0, <1>4, <1>5, <1>6, <1>7, <1>8, <1>10, <1>11, <2>2 DEF Progress
    <2>3. QED
        BY <1>12, <1>13, <2>1, <2>2 DEF Next

LEMMA UsageKept == Spec => [](Copied /\ Clean)
  <1>1. Init => Copied /\ Clean
      BY SoloAssumption DEF Init, Copied, Clean, NoCounters
  <1>2. TypeOK /\ Copied /\ Clean /\ [Next]_vars => Copied' /\ Clean'
      BY UsageStep
  <1>3. QED
      BY <1>1, <1>2, TypeCorrect, PTL DEF Spec

\* The SQL usage record of a user and day never decreases, unless an admin flushed
\* the Redis counters the flusher copies (flush_usage_to_sql).
THEOREM UsageCorrect == Spec => UsageMonotone
  <1>1. TypeOK /\ Copied /\ Clean /\ [Next]_vars => Rises
      BY UsageStep
  <1>2. Rises => [~wiped => \A k \in Keys : sql[k] <= sql'[k]]_vars
      BY DEF Rises
  <1>3. QED
      BY <1>1, <1>2, UsageKept, TypeCorrect, PTL DEF Spec, UsageMonotone

\* Without faults a gateway that is stopped leaves no count behind
\* (usage_flush_loop and the final flush of its cancellation).
THEOREM StopCorrect == Spec => []StopLeavesNoCount
  <1>1. Clean => StopLeavesNoCount
      BY DEF Clean, StopLeavesNoCount, Stopped
  <1>2. QED
      BY <1>1, UsageKept, PTL
=============================================================================
