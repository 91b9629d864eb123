----------------------------- MODULE AuditTrail -----------------------------
(***************************************************************************)
(* What the audit pipeline promises, without Redis, SQL or a flusher: each *)
(* entry is recorded at most once, in the order the entries were buffered. *)
(* A fault may drop a run of the entries still pending; nothing ever       *)
(* returns an entry, repeats it or reorders it.                            *)
(***************************************************************************)
EXTENDS Naturals, Sequences

CONSTANT Entries

VARIABLES
    pending,    \* buffered and not yet recorded, oldest first
    recorded    \* the rows of the audit table, in insertion order

trail == <<pending, recorded>>

Init == pending = <<>> /\ recorded = <<>>

Buffer(e) ==
    /\ pending' = Append(pending, e)
    /\ UNCHANGED recorded

\* The n oldest pending entries become rows together.
Record(n) ==
    /\ recorded' = recorded \o SubSeq(pending, 1, n)
    /\ pending' = SubSeq(pending, n + 1, Len(pending))

\* A fault keeps the entries from position m to position n only.
Lose(m, n) ==
    /\ pending' = SubSeq(pending, m, n)
    /\ UNCHANGED recorded

Next ==
    \/ \E e \in Entries : Buffer(e)
    \/ \E n \in 1 .. Len(pending) : Record(n)
    \/ \E m \in 1 .. Len(pending) + 1, n \in 0 .. Len(pending) : Lose(m, n)

Spec == Init /\ [][Next]_trail
=============================================================================
