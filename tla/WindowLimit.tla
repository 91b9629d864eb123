---------------------------- MODULE WindowLimit ----------------------------
(***************************************************************************)
(* What a sliding-window limit promises, without Redis: a call is granted  *)
(* a place among those of the window or finds them taken.  Calls that race *)
(* for the last place may take Spare places more.  A place is held for as  *)
(* long as its call is in the window, unless a call got lost: one that     *)
(* took its place and then failed.                                         *)
(***************************************************************************)
EXTENDS Integers, FiniteSets

CONSTANTS Requests, Limit, Spare, Window

VARIABLES
    time,
    stamp,      \* when each call came
    verdict,    \* "none", "asked", "granted", "refused", "error" or "lost"
    held        \* the calls that hold a place

places == <<time, stamp, verdict, held>>

Init ==
    /\ time = 0
    /\ stamp = [r \in Requests |-> 0]
    /\ verdict = [r \in Requests |-> "none"]
    /\ held = {}

Turns(r, from, to) == verdict[r] = from /\ verdict' = [verdict EXCEPT ![r] = to]

Ask(r) ==
    /\ Turns(r, "none", "asked")
    /\ stamp' = [stamp EXCEPT ![r] = time]
    /\ UNCHANGED <<time, held>>

Grant(r) ==
    /\ Turns(r, "asked", "granted")
    /\ held' = held \cup {r} /\ Cardinality(held') <= Limit + Spare
    /\ UNCHANGED <<time, stamp>>

\* Only calls of its own window can have a call refused.
Refuse(r) ==
    /\ Turns(r, "asked", "refused")
    /\ Cardinality({q \in held : stamp[q] > stamp[r] - Window}) >= Limit
    /\ UNCHANGED <<time, stamp, held>>

\* A call that fails gives its place back, or is lost with it.
Fail(r) ==
    /\ \/ Turns(r, "asked", "error") /\ UNCHANGED held
       \/ Turns(r, "granted", "error") /\ held' = held \ {r}
       \/ Turns(r, "granted", "lost") /\ UNCHANGED held
    /\ UNCHANGED <<time, stamp>>

\* Places of calls that have left the window are given up, at any time.
Leave ==
    /\ time' \in {time, time + 1}
    /\ held' \subseteq held
    /\ \A q \in held \ held' : stamp[q] <= time' - Window \/ \E r \in Requests : verdict[r] = "lost"
    /\ UNCHANGED <<stamp, verdict>>

Next ==
    \/ \E r \in Requests : Ask(r) \/ Grant(r) \/ Refuse(r) \/ Fail(r)
    \/ Leave

Spec == Init /\ [][Next]_places
=============================================================================
