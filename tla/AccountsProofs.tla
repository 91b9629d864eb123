--------------------------- MODULE AccountsProofs ---------------------------
(***************************************************************************)
(* Proofs about Accounts, for every number of users, threads and           *)
(* organizations, every limit and every bound on crashes.                  *)
(***************************************************************************)
EXTENDS Accounts, FiniteSetTheorems, TLAPS

\* The row of a thread's user, and its organization, are known when needed.
Known ==
    \A t \in Threads :
        /\ pc[t] \in {"insert user", "insert key", "count", "commit"} => user[t] \in Users
        /\ pc[t] = "insert key" => user[t] \in users
        /\ pc[t] \in {"insert org", "count", "commit"} => target[t] \in Orgs

\* What startup has gone through is there, and that is everything once it serves.
Seeded ==
    /\ \A i \in 1 .. at - 1 : Startup[i] \in Rows
    /\ serving => at = Len(Startup) + 1

Base == TypeOK /\ Known /\ Seeded /\ (seeding # None => seeding \in users)

\* Whoever is about to commit a key for a user is alone in it.
KeyInv ==
    /\ OneKey
    /\ seeding # None => keys[seeding] = 0
    /\ \A t \in Threads : pc[t] = "insert key" => keys[user[t]] = 0 /\ user[t] # seeding
    /\ \A s, t \in Threads :
         pc[s] = "insert key" /\ pc[t] = "insert key" /\ user[s] = user[t] => s = t

Committing(o) == {t \in Threads : pc[t] = "commit" /\ target[t] = o}

\* Members and those who passed the count fit the limit and the threads.
MemberInv ==
    \A o \in Orgs :
        Cardinality(Members(o)) + Cardinality(Committing(o)) <= MaxUsers[o] - 1 + Cardinality(Threads)

-----------------------------------------------------------------------------
\* One more key for a user is a number of keys for each user.
LEMMA OneMore ==
    ASSUME NEW f \in [Users -> Nat], NEW u \in Users
    PROVE  [f EXCEPT ![u] = @ + 1] \in [Users -> Nat]
  OBVIOUS

\* A failure counts.
LEMMA CrashesType == TypeOK /\ crashes' = crashes + 1 => crashes' \in Nat
  <1>1. TypeOK => crashes \in Nat
      BY DEF TypeOK
  <1>2. QED
      BY <1>1

\* The types of the variables, without what serving promises.
Typed ==
    /\ users \subseteq Users /\ keys \in [Users -> Nat]
    /\ org \in [Users -> Orgs \cup {None}] /\ orgs \subseteq Orgs /\ catalog \subseteq Catalog
    /\ serving \in BOOLEAN /\ seeding \in Users \cup {None}
    /\ at \in 1 .. Len(Startup) + 1
    /\ pc \in [Threads -> {"idle", "insert user", "insert key", "insert org", "count", "commit"}]
    /\ user \in [Threads -> Users \cup {None}] /\ target \in [Threads -> Orgs \cup {None}]
    /\ loaded \in [Threads -> Orgs \cup {None}]
    /\ crashes \in Nat
    /\ serving => seeding = None

\* Startup that has gone through all its rows has seeded them all.
LEMMA SeededServes == ASSUME Seeded, serving PROVE Seeds \subseteq Rows
  <1>1. Len(Startup) \in Nat /\ DOMAIN Startup = 1 .. Len(Startup)
      BY AccountsAssumption
  <1>2. at - 1 = Len(Startup)
      BY <1>1 DEF Seeded
  <1>3. QED
      BY <1>1, <1>2 DEF Seeded, Seeds

LEMMA BaseParts == Base <=> Typed /\ Known /\ Seeded /\ (seeding # None => seeding \in users)
  <1>1. Seeded /\ serving => Seeds \subseteq Rows
      BY SeededServes
  <1>2. QED
      BY <1>1 DEF Base, TypeOK, Typed

\* Rows are never deleted, so a startup that stands still keeps what it relies on.
LEMMA SeededKept ==
    ASSUME Seeded, Rows \subseteq Rows', UNCHANGED <<serving, at>>
    PROVE  Seeded'
  <1>1. \A i \in 1 .. at' - 1 : Startup[i] \in Rows'
      BY DEF Seeded
  <1>2. serving' => at' = Len(Startup) + 1
      BY DEF Seeded
  <1>3. QED
      BY <1>1, <1>2 DEF Seeded

\* A startup that gets past a row leaves it in its table.
LEMMA SeededStep ==
    ASSUME Typed, Seeded, Rows \subseteq Rows', NEW row \in Rows', Reach(row),
           UNCHANGED serving
    PROVE  Seeded' /\ at' \in 1 .. Len(Startup) + 1 /\ ~ serving
  <1>1. Len(Startup) \in Nat /\ at \in 1 .. Len(Startup) /\ at' = at + 1 /\ row = Startup[at]
      BY AccountsAssumption DEF Reach
  <1>2. ~ serving
    <2>1. serving => at = Len(Startup) + 1
        BY DEF Seeded
    <2>2. at # Len(Startup) + 1
        BY <1>1
    <2>3. QED
        BY <2>1, <2>2
  <1>3. ASSUME NEW i \in 1 .. at' - 1 PROVE Startup[i] \in Rows'
    <2>1. i \in 1 .. at - 1 \/ i = at
        BY <1>1, <1>3
    <2>2. QED
        BY <1>1, <2>1 DEF Seeded
  <1>4. serving' => at' = Len(Startup) + 1
      BY <1>2
  <1>5. at' \in 1 .. Len(Startup) + 1
      BY <1>1
  <1>6. QED
      BY <1>2, <1>3, <1>4, <1>5 DEF Seeded

LEMMA NextBase == Base /\ [Next]_vars => Base'
  <1> SUFFICES ASSUME Base, [Next]_vars PROVE Base'
      OBVIOUS
  <1>0. /\ Typed /\ Known /\ Seeded /\ (seeding # None => seeding \in users) /\ TypeOK
        /\ keys \in [Users -> Nat] /\ None \notin Users \cup Orgs
      BY BaseParts, AccountsAssumption DEF Typed, Base
  <1>P. SUFFICES Typed' /\ Known' /\ Seeded' /\ (seeding # None => seeding \in users)'
      <2>1. Base' <=> Typed' /\ Known' /\ Seeded' /\ (seeding # None => seeding \in users)'
          BY BaseParts, PTL
      <2>2. QED
          BY <2>1
  <1> DEFINE Goal == Typed' /\ Known' /\ Seeded' /\ (seeding # None => seeding \in users)'
  <1>1. ASSUME NEW row \in Rows, Reach(row),
               UNCHANGED <<tables, serving, seeding, pc, locals, crashes>>
        PROVE  Goal
    <2>1. Rows' = Rows
        BY <1>1 DEF tables, Rows
    <2>2. Seeded' /\ at' \in 1 .. Len(Startup) + 1
        BY <1>0, <1>1, <2>1, SeededStep
    <2>3. QED
        BY <1>0, <1>1, <2>2 DEF Typed, Known, tables, locals
  <1>2. ASSUME NEW row \in Catalog, Reach(row), catalog' = catalog \cup {row},
               UNCHANGED <<users, keys, org, orgs, serving, seeding, pc, locals, crashes>>
        PROVE  Goal
    <2>1. Rows \subseteq Rows' /\ row \in Rows'
        BY <1>2 DEF Rows
    <2>2. Seeded' /\ at' \in 1 .. Len(Startup) + 1
        BY <1>0, <1>2, <2>1, SeededStep
    <2>3. QED
        BY <1>0, <1>2, <2>2 DEF Typed, Known, locals
  <1>3. ASSUME NEW row \in Orgs, Reach(row), orgs' = orgs \cup {row},
               UNCHANGED <<users, keys, org, catalog, serving, seeding, pc, locals, crashes>>
        PROVE  Goal
    <2>1. Rows \subseteq Rows' /\ row \in Rows'
        BY <1>3 DEF Rows
    <2>2. Seeded' /\ at' \in 1 .. Len(Startup) + 1
        BY <1>0, <1>3, <2>1, SeededStep
    <2>3. QED
        BY <1>0, <1>3, <2>2 DEF Typed, Known, locals
  <1>4. ASSUME NEW row \in Users, Reach(row), users' = users \cup {row}, seeding' = row,
               UNCHANGED <<keys, org, orgs, catalog, serving, pc, locals, crashes>>
        PROVE  Goal
    <2>1. Rows \subseteq Rows' /\ row \in Rows'
        BY <1>4 DEF Rows
    <2>2. Seeded' /\ at' \in 1 .. Len(Startup) + 1 /\ ~ serving
        BY <1>0, <1>4, <2>1, SeededStep
    <2>3. QED
        BY <1>0, <1>4, <2>2 DEF Typed, Known, locals
  <1> USE DEF From
  <1>5. CASE SeedKey
    <2>1. keys' \in [Users -> Nat]
      <3>1. seeding \in Users
          BY <1>0, <1>5 DEF SeedKey, Typed
      <3>2. QED
          BY <1>0, <1>5, <3>1, OneMore DEF SeedKey
    <2>2. Seeded'
      <3>1. Rows \subseteq Rows' /\ UNCHANGED <<serving, at>>
          BY <1>5 DEF SeedKey, Rows
      <3>2. QED
          BY <1>0, <3>1, SeededKept
    <2>3. QED
        BY <1>0, <1>5, <2>1, <2>2 DEF SeedKey, Typed, Known, locals
  <1>6. CASE Serve
    <2>1. Seeded'
        BY <1>0, <1>6 DEF Serve, Seeded, Rows, tables
    <2>2. QED
        BY <1>0, <1>6, <2>1 DEF Serve, Typed, Known, tables, locals
  <1>7. CASE Crash
    <2>1. Seeded'
      <3>1. at' = 1 /\ serving' = FALSE
          BY <1>7 DEF Crash
      <3>2. 1 .. at' - 1 = {} /\ ~ serving'
          BY <3>1
      <3>3. QED
          BY <3>2 DEF Seeded
    <2>2. crashes' \in Nat
        BY <1>0, <1>7, CrashesType DEF Crash
    <2>3. Typed'
      <3>1. at' \in 1 .. Len(Startup) + 1
        <4>1. Len(Startup) \in Nat /\ at' = 1
            BY <1>7, AccountsAssumption DEF Crash
        <4>2. QED
            BY <4>1
      <3>2. pc' \in [Threads -> {"idle", "insert user", "insert key", "insert org", "count", "commit"}]
          BY <1>7 DEF Crash
      <3>3. serving' = FALSE /\ seeding' = None
          BY <1>7 DEF Crash
      <3>4. QED
          BY <1>0, <1>7, <2>2, <3>1, <3>2, <3>3 DEF Crash, Typed, tables, locals
    <2>4. QED
        BY <1>7, <2>1, <2>3 DEF Crash, Known
  <1>8. ASSUME NEW t \in Threads, NEW u \in Users, Register(t, u) PROVE Goal
    <2>1. Seeded'
      <3>1. Rows \subseteq Rows' /\ UNCHANGED <<serving, at>>
          BY <1>8 DEF Register, Rows, tables, startup
      <3>2. QED
          BY <1>0, <3>1, SeededKept
    <2>2. pc' = [pc EXCEPT ![t] = "insert user"] /\ user' = [user EXCEPT ![t] = u]
        BY <1>8 DEF Register
    <2>3. pc' \in [Threads -> {"idle", "insert user", "insert key", "insert org", "count", "commit"}]
        BY <1>0, <2>2 DEF Typed
    <2>4. Typed'
      <3>1. user' \in [Threads -> Users \cup {None}]
          BY <1>0, <2>2 DEF Typed
      <3>2. UNCHANGED <<users, keys, org, orgs, catalog, serving, at, seeding, target, loaded, crashes>>
          BY <1>8 DEF Register, tables, startup
      <3>3. QED
          BY <1>0, <2>3, <3>1, <3>2 DEF Typed
    <2>5. Known'
        BY <1>0, <1>8, <2>2 DEF Register, Typed, Known, tables
    <2>6. QED
        BY <1>0, <1>8, <2>1, <2>4, <2>5 DEF Register, tables, startup
  <1>9. ASSUME NEW t \in Threads, InsertUser(t) PROVE Goal
    <2>1. Seeded'
      <3>1. Rows \subseteq Rows' /\ UNCHANGED <<serving, at>>
          BY <1>9 DEF InsertUser, Rows, startup
      <3>2. QED
          BY <1>0, <3>1, SeededKept
    <2>2. users' \subseteq Users /\ users \subseteq users' /\ user[t] \in users'
        BY <1>0, <1>9 DEF InsertUser, Typed, Known
    <2>3. pc' \in [Threads -> {"idle", "insert user", "insert key", "insert org", "count", "commit"}]
        BY <1>0, <1>9 DEF InsertUser, Typed
    <2>4. Typed'
        BY <1>0, <1>9, <2>2, <2>3 DEF InsertUser, Typed, startup, locals
    <2>5. Known'
        BY <1>0, <1>9, <2>2 DEF InsertUser, Typed, Known, locals
    <2>6. QED
        BY <1>0, <1>9, <2>1, <2>2, <2>4, <2>5 DEF InsertUser, startup
  <1>10. ASSUME NEW t \in Threads, InsertKey(t) PROVE Goal
    <2>1. Seeded'
      <3>1. Rows \subseteq Rows' /\ UNCHANGED <<serving, at>>
          BY <1>10 DEF InsertKey, Rows, startup
      <3>2. QED
          BY <1>0, <3>1, SeededKept
    <2>2. keys' \in [Users -> Nat]
      <3>1. user[t] \in Users
          BY <1>0, <1>10 DEF InsertKey, Known
      <3>2. QED
          BY <1>0, <1>10, <3>1, OneMore DEF InsertKey
    <2>3. pc' \in [Threads -> {"idle", "insert user", "insert key", "insert org", "count", "commit"}]
        BY <1>0, <1>10 DEF InsertKey, Typed
    <2>4. Typed'
        BY <1>0, <1>10, <2>2, <2>3 DEF InsertKey, Typed, startup, locals
    <2>5. Known'
        BY <1>0, <1>10 DEF InsertKey, Typed, Known, locals
    <2>6. QED
        BY <1>0, <1>10, <2>1, <2>4, <2>5 DEF InsertKey, startup
  <1>11. ASSUME NEW t \in Threads, NEW o \in Orgs, CreateOrg(t, o) PROVE Goal
    <2>1. Seeded'
      <3>1. Rows \subseteq Rows' /\ UNCHANGED <<serving, at>>
          BY <1>11 DEF CreateOrg, Rows, tables, startup
      <3>2. QED
          BY <1>0, <3>1, SeededKept
    <2>2. pc' = [pc EXCEPT ![t] = "insert org"] /\ target' = [target EXCEPT ![t] = o]
        BY <1>11 DEF CreateOrg
    <2>3. pc' \in [Threads -> {"idle", "insert user", "insert key", "insert org", "count", "commit"}]
        BY <1>0, <2>2 DEF Typed
    <2>4. Typed'
      <3>1. target' \in [Threads -> Orgs \cup {None}]
          BY <1>0, <2>2 DEF Typed
      <3>2. UNCHANGED <<users, keys, org, orgs, catalog, serving, at, seeding, user, loaded, crashes>>
          BY <1>11 DEF CreateOrg, tables, startup
      <3>3. QED
          BY <1>0, <2>3, <3>1, <3>2 DEF Typed
    <2>5. Known'
        BY <1>0, <1>11, <2>2 DEF CreateOrg, Typed, Known, tables
    <2>6. QED
        BY <1>0, <1>11, <2>1, <2>4, <2>5 DEF CreateOrg, tables, startup
  <1>12. ASSUME NEW t \in Threads, InsertOrg(t) PROVE Goal
    <2>1. Seeded'
      <3>1. Rows \subseteq Rows' /\ UNCHANGED <<serving, at>>
          BY <1>12 DEF InsertOrg, Rows, startup
      <3>2. QED
          BY <1>0, <3>1, SeededKept
    <2>2. orgs' \subseteq Orgs
        BY <1>0, <1>12 DEF InsertOrg, Typed, Known
    <2>3. pc' \in [Threads -> {"idle", "insert user", "insert key", "insert org", "count", "commit"}]
        BY <1>0, <1>12 DEF InsertOrg, Typed
    <2>4. Typed'
        BY <1>0, <1>12, <2>2, <2>3 DEF InsertOrg, Typed, startup, locals
    <2>5. Known'
        BY <1>0, <1>12 DEF InsertOrg, Typed, Known, locals
    <2>6. QED
        BY <1>0, <1>12, <2>1, <2>4, <2>5 DEF InsertOrg, startup
  <1>13. ASSUME NEW t \in Threads, NEW u \in Users, NEW o \in Orgs, LoadUser(t, u, o) PROVE Goal
    <2>1. Seeded'
      <3>1. Rows \subseteq Rows' /\ UNCHANGED <<serving, at>>
          BY <1>13 DEF LoadUser, Rows, tables, startup
      <3>2. QED
          BY <1>0, <3>1, SeededKept
    <2>2. /\ pc' = [pc EXCEPT ![t] = "count"] /\ user' = [user EXCEPT ![t] = u]
          /\ target' = [target EXCEPT ![t] = o] /\ loaded' = [loaded EXCEPT ![t] = org[u]]
        BY <1>13 DEF LoadUser
    <2>3. pc' \in [Threads -> {"idle", "insert user", "insert key", "insert org", "count", "commit"}]
        BY <1>0, <2>2 DEF Typed
    <2>4. Typed'
      <3>1. /\ user' \in [Threads -> Users \cup {None}] /\ target' \in [Threads -> Orgs \cup {None}]
            /\ loaded' \in [Threads -> Orgs \cup {None}]
          BY <1>0, <2>2 DEF Typed
      <3>2. QED
          BY <1>0, <1>13, <2>3, <3>1 DEF LoadUser, Typed, tables, startup
    <2>5. Known'
        BY <1>0, <1>13, <2>2 DEF LoadUser, Typed, Known, tables
    <2>6. QED
        BY <1>0, <1>13, <2>1, <2>4, <2>5 DEF LoadUser, tables, startup
  <1>14. ASSUME NEW t \in Threads, CountMembers(t) PROVE Goal
    <2>1. Seeded'
      <3>1. Rows \subseteq Rows' /\ UNCHANGED <<serving, at>>
          BY <1>14 DEF CountMembers, Rows, tables, startup
      <3>2. QED
          BY <1>0, <3>1, SeededKept
    <2>2. QED
        BY <1>0, <1>14, <2>1 DEF CountMembers, Typed, Known, tables, startup, locals
  <1>15. ASSUME NEW t \in Threads, Commit(t) PROVE Goal
    <2>1. Seeded'
      <3>1. Rows \subseteq Rows' /\ UNCHANGED <<serving, at>>
          BY <1>15 DEF Commit, Rows, startup
      <3>2. QED
          BY <1>0, <3>1, SeededKept
    <2>2. QED
        BY <1>0, <1>15, <2>1 DEF Commit, Typed, Known, startup, locals
  <1>16. ASSUME NEW t \in Threads, Fail(t) PROVE Goal
    <2>1. Seeded'
      <3>1. Rows \subseteq Rows' /\ UNCHANGED <<serving, at>>
          BY <1>16 DEF Fail, Rows, tables, startup
      <3>2. QED
          BY <1>0, <3>1, SeededKept
    <2>2. crashes' \in Nat
        BY <1>0, <1>16, CrashesType DEF Fail
    <2>3. pc' \in [Threads -> {"idle", "insert user", "insert key", "insert org", "count", "commit"}]
        BY <1>0, <1>16 DEF Fail, Typed
    <2>4. Typed'
        BY <1>0, <1>16, <2>2, <2>3 DEF Fail, Typed, tables, startup, locals
    <2>5. Known'
        BY <1>0, <1>16 DEF Fail, Typed, Known, tables, locals
    <2>6. QED
        BY <1>0, <1>16, <2>1, <2>4, <2>5 DEF Fail, tables, startup
  <1>17. CASE UNCHANGED vars
    <2>1. Seeded'
      <3>1. Rows \subseteq Rows' /\ UNCHANGED <<serving, at>>
          BY <1>17 DEF vars, Rows
      <3>2. QED
          BY <1>0, <3>1, SeededKept
    <2>2. QED
        BY <1>0, <1>17, <2>1 DEF vars, Typed, Known
  <1>18. Start => Goal
      BY <1>1, <1>2, <1>3, <1>4, <1>5, <1>6 DEF Start, Found, SeedCatalog, SeedOrg, SeedUser
  <1>19. QED
      BY <1>7, <1>8, <1>9, <1>10, <1>11, <1>12, <1>13, <1>14, <1>15, <1>16, <1>17, <1>18 DEF Next

LEMMA BaseInvariant == Spec => []Base
  <1>1. ASSUME Init PROVE Base
    <2>1. Typed
      <3>1. at \in 1 .. Len(Startup) + 1
        <4>1. Len(Startup) \in Nat /\ at = 1
            BY <1>1, AccountsAssumption DEF Init
        <4>2. QED
            BY <4>1
      <3>2. /\ keys \in [Users -> Nat] /\ org \in [Users -> Orgs \cup {None}]
            /\ user \in [Threads -> Users \cup {None}] /\ target \in [Threads -> Orgs \cup {None}]
            /\ loaded \in [Threads -> Orgs \cup {None}]
          BY <1>1 DEF Init
      <3>3. /\ pc \in [Threads -> {"idle", "insert user", "insert key", "insert org", "count", "commit"}]
            /\ crashes \in Nat
          BY <1>1 DEF Init
      <3>4. QED
          BY <1>1, <3>1, <3>2, <3>3 DEF Init, Typed
    <2>2. Known /\ seeding = None
        BY <1>1 DEF Init, Known
    <2>3. Seeded
      <3>1. at = 1 /\ serving = FALSE
          BY <1>1 DEF Init
      <3>2. 1 .. at - 1 = {} /\ ~ serving
          BY <3>1
      <3>3. QED
          BY <3>2 DEF Seeded
    <2>4. QED
        BY <2>1, <2>2, <2>3, BaseParts
  <1>2. QED
      BY <1>1, NextBase, PTL DEF Spec

\* Every variable keeps its type, and requests find the seeded rows.
THEOREM TypeCorrect == Spec => []TypeOK
  <1>1. Base => TypeOK
      BY DEF Base
  <1>2. QED
      BY <1>1, BaseInvariant, PTL

-----------------------------------------------------------------------------
\* An address that is not taken has no key.
LEMMA NoKey ==
    ASSUME TypeOK, OneKey, NEW u \in Users \ users
    PROVE  keys[u] = 0
  <1>1. keys[u] \in Nat
      BY DEF TypeOK
  <1>2. keys[u] <= 1 /\ keys[u] # 1
      BY DEF OneKey
  <1>3. QED
      BY <1>1, <1>2

\* The first key of a user is its only one.
LEMMA FirstKey ==
    ASSUME TypeOK, OneKey, NEW u \in Users, u \in users, keys[u] = 0, users' = users,
           keys' = [keys EXCEPT ![u] = @ + 1]
    PROVE  OneKey'
  <1>1. keys' = [keys EXCEPT ![u] = 1]
      OBVIOUS
  <1> SUFFICES ASSUME NEW v \in Users PROVE keys'[v] <= 1 /\ (keys'[v] = 1 => v \in users)
      BY DEF OneKey
  <1>2. CASE v = u
    <2>1. keys'[v] = 1
        BY <1>1, <1>2 DEF TypeOK
    <2>2. QED
        BY <1>2, <2>1
  <1>3. CASE v # u
    <2>1. keys'[v] = keys[v]
        BY <1>1, <1>3 DEF TypeOK
    <2>2. QED
        BY <2>1 DEF OneKey
  <1>4. QED
      BY <1>2, <1>3

LEMMA NextKeyInv == Base /\ KeyInv /\ [Next]_vars => KeyInv'
  <1> SUFFICES ASSUME Base, KeyInv, [Next]_vars PROVE KeyInv'
      OBVIOUS
  <1>0. TypeOK /\ OneKey
      BY DEF Base, KeyInv
  <1>T. /\ users \subseteq Users /\ keys \in [Users -> Nat] /\ seeding \in Users \cup {None}
        /\ pc \in [Threads -> {"idle", "insert user", "insert key", "insert org", "count", "commit"}]
        /\ user \in [Threads -> Users \cup {None}] /\ (serving => seeding = None)
        /\ Known /\ (seeding # None => seeding \in users) /\ None \notin Users
      BY AccountsAssumption DEF Base, TypeOK
  <1> HIDE DEF Base, TypeOK
  <1> USE <1>T DEF Known, KeyInv, OneKey, tables, startup, locals, From
  <1>1. ASSUME NEW u \in Users \ users, users' = users \cup {u}, seeding' = u, seeding = None,
               UNCHANGED <<keys, pc, user>>
        PROVE  KeyInv'
    <2>1. OneKey'
        BY <1>1
    <2>2. (seeding # None => keys[seeding] = 0)'
      <3>1. keys[u] = 0
          BY <1>0, <1>1, NoKey
      <3>2. QED
          BY <1>1, <3>1
    <2>3. (\A s \in Threads : pc[s] = "insert key" => keys[user[s]] = 0 /\ user[s] # seeding)'
        BY <1>1
    <2>4. (\A r, s \in Threads :
             pc[r] = "insert key" /\ pc[s] = "insert key" /\ user[r] = user[s] => r = s)'
        BY <1>1
    <2>5. QED
        BY <2>1, <2>2, <2>3, <2>4
  <1>2. CASE SeedKey
    <2>a. seeding \in Users /\ seeding \in users
        BY <1>2 DEF SeedKey
    <2>1. OneKey'
      <3>1. keys[seeding] = 0 /\ users' = users /\ keys' = [keys EXCEPT ![seeding] = @ + 1]
          BY <1>2 DEF SeedKey
      <3>2. QED
          BY <1>0, <2>a, <3>1, FirstKey
    <2>2. (seeding # None => keys[seeding] = 0)'
        BY <1>2, <2>a DEF SeedKey
    <2>3. (\A s \in Threads : pc[s] = "insert key" => keys[user[s]] = 0 /\ user[s] # seeding)'
        BY <1>2, <2>a DEF SeedKey
    <2>4. (\A r, s \in Threads :
             pc[r] = "insert key" /\ pc[s] = "insert key" /\ user[r] = user[s] => r = s)'
        BY <1>2, <2>a DEF SeedKey
    <2>5. QED
        BY <2>1, <2>2, <2>3, <2>4
  <1>3. CASE Serve
      BY <1>3 DEF Serve
  <1>4. CASE Crash
      BY <1>4 DEF Crash
  <1>5. ASSUME NEW t \in Threads, NEW u \in Users, Register(t, u) PROVE KeyInv'
      BY <1>5 DEF Register
  <1>6. ASSUME NEW t \in Threads, InsertUser(t) PROVE KeyInv'
    <2>1. OneKey'
        BY <1>6 DEF InsertUser
    <2>2. (seeding # None => keys[seeding] = 0)'
        BY <1>6 DEF InsertUser
    <2>3. (\A s \in Threads : pc[s] = "insert key" => keys[user[s]] = 0 /\ user[s] # seeding)'
      <3> SUFFICES ASSUME NEW s \in Threads, pc'[s] = "insert key"
                   PROVE  keys[user[s]] = 0 /\ user[s] # seeding
          BY <1>6 DEF InsertUser
      <3>1. CASE s = t
        <4>1. user[t] \in Users \ users
            BY <1>6, <3>1 DEF InsertUser
        <4>2. keys[user[t]] = 0
            BY <1>0, <4>1, NoKey
        <4>3. QED
            BY <3>1, <4>1, <4>2
      <3>2. CASE s # t
          BY <1>6, <3>2 DEF InsertUser
      <3>3. QED
          BY <3>1, <3>2
    <2>4. (\A r, s \in Threads :
             pc[r] = "insert key" /\ pc[s] = "insert key" /\ user[r] = user[s] => r = s)'
        BY <1>6 DEF InsertUser
    <2>5. QED
        BY <2>1, <2>2, <2>3, <2>4
  <1>7. ASSUME NEW t \in Threads, InsertKey(t) PROVE KeyInv'
    <2>a. user[t] \in Users /\ user[t] \in users
        BY <1>7 DEF InsertKey
    <2>1. OneKey'
      <3>1. keys[user[t]] = 0 /\ users' = users /\ keys' = [keys EXCEPT ![user[t]] = @ + 1]
          BY <1>7 DEF InsertKey
      <3>2. QED
          BY <1>0, <2>a, <3>1, FirstKey
    <2>2. (seeding # None => keys[seeding] = 0)'
        BY <1>7, <2>a DEF InsertKey
    <2>3. (\A s \in Threads : pc[s] = "insert key" => keys[user[s]] = 0 /\ user[s] # seeding)'
        BY <1>7, <2>a DEF InsertKey
    <2>4. (\A r, s \in Threads :
             pc[r] = "insert key" /\ pc[s] = "insert key" /\ user[r] = user[s] => r = s)'
        BY <1>7, <2>a DEF InsertKey
    <2>5. QED
        BY <2>1, <2>2, <2>3, <2>4
  <1>8. ASSUME NEW t \in Threads, NEW u \in Users, NEW o \in Orgs, LoadUser(t, u, o) PROVE KeyInv'
      BY <1>8 DEF LoadUser
  <1>9. ASSUME NEW t \in Threads, CountMembers(t) PROVE KeyInv'
      BY <1>9 DEF CountMembers
  <1>10. ASSUME NEW t \in Threads, Commit(t) PROVE KeyInv'
      BY <1>10 DEF Commit
  <1>11. ASSUME NEW t \in Threads, Fail(t) PROVE KeyInv'
      BY <1>11 DEF Fail
  <1>12. CASE UNCHANGED vars
      BY <1>12 DEF vars
  <1>13. ASSUME NEW t \in Threads, NEW o \in Orgs, CreateOrg(t, o) PROVE KeyInv'
      BY <1>13 DEF CreateOrg
  <1>14. SeedUser => KeyInv'
      BY <1>1 DEF SeedUser, Reach
  <1>15. ASSUME Found \/ SeedCatalog \/ SeedOrg PROVE KeyInv'
    <2>1. UNCHANGED <<users, keys, seeding, pc, user>>
        BY <1>15 DEF Found, SeedCatalog, SeedOrg
    <2>2. QED
        BY <2>1
  <1>16. ASSUME NEW t \in Threads, InsertOrg(t) PROVE KeyInv'
      BY <1>16 DEF InsertOrg
  <1>17. QED
      BY <1>2, <1>3, <1>4, <1>5, <1>6, <1>7, <1>8, <1>9, <1>10, <1>11, <1>12, <1>13, <1>14,
         <1>15, <1>16 DEF Next, Start

\* Nobody has two API keys, and no key is without its user, however
\* registrations, failures and restarts interleave.
THEOREM KeysCorrect == Spec => []OneKey
  <1>1. Init => KeyInv
      BY AccountsAssumption DEF Init, KeyInv, OneKey
  <1>2. KeyInv => OneKey
      BY DEF KeyInv
  <1>3. QED
      BY <1>1, <1>2, NextKeyInv, BaseInvariant, PTL DEF Spec

-----------------------------------------------------------------------------
\* Members and committing threads are finite sets, the latter of the threads.
LEMMA Finite ==
    ASSUME NEW o
    PROVE  /\ IsFiniteSet(Members(o)) /\ Cardinality(Members(o)) \in Nat
           /\ IsFiniteSet(Committing(o)) /\ Cardinality(Committing(o)) \in Nat
           /\ Cardinality(Committing(o)) <= Cardinality(Threads)
           /\ Cardinality(Threads) \in Nat
  <1>1. Members(o) \subseteq Users /\ Committing(o) \subseteq Threads
      BY DEF Members, Committing
  <1>2. QED
      BY <1>1, AccountsAssumption, FS_Subset, FS_CardinalityType

\* An organization that neither gains a member nor a committing thread keeps its
\* bound.
LEMMA NoGain ==
    ASSUME NEW o \in Orgs, MemberInv, Members(o)' \subseteq Members(o),
           Committing(o)' \subseteq Committing(o)
    PROVE  Cardinality(Members(o)') + Cardinality(Committing(o)')
             <= MaxUsers[o] - 1 + Cardinality(Threads)
  <1>1. Cardinality(Members(o)') <= Cardinality(Members(o)) /\ Cardinality(Members(o)') \in Nat
      BY Finite, FS_Subset, FS_CardinalityType
  <1>2. Cardinality(Committing(o)') <= Cardinality(Committing(o)) /\ Cardinality(Committing(o)') \in Nat
      BY Finite, FS_Subset, FS_CardinalityType
  <1>3. Cardinality(Members(o)) + Cardinality(Committing(o)) <= MaxUsers[o] - 1 + Cardinality(Threads)
      BY DEF MemberInv
  <1>4. QED
      BY <1>1, <1>2, <1>3, Finite, AccountsAssumption

\* A count that passes leaves room for every thread at its commit.
LEMMA CountKeeps ==
    ASSUME Base, MemberInv, NEW t \in Threads, CountMembers(t), NEW o \in Orgs
    PROVE  Cardinality(Members(o)') + Cardinality(Committing(o)')
             <= MaxUsers[o] - 1 + Cardinality(Threads)
  <1>1. Members(o)' = Members(o)
      BY DEF CountMembers, Members, tables
  <1>2. CASE target[t] = o /\ Cardinality(Members(o)) < MaxUsers[o]
    <2>1. Cardinality(Committing(o)') <= Cardinality(Threads) /\ Cardinality(Committing(o)') \in Nat
      <3>1. Committing(o)' \subseteq Threads
          BY DEF Committing
      <3>2. QED
          BY <3>1, AccountsAssumption, FS_Subset, FS_CardinalityType
    <2>2. QED
        BY <1>1, <1>2, <2>1, Finite, AccountsAssumption
  <1>3. CASE ~ (target[t] = o /\ Cardinality(Members(o)) < MaxUsers[o])
    <2>1. target[t] = o => Cardinality(Members(target[t])) >= MaxUsers[target[t]]
        BY <1>3, Finite, AccountsAssumption
    <2>2. Committing(o)' \subseteq Committing(o)
        BY <2>1 DEF Base, TypeOK, CountMembers, From, Committing, locals
    <2>3. QED
        BY <1>1, <2>2, NoGain
  <1>4. QED
      BY <1>2, <1>3

\* A commit moves its thread's place to its user.
LEMMA CommitKeeps ==
    ASSUME Base, MemberInv, NEW t \in Threads, Commit(t), NEW o \in Orgs
    PROVE  Cardinality(Members(o)') + Cardinality(Committing(o)')
             <= MaxUsers[o] - 1 + Cardinality(Threads)
  <1>1. Committing(o)' = Committing(o) \ {t}
      BY DEF Base, TypeOK, Commit, From, Committing, locals
  <1>2. CASE target[t] = o
    <2>1. t \in Committing(o)
        BY <1>2 DEF Commit, From, Committing
    <2>2. Cardinality(Committing(o)') = Cardinality(Committing(o)) - 1
        BY <1>1, <2>1, Finite, FS_RemoveElement
    <2>3. Members(o)' \subseteq Members(o) \cup {user[t]}
        BY <1>2 DEF Base, TypeOK, Commit, Members
    <2>4. Cardinality(Members(o) \cup {user[t]}) <= Cardinality(Members(o)) + 1
          /\ IsFiniteSet(Members(o) \cup {user[t]})
        BY Finite, FS_AddElement, SMTT(30)
    <2>5. Cardinality(Members(o)') <= Cardinality(Members(o) \cup {user[t]})
          /\ Cardinality(Members(o)') \in Nat
        BY <2>3, <2>4, FS_Subset, FS_CardinalityType
    <2>6. Cardinality(Members(o) \cup {user[t]}) \in Nat
        BY <2>4, FS_CardinalityType
    <2>7. Cardinality(Members(o)) + Cardinality(Committing(o)) <= MaxUsers[o] - 1 + Cardinality(Threads)
        BY DEF MemberInv
    <2>8. QED
        BY <2>2, <2>4, <2>5, <2>6, <2>7, Finite, AccountsAssumption
  <1>3. CASE target[t] # o
    <2>1. Members(o)' \subseteq Members(o)
        BY <1>3 DEF Base, TypeOK, Commit, Members
    <2>2. QED
        BY <1>1, <2>1, NoGain
  <1>4. QED
      BY <1>2, <1>3

LEMMA NextMemberInv == Base /\ MemberInv /\ [Next]_vars => MemberInv'
  <1> SUFFICES ASSUME Base, MemberInv, [Next]_vars, NEW o \in Orgs
               PROVE  Cardinality(Members(o)') + Cardinality(Committing(o)')
                        <= MaxUsers[o] - 1 + Cardinality(Threads)
      BY DEF MemberInv
  <1>1. ASSUME NEW t \in Threads, CountMembers(t)
        PROVE  Cardinality(Members(o)') + Cardinality(Committing(o)')
                 <= MaxUsers[o] - 1 + Cardinality(Threads)
      BY <1>1, CountKeeps
  <1>2. ASSUME NEW t \in Threads, Commit(t)
        PROVE  Cardinality(Members(o)') + Cardinality(Committing(o)')
                 <= MaxUsers[o] - 1 + Cardinality(Threads)
      BY <1>2, CommitKeeps
  <1>3. ASSUME org' = org,
               \A t \in Threads : pc'[t] = "commit" => pc[t] = "commit" /\ target'[t] = target[t]
        PROVE  Cardinality(Members(o)') + Cardinality(Committing(o)')
                 <= MaxUsers[o] - 1 + Cardinality(Threads)
    <2>1. Members(o)' \subseteq Members(o) /\ Committing(o)' \subseteq Committing(o)
        BY <1>3 DEF Members, Committing
    <2>2. QED
        BY <2>1, NoGain
  <1>T. pc \in [Threads -> {"idle", "insert user", "insert key", "insert org", "count", "commit"}]
        /\ target \in [Threads -> Orgs \cup {None}]
      BY DEF Base, TypeOK
  <1> USE <1>T DEF tables, startup, locals, From
  <1>4. ASSUME Start \/ Crash \/ UNCHANGED vars
        PROVE  /\ org' = org
               /\ \A s \in Threads : pc'[s] = "commit" => pc[s] = "commit" /\ target'[s] = target[s]
      BY <1>4 DEF Start, Found, SeedCatalog, SeedOrg, SeedUser, SeedKey, Serve, Crash, vars
  <1>5. ASSUME NEW t \in Threads, NEW u \in Users,
               Register(t, u) \/ \E p \in Orgs : LoadUser(t, u, p)
        PROVE  /\ org' = org
               /\ \A s \in Threads : pc'[s] = "commit" => pc[s] = "commit" /\ target'[s] = target[s]
      BY <1>5 DEF Register, LoadUser
  <1>6. ASSUME NEW t \in Threads,
               \/ InsertUser(t) \/ InsertKey(t) \/ InsertOrg(t) \/ Fail(t)
               \/ \E p \in Orgs : CreateOrg(t, p)
        PROVE  /\ org' = org
               /\ \A s \in Threads : pc'[s] = "commit" => pc[s] = "commit" /\ target'[s] = target[s]
      BY <1>6 DEF InsertUser, InsertKey, InsertOrg, Fail, CreateOrg
  <1>7. QED
      BY <1>1, <1>2, <1>3, <1>4, <1>5, <1>6 DEF Next

\* No organization exceeds its limit by more than the other threads adding to it.
THEOREM MembershipCorrect == Spec => []MembershipBound
  <1>1. Init => MemberInv
    <2> SUFFICES ASSUME Init, NEW o \in Orgs
                 PROVE  Cardinality(Members(o)) + Cardinality(Committing(o))
                          <= MaxUsers[o] - 1 + Cardinality(Threads)
        BY DEF MemberInv
    <2>1. Members(o) = {} /\ Committing(o) = {}
        BY AccountsAssumption DEF Init, Members, Committing
    <2>2. Cardinality(Threads) \in Nat /\ Cardinality({}) = 0
        BY AccountsAssumption, FS_CardinalityType, FS_EmptySet
    <2>3. QED
        BY <2>1, <2>2, AccountsAssumption
  <1>2. MemberInv => MembershipBound
      BY Finite, AccountsAssumption DEF MemberInv, MembershipBound
  <1>3. QED
      BY <1>1, <1>2, NextMemberInv, BaseInvariant, PTL DEF Spec
-----------------------------------------------------------------------------
(* Users left without a key *)

\* The users nobody will give a key anymore.
Keyless == {u \in users \ Pending : keys[u] = 0}

\* Threads run only while the gateway serves, so a crash strands either them or
\* the user being seeded.
KeylessInv ==
    /\ ~ serving => \A t \in Threads : pc[t] = "idle"
    /\ Cardinality(Keyless) <= crashes * Cardinality(Threads)

\* Whoever has no key after one was added had none before, and is not its owner.
LEMMA KeyAdded ==
    ASSUME NEW f \in [Users -> Nat], NEW v \in Users, NEW u \in Users,
           [f EXCEPT ![v] = @ + 1][u] = 0
    PROVE  f[u] = 0 /\ u # v
  OBVIOUS

\* Keyless is finite, and not larger with fewer users in it.
LEMMA KeylessFinite ==
    ASSUME Base
    PROVE  /\ IsFiniteSet(Keyless) /\ Cardinality(Keyless) \in Nat
           /\ Cardinality(Threads) \in Nat /\ Cardinality(Threads) >= 1
  <1>1. Keyless \subseteq Users
      BY DEF Keyless, Base, TypeOK
  <1>2. Cardinality(Threads) \in Nat /\ Cardinality(Threads) # 0
      BY AccountsAssumption, FS_CardinalityType, FS_EmptySet
  <1>3. QED
      BY <1>1, <1>2, AccountsAssumption, FS_Subset, FS_CardinalityType

\* The users of a set of threads are no more than these.
LEMMA UsersOfThreads ==
    ASSUME NEW K \in SUBSET Threads
    PROVE  /\ IsFiniteSet({user[t] : t \in K})
           /\ Cardinality({user[t] : t \in K}) <= Cardinality(Threads)
  <1> DEFINE S == {user[t] : t \in K}
             f == [t \in K |-> user[t]]
  <1>1. f \in Surjection(K, S)
      BY DEF Surjection
  <1>2. IsFiniteSet(K) /\ Cardinality(K) <= Cardinality(Threads)
      BY AccountsAssumption, FS_Subset
  <1> HIDE DEF f, S
  <1>3. IsFiniteSet(S) /\ Cardinality(S) <= Cardinality(K)
      BY <1>1, <1>2, FS_Surjection
  <1>4. /\ Cardinality(S) \in Nat /\ Cardinality(K) \in Nat /\ Cardinality(Threads) \in Nat
      BY <1>2, <1>3, AccountsAssumption, FS_CardinalityType
  <1>5. Cardinality(S) <= Cardinality(Threads) /\ IsFiniteSet(S)
      BY <1>2, <1>3, <1>4
  <1>6. QED
      BY <1>5 DEF S

\* A step that strands nobody keeps the bound.
LEMMA NobodyStranded ==
    ASSUME Base, KeylessInv, Keyless' \subseteq Keyless, crashes' = crashes
    PROVE  Cardinality(Keyless') <= crashes' * Cardinality(Threads)
  <1>1. Cardinality(Keyless') <= Cardinality(Keyless) /\ Cardinality(Keyless') \in Nat
      BY KeylessFinite, FS_Subset, FS_CardinalityType
  <1>2. crashes * Cardinality(Threads) \in Int
    <2>1. crashes \in Nat /\ Cardinality(Threads) \in Nat
        BY KeylessFinite DEF Base, TypeOK
    <2>2. QED
        BY <2>1
  <1>3. QED
      BY <1>1, <1>2, KeylessFinite DEF KeylessInv

\* A failure pays for as many users as there are threads.
LEMMA FailurePays ==
    ASSUME Base, KeylessInv, NEW A, IsFiniteSet(A), Cardinality(A) <= Cardinality(Threads),
           Keyless' \subseteq Keyless \cup A, crashes' = crashes + 1
    PROVE  Cardinality(Keyless') <= crashes' * Cardinality(Threads)
  <1>1. Cardinality(A) \in Nat
      BY FS_CardinalityType
  <1>2. /\ IsFiniteSet(Keyless \cup A)
        /\ Cardinality(Keyless \cup A) <= Cardinality(Keyless) + Cardinality(A)
    <2>1. /\ IsFiniteSet(Keyless \cup A)
          /\ Cardinality(Keyless \cup A)
               = Cardinality(Keyless) + Cardinality(A) - Cardinality(Keyless \cap A)
        BY KeylessFinite, FS_Union
    <2>2. Cardinality(Keyless \cap A) \in Nat
        BY KeylessFinite, FS_Intersection, FS_CardinalityType
    <2>3. QED
        BY <1>1, <2>1, <2>2, KeylessFinite
  <1>3. Cardinality(Keyless') <= Cardinality(Keyless \cup A) /\ Cardinality(Keyless') \in Nat
        /\ Cardinality(Keyless \cup A) \in Nat
      BY <1>2, FS_Subset, FS_CardinalityType
  <1>4. crashes \in Nat
      BY DEF Base, TypeOK
  <1>5. \A n \in Nat : (crashes + 1) * n = crashes * n + n /\ crashes * n \in Nat
      BY <1>4
  <1>6. crashes' * Cardinality(Threads) = crashes * Cardinality(Threads) + Cardinality(Threads)
        /\ crashes * Cardinality(Threads) \in Nat
      BY <1>5, KeylessFinite
  <1>7. QED
      BY <1>1, <1>2, <1>3, <1>6, KeylessFinite DEF KeylessInv

\* Startup inserts a user and then its key.
LEMMA StartStrandsNobody ==
    ASSUME Base, KeylessInv, Start
    PROVE  KeylessInv'
  <1>T. /\ users \subseteq Users /\ keys \in [Users -> Nat] /\ seeding \in Users \cup {None}
        /\ (serving => seeding = None) /\ None \notin Users
      BY AccountsAssumption DEF Base, TypeOK
  <1>1. pc' = pc /\ user' = user /\ crashes' = crashes /\ (serving => serving')
      BY DEF Start, Found, SeedCatalog, SeedOrg, SeedUser, SeedKey, Serve, locals
  <1>2. Keyless' \subseteq Keyless
    <2>1. CASE Found \/ SeedCatalog \/ SeedOrg \/ Serve
        BY <1>1, <2>1 DEF Found, SeedCatalog, SeedOrg, Serve, Keyless, Pending, tables
    <2>2. CASE SeedUser
      <3>1. PICK row \in Users \ users : users' = users \cup {row} /\ seeding' = row
                                         /\ keys' = keys /\ seeding = None
          BY <2>2 DEF SeedUser, Reach
      <3>2. Pending' = (Pending \ {None}) \cup {row} \/ Pending' = Pending \cup {row}
          BY <1>1, <3>1 DEF Pending
      <3>3. QED
          BY <1>T, <3>1, <3>2 DEF Keyless
    <2>3. CASE SeedKey
      <3>1. seeding \in Users /\ users' = users /\ keys' = [keys EXCEPT ![seeding] = @ + 1]
            /\ seeding' = None
          BY <1>T, <2>3 DEF SeedKey
      <3>2. Pending \subseteq Pending' \cup {seeding}
          BY <1>1, <3>1 DEF Pending
      <3>3. \A u \in Users : keys'[u] = 0 => keys[u] = 0 /\ u # seeding
          BY <1>T, <3>1
      <3>4. QED
          BY <1>T, <3>1, <3>2, <3>3 DEF Keyless
    <2>4. QED
        BY <2>1, <2>2, <2>3 DEF Start
  <1>3. (~ serving => \A t \in Threads : pc[t] = "idle")'
      BY <1>1 DEF KeylessInv
  <1>4. QED
      BY <1>1, <1>2, <1>3, NobodyStranded DEF KeylessInv

\* A crash strands the threads' users, or the one being seeded.
LEMMA CrashStrands ==
    ASSUME Base, KeylessInv, Crash
    PROVE  KeylessInv'
  <1>T. users \subseteq Users /\ (serving => seeding = None) /\ None \notin Users
      BY AccountsAssumption DEF Base, TypeOK
  <1> DEFINE K == {s \in Threads : pc[s] = "insert key"}
             W == {user[t] : t \in K}
             A == IF serving THEN W ELSE {seeding}
  <1>1. crashes' = crashes + 1 /\ users' = users /\ keys' = keys
        /\ \A t \in Threads : pc'[t] = "idle"
      BY DEF Crash, tables
  <1>2. IsFiniteSet(A) /\ Cardinality(A) <= Cardinality(Threads)
    <2>1. IsFiniteSet(W) /\ Cardinality(W) <= Cardinality(Threads)
        BY UsersOfThreads
    <2>2. IsFiniteSet({seeding}) /\ Cardinality({seeding}) = 1
        BY FS_Singleton
    <2>3. QED
        BY <2>1, <2>2, KeylessFinite
  <1>3. Keyless' \subseteq Keyless \cup A
    <2>1. Pending = W \cup {seeding}
        BY DEF Pending
    <2>2. ~ serving => W = {}
        BY DEF KeylessInv
    <2>3. Keyless' \subseteq Keyless \cup (Pending \cap Users)
        BY <1>T, <1>1 DEF Keyless
    <2>4. Pending \cap Users \subseteq A
        BY <1>T, <2>1, <2>2
    <2>5. QED
        BY <2>3, <2>4
  <1> HIDE DEF A
  <1>4. Cardinality(Keyless') <= crashes' * Cardinality(Threads)
      BY <1>1, <1>2, <1>3, FailurePays
  <1>5. QED
      BY <1>1, <1>4 DEF KeylessInv

\* A failing request strands its own user at most.
LEMMA FailStrands ==
    ASSUME Base, KeylessInv, NEW t \in Threads, Fail(t)
    PROVE  KeylessInv'
  <1>1. /\ crashes' = crashes + 1 /\ pc' = [pc EXCEPT ![t] = "idle"]
        /\ UNCHANGED <<users, keys, seeding, serving, user>>
      BY DEF Fail, tables, startup, locals
  <1>2. IsFiniteSet({user[t]}) /\ Cardinality({user[t]}) <= Cardinality(Threads)
      BY FS_Singleton, KeylessFinite
  <1>3. Pending \subseteq Pending' \cup {user[t]}
    <2>1. \A s \in Threads \ {t} : pc'[s] = pc[s]
        BY <1>1 DEF Base, TypeOK
    <2>2. QED
        BY <1>1, <2>1 DEF Pending
  <1>4. Keyless' \subseteq Keyless \cup {user[t]}
      BY <1>1, <1>3 DEF Keyless
  <1>5. Cardinality(Keyless') <= crashes' * Cardinality(Threads)
      BY <1>1, <1>2, <1>4, FailurePays
  <1>6. (~ serving => \A s \in Threads : pc[s] = "idle")'
      BY <1>1 DEF KeylessInv, Base, TypeOK
  <1>7. QED
      BY <1>5, <1>6 DEF KeylessInv

\* Any other step of a request strands nobody.
LEMMA ThreadStrandsNobody ==
    ASSUME Base, KeylessInv, NEW t \in Threads,
           \/ \E u \in Users : Register(t, u)
           \/ InsertUser(t) \/ InsertKey(t)
           \/ \E o \in Orgs : CreateOrg(t, o)
           \/ InsertOrg(t)
           \/ \E u \in Users, o \in Orgs : LoadUser(t, u, o)
           \/ CountMembers(t) \/ Commit(t)
    PROVE  KeylessInv'
  <1>T. /\ users \subseteq Users /\ keys \in [Users -> Nat] /\ Known
        /\ pc \in [Threads -> {"idle", "insert user", "insert key", "insert org", "count", "commit"}]
        /\ user \in [Threads -> Users \cup {None}]
      BY DEF Base, TypeOK
  <1> USE DEF From, tables, startup, locals
  <1>1. crashes' = crashes /\ serving' = serving /\ seeding' = seeding
      BY DEF Register, InsertUser, InsertKey, CreateOrg, InsertOrg, LoadUser, CountMembers, Commit
  <1>2. serving
    <2>1. pc[t] # "idle" \/ serving
        BY DEF Register, InsertUser, InsertKey, CreateOrg, InsertOrg, LoadUser, CountMembers, Commit
    <2>2. QED
        BY <2>1 DEF KeylessInv
  <1>3. Keyless' \subseteq Keyless
    <2>1. CASE InsertUser(t)
      <3>1. CASE user[t] \in users
        <4>1. users' = users /\ keys' = keys /\ Pending' = Pending
            BY <1>T, <1>1, <2>1, <3>1 DEF InsertUser, Pending
        <4>2. QED
            BY <4>1 DEF Keyless
      <3>2. CASE user[t] \notin users
        <4>1. users' = users \cup {user[t]} /\ keys' = keys /\ user' = user
              /\ pc' = [pc EXCEPT ![t] = "insert key"]
            BY <2>1, <3>2 DEF InsertUser
        <4>2. Pending \subseteq Pending' /\ user[t] \in Pending'
            BY <1>T, <1>1, <2>1, <4>1, ZenonT(30) DEF InsertUser, Pending
        <4>3. QED
            BY <4>1, <4>2 DEF Keyless
      <3>3. QED
          BY <3>1, <3>2
    <2>2. CASE InsertKey(t)
      <3>1. users' = users /\ keys' = [keys EXCEPT ![user[t]] = @ + 1] /\ user' = user
            /\ pc' = [pc EXCEPT ![t] = "idle"] /\ user[t] \in Users
          BY <1>T, <2>2 DEF InsertKey, Known
      <3>2. Pending \subseteq Pending' \cup {user[t]}
          BY <1>T, <1>1, <3>1 DEF Pending
      <3>3. \A u \in Users : keys'[u] = 0 => keys[u] = 0 /\ u # user[t]
          BY <1>T, <3>1, KeyAdded
      <3>4. QED
          BY <1>T, <3>1, <3>2, <3>3 DEF Keyless
    <2>3. CASE ~ InsertUser(t) /\ ~ InsertKey(t)
      <3>1. users' = users /\ keys' = keys
          BY <2>3 DEF Register, CreateOrg, InsertOrg, LoadUser, CountMembers, Commit
      <3>2. pc[t] # "insert key" /\ pc'[t] # "insert key"
            /\ \A s \in Threads \ {t} : pc'[s] = pc[s] /\ user'[s] = user[s]
          BY <1>T, <2>3 DEF Register, CreateOrg, InsertOrg, LoadUser, CountMembers, Commit
      <3>3. Pending' = Pending
        <4>1. {s \in Threads : pc'[s] = "insert key"} = {s \in Threads : pc[s] = "insert key"}
            BY <3>2
        <4>2. \A s \in Threads : pc[s] = "insert key" => user'[s] = user[s]
            BY <3>2
        <4>3. QED
            BY <1>1, <4>1, <4>2 DEF Pending
      <3>4. QED
          BY <3>1, <3>3 DEF Keyless
    <2>4. QED
        BY <2>1, <2>2, <2>3
  <1>4. QED
      BY <1>1, <1>2, <1>3, NobodyStranded DEF KeylessInv

LEMMA NextKeylessInv == Base /\ KeylessInv /\ [Next]_vars => KeylessInv'
  <1> SUFFICES ASSUME Base, KeylessInv, [Next]_vars PROVE KeylessInv'
      OBVIOUS
  <1>1. CASE UNCHANGED vars
    <2>1. Keyless' = Keyless /\ pc' = pc /\ serving' = serving /\ crashes' = crashes
        BY <1>1 DEF vars, Keyless, Pending
    <2>2. QED
        BY <2>1 DEF KeylessInv
  <1>2. CASE Next
      BY <1>2, StartStrandsNobody, CrashStrands, FailStrands, ThreadStrandsNobody DEF Next
  <1>3. QED
      BY <1>1, <1>2

\* Each failure or crash strands at most as many users as there are threads,
\* wherever between the commits of a user and its key it falls.
THEOREM KeylessCorrect == Spec => []KeylessBound
  <1>1. Init => KeylessInv
    <2> SUFFICES ASSUME Init PROVE KeylessInv
        OBVIOUS
    <2>1. Keyless = {} /\ crashes = 0 /\ \A t \in Threads : pc[t] = "idle"
        BY DEF Init, Keyless
    <2>2. Cardinality(Threads) \in Nat /\ Cardinality({}) = 0
        BY AccountsAssumption, FS_CardinalityType, FS_EmptySet
    <2>3. QED
        BY <2>1, <2>2 DEF KeylessInv
  <1>2. KeylessInv => KeylessBound
      BY DEF KeylessInv, KeylessBound, Keyless
  <1>3. QED
      BY <1>1, <1>2, NextKeylessInv, BaseInvariant, PTL DEF Spec
=============================================================================
