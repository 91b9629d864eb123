------------------------------ MODULE Accounts ------------------------------
(***************************************************************************)
(* Users, their API keys and their organizations in SQL: the seeding at    *)
(* startup (main.py), registration (auth.py), create_organization and      *)
(* add_user_to_org (organizations.py).  The endpoints are sync, so each of *)
(* their queries and commits is a step.  Every commit may be the last      *)
(* before a crash, after which the gateway seeds again before it serves.   *)
(***************************************************************************)
EXTENDS Integers, Sequences, FiniteSets

CONSTANTS
    Users,          \* by e-mail address
    Orgs,           \* by slug
    Catalog,        \* rows of plans, and model_pricing, whose rows are one commit
    Startup,        \* the rows main.py seeds, in its order
    Threads,
    MaxUsers,       \* organizations.max_users
    MaxCrashes,     \* bound: crashes and failed commits
    None

Seeds == {Startup[i] : i \in DOMAIN Startup}

ASSUME AccountsAssumption ==
    /\ IsFiniteSet(Users) /\ IsFiniteSet(Threads) /\ Threads # {}
    /\ Startup \in Seq(Users \cup Orgs \cup Catalog)
    /\ Users \cap Orgs = {} /\ Users \cap Catalog = {} /\ Orgs \cap Catalog = {}
    /\ None \notin Users \cup Orgs
    /\ MaxUsers \in [Orgs -> Nat \ {0}] /\ MaxCrashes \in Nat

VARIABLES
    users,      \* rows of users
    keys,       \* active rows of api_keys per user
    org,        \* users.organization_id
    orgs,       \* rows of organizations
    catalog,    \* rows of plans and model_pricing
    serving,    \* has startup ended?
    at,         \* position of startup in Startup
    seeding,    \* the user inserted whose key is not
    pc,         \* what each thread does next
    user, target, loaded,   \* its user, its organization, and users.organization_id as loaded
    crashes

vars == <<users, keys, org, orgs, catalog, serving, at, seeding, pc, user, target, loaded, crashes>>
tables == <<users, keys, org, orgs, catalog>>
startup == <<serving, at, seeding>>
locals == <<user, target, loaded>>

Rows == users \cup orgs \cup catalog
Members(o) == {u \in Users : org[u] = o}

Init ==
    /\ users = {} /\ keys = [u \in Users |-> 0] /\ org = [u \in Users |-> None]
    /\ orgs = {} /\ catalog = {}
    /\ serving = FALSE /\ at = 1 /\ seeding = None
    /\ pc = [t \in Threads |-> "idle"]
    /\ user = [t \in Threads |-> None] /\ target = [t \in Threads |-> None]
    /\ loaded = [t \in Threads |-> None]
    /\ crashes = 0

From(t, l, m) == pc[t] = l /\ pc' = [pc EXCEPT ![t] = m]

-----------------------------------------------------------------------------
(* Startup: each row of the sequence is looked up, and inserted if missing *)

Reach(row) ==
    /\ seeding = None /\ at \in DOMAIN Startup /\ row = Startup[at]
    /\ at' = at + 1

\* Mutant of Found: organizations and plans are inserted without a look, and the
\* UNIQUE constraint ends the process.
FoundUser ==
    /\ \E row \in users : Reach(row)
    /\ UNCHANGED <<tables, serving, seeding, pc, locals, crashes>>

\* A row that exists is kept; a plan gets its limits again.
Found ==
    /\ \E row \in Rows : Reach(row)
    /\ UNCHANGED <<tables, serving, seeding, pc, locals, crashes>>

SeedCatalog ==
    \E row \in Catalog \ catalog :
        /\ Reach(row)
        /\ catalog' = catalog \cup {row}
        /\ UNCHANGED <<users, keys, org, orgs, serving, seeding, pc, locals, crashes>>

SeedOrg ==
    \E row \in Orgs \ orgs :
        /\ Reach(row)
        /\ orgs' = orgs \cup {row}
        /\ UNCHANGED <<users, keys, org, catalog, serving, seeding, pc, locals, crashes>>

SeedUser ==
    \E row \in Users \ users :
        /\ Reach(row)
        /\ users' = users \cup {row} /\ seeding' = row
        /\ UNCHANGED <<keys, org, orgs, catalog, serving, pc, locals, crashes>>

SeedKey ==
    /\ seeding # None
    /\ keys' = [keys EXCEPT ![seeding] = @ + 1] /\ seeding' = None
    /\ UNCHANGED <<users, org, orgs, catalog, serving, at, pc, locals, crashes>>

\* The rows are there, and Redis answers the ping of lifespan where it is required.
Serve ==
    /\ ~ serving /\ seeding = None /\ at = Len(Startup) + 1
    /\ serving' = TRUE
    /\ UNCHANGED <<tables, at, seeding, pc, locals, crashes>>

Start == Found \/ SeedCatalog \/ SeedOrg \/ SeedUser \/ SeedKey \/ Serve

-----------------------------------------------------------------------------
(* register *)

\* 400 when the address is known.
Register(t, u) ==
    /\ serving /\ u \notin users
    /\ From(t, "idle", "insert user")
    /\ user' = [user EXCEPT ![t] = u]
    /\ UNCHANGED <<tables, startup, target, loaded, crashes>>

\* Mutant of InsertUser: the address has no UNIQUE constraint.
InsertUserAgain(t) ==
    /\ From(t, "insert user", "insert key")
    /\ users' = users \cup {user[t]}
    /\ UNCHANGED <<keys, org, orgs, catalog, startup, locals, crashes>>

\* The address is UNIQUE: the second of two registrations ends in a 500.
InsertUser(t) ==
    /\ From(t, "insert user", IF user[t] \in users THEN "idle" ELSE "insert key")
    /\ users' = users \cup {user[t]}
    /\ UNCHANGED <<keys, org, orgs, catalog, startup, locals, crashes>>

\* Mutant of InsertKey: the key is never committed.
InsertKeyLost(t) ==
    /\ From(t, "insert key", "idle")
    /\ UNCHANGED <<tables, startup, locals, crashes>>

\* The plan "free" is there: startup seeds it.
InsertKey(t) ==
    /\ From(t, "insert key", "idle")
    /\ keys' = [keys EXCEPT ![user[t]] = @ + 1]
    /\ UNCHANGED <<users, org, orgs, catalog, startup, locals, crashes>>

-----------------------------------------------------------------------------
(* create_organization *)

\* 409 when the slug is known.
CreateOrg(t, o) ==
    /\ serving /\ o \notin orgs
    /\ From(t, "idle", "insert org")
    /\ target' = [target EXCEPT ![t] = o]
    /\ UNCHANGED <<tables, startup, user, loaded, crashes>>

\* The slug is UNIQUE: the second of two creations ends in a 500.
InsertOrg(t) ==
    /\ From(t, "insert org", "idle")
    /\ orgs' = orgs \cup {target[t]}
    /\ UNCHANGED <<users, keys, org, catalog, startup, locals, crashes>>

-----------------------------------------------------------------------------
(* add_user_to_org *)

\* 404 when the organization or the user is unknown.
LoadUser(t, u, o) ==
    /\ serving /\ u \in users /\ o \in orgs
    /\ From(t, "idle", "count")
    /\ user' = [user EXCEPT ![t] = u] /\ target' = [target EXCEPT ![t] = o]
    /\ loaded' = [loaded EXCEPT ![t] = org[u]]
    /\ UNCHANGED <<tables, startup, crashes>>

\* Mutant of CountMembers: "current_count > org.max_users".
CountMembersPast(t) ==
    /\ From(t, "count",
            IF Cardinality(Members(target[t])) > MaxUsers[target[t]] THEN "idle" ELSE "commit")
    /\ UNCHANGED <<tables, startup, locals, crashes>>

\* 400 when the organization is full, even for a member of it.
CountMembers(t) ==
    /\ From(t, "count",
            IF Cardinality(Members(target[t])) >= MaxUsers[target[t]] THEN "idle" ELSE "commit")
    /\ UNCHANGED <<tables, startup, locals, crashes>>

\* An attribute set to the value it was loaded with is not written.
Commit(t) ==
    /\ From(t, "commit", "idle")
    /\ org' = IF loaded[t] = target[t] THEN org ELSE [org EXCEPT ![user[t]] = target[t]]
    /\ UNCHANGED <<users, keys, orgs, catalog, startup, locals, crashes>>

-----------------------------------------------------------------------------
\* The process ends and starts again: killed, or by itself when a commit of the
\* seeding fails or Redis, with REDIS_REQUIRED, does not answer the ping of lifespan.
Crash ==
    /\ crashes < MaxCrashes /\ crashes' = crashes + 1
    /\ serving' = FALSE /\ at' = 1 /\ seeding' = None
    /\ pc' = [t \in Threads |-> "idle"]
    /\ UNCHANGED <<tables, locals>>

\* A query or a commit fails: a 500.
Fail(t) ==
    /\ crashes < MaxCrashes /\ crashes' = crashes + 1
    /\ pc[t] # "idle" /\ pc' = [pc EXCEPT ![t] = "idle"]
    /\ UNCHANGED <<tables, startup, locals>>

Next ==
    \/ Start \/ Crash
    \/ \E t \in Threads :
         \/ \E u \in Users : Register(t, u)
         \/ InsertUser(t) \/ InsertKey(t)
         \/ \E o \in Orgs : CreateOrg(t, o)
         \/ InsertOrg(t)
         \/ \E u \in Users, o \in Orgs : LoadUser(t, u, o)
         \/ CountMembers(t) \/ Commit(t) \/ Fail(t)

Spec == Init /\ [][Next]_vars

\* The import of main.py runs on; docker-compose restarts a gateway that died.
FairSpec == Spec /\ WF_vars(Start)

-----------------------------------------------------------------------------
(* Properties *)

\* Every variable has its type, and requests find the seeded rows: registration
\* finds the plan its key needs ("Free plan not seeded in the database").
TypeOK ==
    /\ users \subseteq Users /\ keys \in [Users -> Nat]
    /\ org \in [Users -> Orgs \cup {None}] /\ orgs \subseteq Orgs /\ catalog \subseteq Catalog
    /\ serving \in BOOLEAN /\ seeding \in Users \cup {None}
    /\ at \in 1 .. Len(Startup) + 1
    /\ pc \in [Threads -> {"idle", "insert user", "insert key", "insert org", "count", "commit"}]
    /\ user \in [Threads -> Users \cup {None}] /\ target \in [Threads -> Orgs \cup {None}]
    /\ loaded \in [Threads -> Orgs \cup {None}]
    /\ crashes \in Nat
    /\ serving => seeding = None /\ Seeds \subseteq Rows

\* Concurrent registrations, retries and restarts give nobody a second API key:
\* what login takes as the user's plan is the plan of its only key.
OneKey == \A u \in Users : keys[u] <= 1 /\ (keys[u] = 1 => u \in users)

Pending == {user[t] : t \in {s \in Threads : pc[s] = "insert key"}} \cup {seeding}

\* Each failure leaves at most one user per thread without a key (or the one being
\* seeded); registering again does not help, the address is taken.
KeylessBound ==
    Cardinality({u \in users \ Pending : keys[u] = 0}) <= crashes * Cardinality(Threads)

\* The count and the commit are not atomic: max_users is exceeded by at most one
\* user for each other thread adding at the same time.
MembershipBound ==
    \A o \in Orgs : Cardinality(Members(o)) <= MaxUsers[o] - 1 + Cardinality(Threads)

\* Wherever in the seeding the gateway died, the next start gets through it: no
\* row left by the last one stops it.
StartsUp == ~ serving ~> serving

-----------------------------------------------------------------------------
(* Sentences of the repository that the code does not keep: README, section 3 *)

\* organizations.py:177: "Organization has reached its max user limit".
MaxUsersKept == \A o \in Orgs : Cardinality(Members(o)) <= MaxUsers[o]

\* models_billing.py:55: "Every user belongs to exactly one organization.  New
\* users are assigned to the default "Personal" organization on registration."
EveryUserBelongs ==
    \A u \in users \ Seeds : (\A t \in Threads : pc[t] = "idle") => org[u] # None

\* organizations.py:183: "User ... added to org ..." is the answer to a commit.
AddedBelongs ==
    [][\A t \in Threads : pc[t] = "commit" /\ pc'[t] = "idle" /\ crashes' = crashes =>
         org'[user[t]] = target[t]]_vars
=============================================================================
