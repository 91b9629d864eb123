---------------------------- MODULE MCRateLimiter ----------------------------
(***************************************************************************)
(* RateLimiter for one user with a login on a plan of 2 requests a second  *)
(* and an API key on a plan of 1, whose session is of before the user      *)
(* joined his organization.  The counters of stats:gateway are written and *)
(* never read, so states that differ in nothing else are taken as one.     *)
(***************************************************************************)
EXTENDS RateLimiter, TLC

MCUserOf == [c \in Credentials |-> "u"]
MCOrgOf == [c \in Credentials |-> IF c = "key" THEN None ELSE "o"]
MCKeyOf == [c \in Credentials |-> IF c = "key" THEN "k" ELSE None]
MCIpOf == [c \in Credentials |-> "ip"]
MCRps == [c \in Credentials |-> IF c = "key" THEN 1 ELSE 2]
MCModelLimit == [m \in Models |-> 1]

MCView == <<zset, stage, pass, todo, cred, model, left, charged>>
MCSymmetry == Permutations(Requests)
=============================================================================
