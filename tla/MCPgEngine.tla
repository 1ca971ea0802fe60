----------------------------- MODULE MCPgEngine -----------------------------
(* Instances of PgEngine. *)
EXTENDS PgEngine, TLC

CONSTANTS a, b, j1, c1, c2, c3, s1, s2, s3

(* Each instance was given a client, and its polls end in time. *)
Clients == (a :> {c1}) @@ (b :> {c2})
OneEach == (a :> {s1}) @@ (b :> {s3})

(* One was given a pool, and its polls overlap. *)
PoolAndClient == (a :> {c1, c2}) @@ (b :> {c3})
TwoAndOne == (a :> {s1, s2}) @@ (b :> {s3})

(* The connections of the pool, and the polls, are interchangeable. *)
PoolSymmetry == Permutations({c1, c2}) \cup Permutations({s1, s2})

(* The bound on the calls of the application: no call goes on while two polls
   of the pool are at work, and the instance with the client only handles jobs
   and keeps polling. *)
FewCalls ==
    /\ admin'[b].at \notin {"register", "delete"}
    /\ engine[b].timer => engine'[b].timer \/ engine'[b] = Booted
    /\ polls[a][s1].at # "idle" /\ polls[a][s2].at # "idle" =>
          \A i \in Instances :
              /\ admin'[i] \in {admin[i], NoCall}
              /\ engine'[i] \in {engine[i], Booted}

(* The bound on the times a session holds a lock: a lock left behind in the
   session of a pool is left behind again by the next poll. *)
HeldTwice == \A c \in Conns, j \in Jobs : session'[c][j] <= 2
=============================================================================
