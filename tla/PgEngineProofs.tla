--------------------------- MODULE PgEngineProofs ---------------------------
(***************************************************************************)
(* A theorem about PgEngine, for every set of instances, jobs and          *)
(* connections, however many polls an instance has at work and whatever    *)
(* its pool makes of their queries.                                        *)
(***************************************************************************)
EXTENDS PgEngine, FiniteSetTheorems, TLAPS

(* What an instance is given when it boots is of the right kind. *)
LEMMA BootTypes == NoCall \in Admins /\ NoPoll \in Polls /\ Booted \in Engines
<1>1. (CHOOSE j \in Jobs : TRUE) \in Jobs
  BY PgAssumption
<1>2. 0 \in Times
  BY PgAssumption DEF Times
<1> QED
  BY <1>1, <1>2 DEF NoCall, Admins, AdminLabels, NoPoll, Polls, PollLabels, Booted, Engines

(* What the steps of a poll make of its locals is, too. *)
LEMMA PollTypes ==
    ASSUME NEW p \in Polls
    PROVE  /\ \A at \in PollLabels : [p EXCEPT !.at = at] \in Polls
           /\ Visited(p) \in Polls
           /\ \A c : AfterFailure(p, c) \in Polls
           /\ \A c : Bereft(p, c) \in Polls
<1>1. \A at \in PollLabels : [p EXCEPT !.at = at] \in Polls
  BY DEF Polls
<1>2. 0 \in Times
  BY PgAssumption DEF Times
<1>3. Visited(p) \in Polls
  BY <1>2 DEF Visited, Polls, PollLabels
<1>5. \A c : Bereft(p, c) \in Polls
  BY DEF Bereft, Polls
<1>4. \A c : AfterFailure(p, c) \in Polls
  <2>1. \A q \in Polls : [q EXCEPT !.at = "unlock"] \in Polls
    BY DEF Polls, PollLabels
  <2> QED
    BY <1>5, <2>1, BootTypes DEF AfterFailure
<1> QED
  BY <1>1, <1>3, <1>4, <1>5

(* The next tick of any time the clock can show is a time. *)
LEMMA TickTypes ==
    ASSUME clock \in 0 .. MaxTime
    PROVE  clock \in Times /\ GetNextRun(clock) \in Times
BY PgAssumption DEF Times, GetNextRun

(* The initial state is typed. *)
LEMMA InitTypeOK == Init => TypeOK
BY BootTypes, PgAssumption DEF Init, TypeOK, Times

(* A call of the application keeps the types. *)
LEMMA AdminTypeOK ==
    ASSUME TypeOK, NEW i \in Instances, Admin(i)
    PROVE  TypeOK'
<1> USE DEF TypeOK
<1>0. /\ admin[i] \in Admins /\ admin[i].job \in Jobs
      /\ admin[i].next \in Times /\ admin[i].handler \in BOOLEAN
      /\ engine[i] \in Engines
  BY DEF Admins
<1>c. \A c \in Admins : Call(i, c) => admin' \in [Instances -> Admins]
  BY DEF Call
<1>n. Call(i, NoCall) => admin' \in [Instances -> Admins]
  BY <1>c, BootTypes
<1>b. \A at \in AdminLabels, j \in Jobs, h \in BOOLEAN :
          [NoCall EXCEPT !.at = at, !.job = j, !.handler = h] \in Admins
  BY BootTypes DEF Admins
<1>d. \A j \in Jobs, h \in BOOLEAN : Define(i, j, h) => engine' \in [Instances -> Engines]
  <2> SUFFICES ASSUME NEW j \in Jobs, NEW h \in BOOLEAN, Define(i, j, h)
               PROVE  engine' \in [Instances -> Engines]
    OBVIOUS
  <2>1. [engine[i] EXCEPT !.defined = @ \cup {j},
                          !.handled = IF h THEN @ \cup {j} ELSE @] \in Engines
    BY <1>0 DEF Engines
  <2>2. engine' = [engine EXCEPT
            ![i] = [engine[i] EXCEPT !.defined = @ \cup {j},
                                     !.handled = IF h THEN @ \cup {j} ELSE @]]
    BY <1>0 DEF Define
  <2> QED
    BY <2>1, <2>2
<1>s. Schedule(i) => admin' \in [Instances -> Admins]
  <2>1. [admin[i] EXCEPT !.at = "upsert", !.next = GetNextRun(clock)] \in Admins
    BY <1>0, TickTypes DEF Admins, AdminLabels
  <2> QED
    BY <2>1, <1>c, BootTypes DEF Schedule
<1>1. ASSUME NEW j \in Jobs, NEW h \in BOOLEAN, Register(i, j, h) PROVE TypeOK'
  BY <1>1, <1>b, <1>c DEF Register, AdminLabels
<1>2. ASSUME NEW j \in Jobs, Handle(i, j) PROVE TypeOK'
  BY <1>2, <1>b, <1>c, <1>d DEF Handle, AdminLabels
<1>3. ASSUME NEW j \in Jobs, Unregister(i, j) PROVE TypeOK'
  <2>1. [NoCall EXCEPT !.at = "delete", !.job = j] \in Admins
    BY BootTypes DEF Admins, AdminLabels
  <2> QED
    BY <1>3, <2>1, <1>c DEF Unregister
<1>4. CASE RegisterDefine(i)
  BY <1>4, <1>0, <1>d, <1>s DEF RegisterDefine
<1>5. CASE HandleSchedule(i)
  BY <1>5, <1>s DEF HandleSchedule
<1>6. CASE Upsert(i)
  <2>1. engine' \in [Instances -> Engines]
    BY <1>6, <1>0 DEF Upsert, Engines
  <2>2. DOMAIN table' \subseteq Jobs /\ \A j \in DOMAIN table' : table'[j] \in Times
    BY <1>6, <1>0 DEF Upsert
  <2> QED
    BY <1>6, <1>n, <2>1, <2>2 DEF Upsert
<1>7. CASE UnregisterDelete(i)
  <2>1. engine' \in [Instances -> Engines]
    BY <1>7, <1>0 DEF UnregisterDelete, Engines
  <2>2. DOMAIN table' \subseteq Jobs /\ \A j \in DOMAIN table' : table'[j] \in Times
    BY <1>7 DEF UnregisterDelete
  <2>3. \A p \in Polls, j \in Jobs : [p EXCEPT !.visited = @ \ {j}] \in Polls
    BY DEF Polls
  <2>4. polls' \in [Instances -> [Slots -> Polls]]
    BY <1>7, <1>0, <2>3 DEF UnregisterDelete
  <2> QED
    BY <1>7, <1>n, <2>1, <2>2, <2>4 DEF UnregisterDelete
<1>8. CASE AdminFails(i)
  BY <1>8, <1>n DEF AdminFails
<1>9. CASE Start(i) \/ Stop(i)
  <2>1. \A on \in BOOLEAN : [engine[i] EXCEPT !.timer = on] \in Engines
    BY <1>0 DEF Engines
  <2>2. \E on \in BOOLEAN : engine' = [engine EXCEPT ![i] = [engine[i] EXCEPT !.timer = on]]
    BY <1>9, <1>0 DEF Start, Stop
  <2> QED
    BY <1>9, <2>1, <2>2 DEF Start, Stop
<1> QED
  BY <1>1, <1>2, <1>3, <1>4, <1>5, <1>6, <1>7, <1>8, <1>9 DEF Admin

(* So does a step of a poll, of its handler or of its connection. *)
LEMMA PollTypeOK ==
    ASSUME TypeOK, NEW i \in Instances, NEW s \in Slots,
           PollStep(i, s) \/ HandlerReturns(i, s) \/ HandlerThrows(i, s) \/ QueryFails(i, s)
    PROVE  TypeOK'
<1> USE DEF TypeOK
<1>0. /\ polls[i][s] \in Polls /\ polls[i][s].job \in Jobs
      /\ polls[i][s].next \in Times /\ polls[i][s].at \in PollLabels
      /\ ConnsOf[i] \subseteq Conns
  BY PgAssumption DEF Polls
<1>p. \A p \in Polls : Poll(i, s, p) => polls' \in [Instances -> [Slots -> Polls]]
  BY DEF Poll
<1>a. \A at \in PollLabels :
          Poll(i, s, [polls[i][s] EXCEPT !.at = at]) => polls' \in [Instances -> [Slots -> Polls]]
  BY <1>0, <1>p, PollTypes
<1>1. CASE PollStart(i, s)
  <2>1. [NoPoll EXCEPT !.at = "visit", !.now = clock] \in Polls
    BY BootTypes, TickTypes DEF Polls, PollLabels
  <2> QED
    BY <1>1, <1>p, <2>1 DEF PollStart
<1>2. CASE PollVisit(i, s)
  <2>1. \A j \in Jobs : [polls[i][s] EXCEPT !.at = "select", !.job = j] \in Polls
    BY <1>0 DEF Polls, PollLabels
  <2>2. polls' \in [Instances -> [Slots -> Polls]]
    BY <1>2, <1>p, <2>1, BootTypes, PgAssumption DEF PollVisit
  <2> QED
    BY <1>2, <2>2 DEF PollVisit
<1>3. CASE PollSelect(i, s)
  <2>1. polls' \in [Instances -> [Slots -> Polls]]
    BY <1>3, <1>0, <1>p, <1>a, PollTypes DEF PollSelect, PollLabels
  <2> QED
    BY <1>3, <2>1 DEF PollSelect
<1>4. CASE PollLock(i, s)
  <2>1. polls' \in [Instances -> [Slots -> Polls]]
    <3>1. \A c \in ConnsOf[i] : [polls[i][s] EXCEPT !.at = "run", !.conn = c] \in Polls
      BY <1>0 DEF Polls, PollLabels
    <3>2. \/ \E c \in ConnsOf[i] : Poll(i, s, [polls[i][s] EXCEPT !.at = "run", !.conn = c])
          \/ Poll(i, s, [polls[i][s] EXCEPT !.at = "unlock"])
      BY <1>4, Zenon DEF PollLock
    <3> QED
      BY <1>0, <1>p, <1>a, <3>1, <3>2 DEF PollLabels
  <2>2. session' \in [Conns -> [Jobs -> Nat]]
    <3> PICK c \in ConnsOf[i] :
            \/ UNCHANGED session
            \/ session' = [session EXCEPT ![c][polls[i][s].job] = @ + 1]
      BY <1>4 DEF PollLock
    <3>1. \A j \in Jobs : session[c][j] + 1 \in Nat
      BY <1>0
    <3>2. CASE UNCHANGED session
      BY <3>2
    <3>3. CASE session' = [session EXCEPT ![c][polls[i][s].job] = @ + 1]
      <4>1. [session[c] EXCEPT ![polls[i][s].job] = @ + 1] \in [Jobs -> Nat]
        BY <1>0, <3>1
      <4>2. session' = [session EXCEPT ![c] = [session[c] EXCEPT ![polls[i][s].job] = @ + 1]]
        BY <1>0, <3>3
      <4> QED
        BY <1>0, <4>1, <4>2
    <3> QED
      BY <3>2, <3>3
  <2> QED
    BY <1>4, <2>1, <2>2 DEF PollLock
<1>5. CASE PollUpdate(i, s)
  <2>1. polls' \in [Instances -> [Slots -> Polls]]
    BY <1>5, <1>a DEF PollUpdate, PollLabels
  <2>2. DOMAIN table' \subseteq Jobs /\ \A j \in DOMAIN table' : table'[j] \in Times
    BY <1>5, <1>0 DEF PollUpdate
  <2> QED
    BY <1>5, <2>1, <2>2 DEF PollUpdate
<1>6. CASE PollUnlock(i, s)
  <2>1. polls' \in [Instances -> [Slots -> Polls]]
    BY <1>6, <1>0, <1>p, PollTypes DEF PollUnlock
  <2>2. session' \in [Conns -> [Jobs -> Nat]]
    <3> PICK c \in ConnsOf[i] : session' = Unlocked(c, polls[i][s].job)
      BY <1>6 DEF PollUnlock
    <3>1. c \in Conns /\ session[c][polls[i][s].job] \in Nat
      BY <1>0
    <3>2. (IF session[c][polls[i][s].job] = 0 THEN 0
           ELSE session[c][polls[i][s].job] - 1) \in Nat
      BY <3>1
    <3> QED
      BY <1>0, <3>1, <3>2 DEF Unlocked
  <2>3. strayed' \subseteq Conns \X Jobs
    <3>1. \A c : Strays(polls[i][s], c) \subseteq Conns \X Jobs
      BY <1>0 DEF Strays
    <3> QED
      BY <1>6, <3>1 DEF PollUnlock
  <2> QED
    BY <1>6, <2>1, <2>2, <2>3 DEF PollUnlock
<1>7. CASE HandlerReturns(i, s)
  <2>1. [polls[i][s] EXCEPT !.at = "update", !.next = GetNextRun(clock)] \in Polls
    BY <1>0, TickTypes DEF Polls, PollLabels
  <2> QED
    BY <1>7, <1>p, <2>1 DEF HandlerReturns
<1>8. CASE HandlerThrows(i, s)
  BY <1>8, <1>a DEF HandlerThrows, PollLabels
<1>9. CASE QueryFails(i, s)
  <2>1. session' \in [Conns -> [Jobs -> Nat]]
    BY <1>9, <1>0 DEF QueryFails, Broken
  <2>2. \A t \in Slots : polls[i][t] \in Polls
    OBVIOUS
  <2>3. polls' \in [Instances -> [Slots -> Polls]]
    <3> PICK c \in ConnsOf[i] :
            polls' = [polls EXCEPT ![i] = [t \in Slots |->
                        IF t = s THEN AfterFailure(polls[i][s], c) ELSE Bereft(polls[i][t], c)]]
      BY <1>9 DEF QueryFails
    <3>1. AfterFailure(polls[i][s], c) \in Polls /\ \A t \in Slots : Bereft(polls[i][t], c) \in Polls
      BY <1>0, <2>2, PollTypes
    <3> QED
      BY <3>1
  <2>4. strayed' \subseteq Conns \X Jobs
    <3>1. LeavesBehind(polls[i][s]) \subseteq Conns \X Jobs
      BY <1>0 DEF LeavesBehind, Polls
    <3> QED
      BY <1>9, <3>1 DEF QueryFails
  <2> QED
    BY <1>9, <2>1, <2>3, <2>4 DEF QueryFails
<1> QED
  BY <1>1, <1>2, <1>3, <1>4, <1>5, <1>6, <1>7, <1>8, <1>9 DEF PollStep

(* So does everything else. *)
LEMMA StepTypeOK == TypeOK /\ [Next]_vars => TypeOK'
<1> SUFFICES ASSUME TypeOK, [Next]_vars PROVE TypeOK'
  OBVIOUS
<1> USE DEF TypeOK
<1>1. CASE UNCHANGED vars
  BY <1>1 DEF vars
<1>2. CASE Tick
  BY <1>2, PgAssumption DEF Tick
<1>3. ASSUME NEW i \in Instances, Admin(i) PROVE TypeOK'
  BY <1>3, AdminTypeOK
<1>4. ASSUME NEW i \in Instances, NEW s \in Slots,
             PollStep(i, s) \/ HandlerReturns(i, s) \/ HandlerThrows(i, s) \/ QueryFails(i, s)
      PROVE  TypeOK'
  BY <1>4, PollTypeOK
<1>5. ASSUME NEW i \in Instances, ConnectionLost(i) PROVE TypeOK'
  <2>1. session' \in [Conns -> [Jobs -> Nat]]
    <3> PICK c \in ConnsOf[i] : session' = [session EXCEPT ![c] = [j \in Jobs |-> 0]]
      BY <1>5 DEF ConnectionLost, Broken
    <3> QED
      BY <1>5
  <2>2. \A t \in Slots : polls[i][t] \in Polls
    BY <1>5
  <2>3. polls' \in [Instances -> [Slots -> Polls]]
    <3> PICK c \in ConnsOf[i] :
            polls' = [polls EXCEPT ![i] = [t \in Slots |-> Bereft(polls[i][t], c)]]
      BY <1>5 DEF ConnectionLost
    <3>1. \A t \in Slots : Bereft(polls[i][t], c) \in Polls
      BY <2>2, PollTypes
    <3> QED
      BY <3>1
  <2> QED
    BY <1>5, <2>1, <2>3 DEF ConnectionLost
<1>6. ASSUME NEW i \in Instances, Crash(i) PROVE TypeOK'
  BY <1>6, BootTypes DEF Crash
<1> QED
  BY <1>1, <1>2, <1>3, <1>4, <1>5, <1>6 DEF Next, Work
-----------------------------------------------------------------------------
-----------------------------------------------------------------------------
Held == {"run", "update", "unlock"}

(* A poll has a lock in a session of its instance, and only where it still has
   to give it back. *)
ConnsKept ==
    \A i \in Instances, s \in Slots :
        polls[i][s].conn # NoConn =>
            polls[i][s].conn \in ConnsOf[i] /\ polls[i][s].at \in Held

LockInv == TypeOK /\ ConnsKept /\ LockAccounted

LEMMA HoldingFinite ==
    ASSUME NEW c, NEW j
    PROVE  IsFiniteSet(Holding(c, j)) /\ Cardinality(Holding(c, j)) \in Nat
<1>1. IsFiniteSet(Instances \X Slots)
  BY PgAssumption, FS_Product
<1>2. Holding(c, j) \subseteq Instances \X Slots
  BY DEF Holding
<1> QED
  BY <1>1, <1>2, FS_Subset, FS_CardinalityType

(* No session holds a lock at first. *)
LEMMA InitLocks == Init => LockInv
<1> SUFFICES ASSUME Init PROVE LockInv
  OBVIOUS
<1>1. ConnsKept
  BY DEF Init, ConnsKept, NoPoll
<1>2. \A c \in Conns, j \in Jobs : Holding(c, j) = {}
  BY PgAssumption DEF Init, Holding, NoPoll
<1>3. LockAccounted
  BY <1>2, FS_EmptySet DEF Init, LockAccounted
<1> QED
  BY <1>1, <1>3, InitTypeOK DEF LockInv

(* A poll that goes on keeps the lock it has to give back. *)
Proceeds(i, s) ==
    LET p == polls[i][s]
        q == polls'[i][s]
    IN  /\ q.conn = p.conn
        /\ p.conn # NoConn => q.job = p.job /\ q.at \in Held

(* Where no lock is taken or given back and all polls only go on, the invariant
   stays. *)
LEMMA SameLocks ==
    ASSUME LockInv, TypeOK', UNCHANGED <<session, strayed>>,
           \A i \in Instances, s \in Slots : Proceeds(i, s)
    PROVE  LockInv'
<1>1. ConnsKept'
  BY DEF LockInv, ConnsKept, Proceeds
<1>2. \A c \in Conns, j \in Jobs : Holding(c, j)' = Holding(c, j)
  BY PgAssumption DEF Holding, Proceeds
<1>3. LockAccounted'
  BY <1>2 DEF LockInv, LockAccounted
<1> QED
  BY <1>1, <1>3 DEF LockInv

(* Where one poll of an instance goes on to q, and the locks of others are left
   alone, the accounts of its job are all that has to be looked at. *)
LEMMA OthersHold ==
    ASSUME TypeOK, NEW i \in Instances, NEW s \in Slots, NEW q, Poll(i, s, q),
           NEW c \in Conns, NEW j \in Jobs,
           ~(polls[i][s].conn = c /\ polls[i][s].job = j),
           ~(q.conn = c /\ q.job = j)
    PROVE  Holding(c, j)' = Holding(c, j)
<1>1. /\ polls'[i][s] = q
      /\ \A k \in Instances, t \in Slots : <<k, t>> # <<i, s>> => polls'[k][t] = polls[k][t]
  BY DEF Poll, TypeOK
<1>2. \A r \in Instances \X Slots :
          (polls'[r[1]][r[2]].conn = c /\ polls'[r[1]][r[2]].job = j)
          <=> (polls[r[1]][r[2]].conn = c /\ polls[r[1]][r[2]].job = j)
  <2> SUFFICES ASSUME NEW k \in Instances, NEW t \in Slots
               PROVE  (polls'[k][t].conn = c /\ polls'[k][t].job = j)
                      <=> (polls[k][t].conn = c /\ polls[k][t].job = j)
    OBVIOUS
  <2>1. CASE <<k, t>> = <<i, s>>
    BY <1>1, <2>1
  <2>2. CASE <<k, t>> # <<i, s>>
    BY <1>1, <2>2
  <2> QED
    BY <2>1, <2>2
<1> QED
  BY <1>2 DEF Holding

(* The lock that a poll takes is its own. *)
LEMMA TakenLocks ==
    ASSUME LockInv, TypeOK', NEW i \in Instances, NEW s \in Slots, PollLock(i, s)
    PROVE  LockInv'
<1> DEFINE j == polls[i][s].job
<1>0. /\ j \in Jobs /\ ConnsOf[i] \subseteq Conns
      /\ polls[i][s] \in Polls /\ polls[i][s].at = "lock" /\ polls[i][s].conn = NoConn
      /\ strayed' = strayed
  <2>1. polls[i][s] \in Polls /\ ConnsOf[i] \subseteq Conns
    BY PgAssumption DEF LockInv, TypeOK
  <2>2. polls[i][s].at = "lock" /\ strayed' = strayed
    BY Zenon DEF PollLock
  <2> QED
    BY <2>1, <2>2 DEF LockInv, ConnsKept, Held, Polls
<1>1. \/ \E c \in ConnsOf[i] :
            /\ Grantable(c, j)
            /\ session' = [session EXCEPT ![c][j] = @ + 1]
            /\ Poll(i, s, [polls[i][s] EXCEPT !.at = "run", !.conn = c])
      \/ session' = session /\ Poll(i, s, [polls[i][s] EXCEPT !.at = "unlock"])
  BY Zenon DEF PollLock
<1>2. CASE session' = session /\ Poll(i, s, [polls[i][s] EXCEPT !.at = "unlock"])
  <2>1. polls'[i][s] = [polls[i][s] EXCEPT !.at = "unlock"]
    BY <1>2 DEF Poll, LockInv, TypeOK
  <2>2. polls'[i][s].conn = NoConn
    BY <1>0, <2>1 DEF Polls
  <2>3. \A k \in Instances, t \in Slots : <<k, t>> # <<i, s>> => polls'[k][t] = polls[k][t]
    BY <1>2 DEF Poll, LockInv, TypeOK
  <2>4. \A k \in Instances, t \in Slots : Proceeds(k, t)
    <3> SUFFICES ASSUME NEW k \in Instances, NEW t \in Slots PROVE Proceeds(k, t)
      OBVIOUS
    <3>1. CASE <<k, t>> = <<i, s>>
      BY <1>0, <2>2, <3>1 DEF Proceeds
    <3>2. CASE <<k, t>> # <<i, s>>
      BY <2>3, <3>2 DEF Proceeds, LockInv, ConnsKept
    <3> QED
      BY <3>1, <3>2
  <2> QED
    BY <1>0, <1>2, <2>4, SameLocks
<1>3. ASSUME NEW c \in ConnsOf[i], Grantable(c, j),
             session' = [session EXCEPT ![c][j] = @ + 1],
             Poll(i, s, [polls[i][s] EXCEPT !.at = "run", !.conn = c])
      PROVE  LockInv'
  <2> DEFINE q == [polls[i][s] EXCEPT !.at = "run", !.conn = c]
  <2>1. c \in Conns /\ c # NoConn /\ \A d \in Conns : session[d][j] \in Nat
    BY <1>0, PgAssumption DEF LockInv, TypeOK
  <2>2. q.conn = c /\ q.at = "run" /\ q.job = j
    BY <1>0 DEF Polls
  <2>3. Poll(i, s, q)
    BY <1>3
  <2> HIDE DEF q
  <2>4. /\ polls'[i][s] = q
        /\ \A k \in Instances, t \in Slots : <<k, t>> # <<i, s>> => polls'[k][t] = polls[k][t]
    BY <2>3 DEF Poll, LockInv, TypeOK
  <2>5. ConnsKept'
    BY <2>2, <2>4 DEF LockInv, ConnsKept, Held
  <2>6. /\ session'[c][j] = session[c][j] + 1
        /\ \A d \in Conns, k \in Jobs : <<d, k>> # <<c, j>> => session'[d][k] = session[d][k]
    BY <1>0, <1>3, <2>1 DEF LockInv, TypeOK
  <2>7. \A d, e \in Conns, k \in Jobs :
            session'[d][k] > 0 /\ session'[e][k] > 0 => d = e
    <3> SUFFICES ASSUME NEW d \in Conns, NEW e \in Conns, NEW k \in Jobs,
                        session'[d][k] > 0, session'[e][k] > 0
                 PROVE  d = e
      OBVIOUS
    <3>1. CASE k # j
      BY <2>6, <3>1 DEF LockInv, LockAccounted
    <3>2. CASE k = j
      BY <1>3, <2>1, <2>6, <3>2 DEF Grantable
    <3> QED
      BY <3>1, <3>2
  <2>8. ASSUME NEW d \in Conns, NEW k \in Jobs, <<d, k>> \notin strayed
        PROVE  session'[d][k] = Cardinality(Holding(d, k)')
    <3>0. session[d][k] = Cardinality(Holding(d, k))
      BY <2>8 DEF LockInv, LockAccounted
    <3>1. CASE <<d, k>> # <<c, j>>
      <4>1. Holding(d, k)' = Holding(d, k)
        BY <1>0, <2>2, <2>3, <3>1, OthersHold, PgAssumption DEF LockInv
      <4> QED
        BY <2>6, <3>0, <3>1, <4>1
    <3>2. CASE <<d, k>> = <<c, j>>
      <4>0. d = c /\ k = j
        BY <3>2
      <4>1. Holding(d, k)' = Holding(d, k) \cup {<<i, s>>}
        <5>1. ASSUME NEW r \in Instances \X Slots
              PROVE  r \in Holding(d, k)' <=> r \in Holding(d, k) \cup {<<i, s>>}
          <6>0. PICK k2 \in Instances, t \in Slots : r = <<k2, t>>
            OBVIOUS
          <6>1. CASE r = <<i, s>>
            BY <2>2, <2>4, <4>0, <6>1 DEF Holding
          <6>2. CASE r # <<i, s>>
            BY <2>4, <6>0, <6>2 DEF Holding
          <6> QED
            BY <6>1, <6>2
        <5>2. Holding(d, k)' \subseteq Instances \X Slots /\ Holding(d, k) \subseteq Instances \X Slots
          BY DEF Holding
        <5> QED
          BY <5>1, <5>2
      <4>2. <<i, s>> \notin Holding(d, k)
        BY <1>0, <2>1, <4>0 DEF Holding
      <4>3. Cardinality(Holding(d, k)') = Cardinality(Holding(d, k)) + 1
        BY <4>1, <4>2, HoldingFinite, FS_AddElement
      <4> QED
        BY <2>6, <3>0, <4>0, <4>3
    <3> QED
      BY <3>1, <3>2
  <2> QED
    BY <1>0, <2>5, <2>7, <2>8 DEF LockInv, LockAccounted
<1> QED
  BY <1>1, <1>2, <1>3

(* The lock that a poll gives back is its own, or has strayed. *)
LEMMA GivenLocks ==
    ASSUME LockInv, TypeOK', NEW i \in Instances, NEW s \in Slots, PollUnlock(i, s)
    PROVE  LockInv'
<1> DEFINE p == polls[i][s]
           j == polls[i][s].job
           q == Visited(polls[i][s])
<1> PICK c \in ConnsOf[i] :
        /\ session' = Unlocked(c, j)
        /\ strayed' = {l \in strayed \cup Strays(p, c) : ~Free(l[1], l[2])'}
  BY Zenon DEF PollUnlock
<1>0. p \in Polls /\ j \in Jobs /\ c \in Conns /\ c # NoConn
  BY PgAssumption DEF LockInv, TypeOK, Polls
<1>1. Poll(i, s, q) /\ q.conn = NoConn
  <2>1. Poll(i, s, q)
    BY Zenon DEF PollUnlock
  <2>2. q.conn = NoConn
    BY <1>0 DEF Visited, Polls
  <2> QED
    BY <2>1, <2>2
<1>2. /\ polls'[i][s] = q
      /\ \A k \in Instances, t \in Slots : <<k, t>> # <<i, s>> => polls'[k][t] = polls[k][t]
  BY <1>1 DEF Poll, LockInv, TypeOK
<1> HIDE DEF q
<1>3. ConnsKept'
  BY <1>1, <1>2 DEF LockInv, ConnsKept
<1>4. \A d \in Conns, k \in Jobs : session[d][k] \in Nat
  BY DEF LockInv, TypeOK
<1>5. /\ session'[c][j] = IF session[c][j] = 0 THEN 0 ELSE session[c][j] - 1
      /\ \A d \in Conns, k \in Jobs : <<d, k>> # <<c, j>> => session'[d][k] = session[d][k]
  BY <1>0 DEF Unlocked, LockInv, TypeOK
<1>6. \A d \in Conns, k \in Jobs : session'[d][k] > 0 => session[d][k] > 0
  BY <1>0, <1>4, <1>5
<1>7. \A d, e \in Conns, k \in Jobs :
          session'[d][k] > 0 /\ session'[e][k] > 0 => d = e
  BY <1>6 DEF LockInv, LockAccounted
<1>8. ASSUME NEW d \in Conns, NEW k \in Jobs, <<d, k>> \notin strayed'
      PROVE  session'[d][k] = Cardinality(Holding(d, k)')
  <2>1. CASE Free(d, k)'
    <3>1. session'[d][k] = 0 /\ Holding(d, k)' = {}
      BY <2>1 DEF Free, Holding
    <3> QED
      BY <3>1, FS_EmptySet
  <2>2. CASE ~Free(d, k)'
    <3>0. <<d, k>> \notin strayed /\ <<d, k>> \notin Strays(p, c)
      BY <1>8, <2>2
    <3>1. session[d][k] = Cardinality(Holding(d, k))
      BY <3>0 DEF LockInv, LockAccounted
    <3>2. CASE p.conn = d /\ j = k
      <4>1. <<i, s>> \in Holding(d, k)
        BY <3>2 DEF Holding
      <4>2. session[d][k] > 0
        <5>1. Cardinality(Holding(d, k)) # 0
          BY <4>1, HoldingFinite, FS_EmptySet
        <5> QED
          BY <3>1, <5>1, HoldingFinite
      <4>3. d = c
        BY <1>0, <3>0, <3>2, <4>2 DEF Strays
      <4>4. Holding(d, k)' = Holding(d, k) \ {<<i, s>>}
        <5>1. ASSUME NEW r \in Instances \X Slots
              PROVE  r \in Holding(d, k)' <=> r \in Holding(d, k) \ {<<i, s>>}
          <6>0. PICK k2 \in Instances, t \in Slots : r = <<k2, t>>
            OBVIOUS
          <6>1. CASE r = <<i, s>>
            BY <1>0, <1>1, <1>2, <4>3, <6>1 DEF Holding
          <6>2. CASE r # <<i, s>>
            BY <1>2, <6>0, <6>2 DEF Holding
          <6> QED
            BY <6>1, <6>2
        <5>2. Holding(d, k)' \subseteq Instances \X Slots /\ Holding(d, k) \subseteq Instances \X Slots
          BY DEF Holding
        <5> QED
          BY <5>1, <5>2
      <4>5. Cardinality(Holding(d, k)') = Cardinality(Holding(d, k)) - 1
        BY <4>1, <4>4, HoldingFinite, FS_RemoveElement
      <4> QED
        BY <1>5, <3>1, <3>2, <4>2, <4>3, <4>5
    <3>3. CASE ~(p.conn = d /\ j = k)
      <4>1. Holding(d, k)' = Holding(d, k)
        <5>1. ~(q.conn = d /\ q.job = k)
          BY <1>1, PgAssumption
        <5> QED
          BY <1>1, <3>3, <5>1, OthersHold DEF LockInv
      <4>2. session'[d][k] = session[d][k]
        <5>1. CASE <<d, k>> # <<c, j>>
          BY <1>5, <5>1
        <5>2. CASE <<d, k>> = <<c, j>>
          <6>1. session[c][j] = 0
            BY <1>0, <1>4, <3>0, <3>3, <5>2 DEF Strays
          <6> QED
            BY <1>5, <5>2, <6>1
        <5> QED
          BY <5>1, <5>2
      <4> QED
        BY <3>1, <4>1, <4>2
    <3> QED
      BY <3>2, <3>3
  <2> QED
    BY <2>1, <2>2
<1> QED
  BY <1>3, <1>7, <1>8 DEF LockInv, LockAccounted

(* Where the connections in gone lose all their locks, the polls that had one
   there know of it, and no other lock is dropped without having strayed. *)
LEMMA ClearedLocks ==
    ASSUME LockInv, TypeOK', ConnsKept', NEW gone \in SUBSET Conns,
           \A c \in gone, j \in Jobs : session'[c][j] = 0,
           \A c \in Conns \ gone : session'[c] = session[c],
           \A i \in Instances, s \in Slots : polls'[i][s].conn \notin gone,
           \A c \in Conns \ gone, j \in Jobs : <<c, j>> \notin strayed' =>
               /\ <<c, j>> \notin strayed
               /\ \A i \in Instances, s \in Slots :
                     (polls'[i][s].conn = c /\ polls'[i][s].job = j)
                     <=> (polls[i][s].conn = c /\ polls[i][s].job = j)
    PROVE  LockInv'
<1>1. \A c \in Conns, j \in Jobs : session'[c][j] = 0 \/ session'[c][j] = session[c][j]
  OBVIOUS
<1>2. \A c, d \in Conns, j \in Jobs : session'[c][j] > 0 /\ session'[d][j] > 0 => c = d
  BY <1>1 DEF LockInv, LockAccounted
<1>3. ASSUME NEW c \in Conns, NEW j \in Jobs, <<c, j>> \notin strayed'
      PROVE  session'[c][j] = Cardinality(Holding(c, j)')
  <2>1. CASE c \in gone
    <3>1. Holding(c, j)' = {}
      BY <2>1 DEF Holding
    <3> QED
      BY <2>1, <3>1, FS_EmptySet
  <2>2. CASE c \notin gone
    <3>1. Holding(c, j)' = Holding(c, j)
      BY <1>3, <2>2 DEF Holding
    <3> QED
      BY <1>3, <2>2, <3>1 DEF LockInv, LockAccounted
  <2> QED
    BY <2>1, <2>2
<1> QED
  BY <1>2, <1>3 DEF LockInv, LockAccounted

(* A connection that breaks takes its locks with it. *)
LEMMA BrokenLocks ==
    ASSUME LockInv, TypeOK', NEW i \in Instances,
           ConnectionLost(i) \/ \E s \in Slots : QueryFails(i, s)
    PROVE  LockInv'
<1>t. \A k \in Instances, t \in Slots : polls[k][t] \in Polls
  BY DEF LockInv, TypeOK
<1>1. ASSUME NEW c \in ConnsOf[i], Broken(c), NEW left,
             strayed' = {l \in strayed \cup left : l[1] # c},
             \A k \in Instances \ {i} : polls'[k] = polls[k],
             NEW s \in Slots,
             \A t \in Slots \ {s} : polls'[i][t] = Bereft(polls[i][t], c),
             \/ polls'[i][s] = Bereft(polls[i][s], c)
             \/ polls'[i][s] = AfterFailure(polls[i][s], c) /\ left = LeavesBehind(polls[i][s])
      PROVE  LockInv'
  <2>0. c \in Conns /\ c # NoConn
    BY PgAssumption
  <2>1. /\ \A j \in Jobs : session'[c][j] = 0
        /\ \A d \in Conns \ {c} : session'[d] = session[d]
    BY <1>1, <2>0 DEF Broken, LockInv, TypeOK
  <2>2. \A k \in Instances, t \in Slots :
            LET b == Bereft(polls[k][t], c) IN
            /\ b.at = polls[k][t].at /\ b.job = polls[k][t].job
            /\ b.conn = IF polls[k][t].conn = c THEN NoConn ELSE polls[k][t].conn
    BY <1>t DEF Bereft, Polls
  <2>3. \A k \in Instances \ {i}, t \in Slots : polls[k][t].conn # c
    BY <2>0, PgAssumption DEF LockInv, ConnsKept
  <2> DEFINE a == AfterFailure(polls[i][s], c)
             b == Bereft(polls[i][s], c)
  <2>4. CASE polls'[i][s] = b
    <3>1. \A k \in Instances, t \in Slots :
              /\ polls'[k][t].at = polls[k][t].at /\ polls'[k][t].job = polls[k][t].job
              /\ polls'[k][t].conn = IF polls[k][t].conn = c THEN NoConn
                                     ELSE polls[k][t].conn
      BY <1>1, <2>2, <2>3, <2>4
    <3>2. ConnsKept'
      BY <3>1 DEF LockInv, ConnsKept
    <3>3. \A d \in Conns \ {c}, j \in Jobs : <<d, j>> \notin strayed' =>
              /\ <<d, j>> \notin strayed
              /\ \A k \in Instances, t \in Slots :
                    (polls'[k][t].conn = d /\ polls'[k][t].job = j)
                    <=> (polls[k][t].conn = d /\ polls[k][t].job = j)
      BY <1>1, <2>0, <3>1, PgAssumption
    <3>4. \A k \in Instances, t \in Slots : polls'[k][t].conn \notin {c}
      BY <2>0, <3>1
    <3>7. {c} \in SUBSET Conns /\ \A d \in {c}, j \in Jobs : session'[d][j] = 0
      BY <2>0, <2>1
    <3>8. \A d \in Conns \ {c} : session'[d] = session[d]
      BY <2>1
    <3> HIDE DEF a, b
    <3> QED
      BY <3>2, <3>3, <3>4, <3>7, <3>8, ClearedLocks
  <2>5. CASE polls'[i][s] = a /\ left = LeavesBehind(polls[i][s])
    <3>0. /\ b \in Polls
          /\ polls[i][s].at \in {"select", "unlock"} => a = NoPoll
          /\ polls[i][s].at \notin {"select", "unlock"} => a = [b EXCEPT !.at = "unlock"]
      BY <1>t, PollTypes DEF AfterFailure
    <3>1. /\ polls[i][s].at \in {"select", "unlock"} => a.conn = NoConn
          /\ polls[i][s].at \notin {"select", "unlock"} =>
                a.conn = b.conn /\ a.job = b.job /\ a.at = "unlock"
      BY <3>0 DEF NoPoll, Polls
    <3> HIDE DEF a, b
    <3>2. \A k \in Instances, t \in Slots : <<k, t>> # <<i, s>> =>
              /\ polls'[k][t].at = polls[k][t].at /\ polls'[k][t].job = polls[k][t].job
              /\ polls'[k][t].conn = IF polls[k][t].conn = c THEN NoConn
                                     ELSE polls[k][t].conn
      BY <1>1, <2>2, <2>3
    <3>b. b.conn = (IF polls[i][s].conn = c THEN NoConn ELSE polls[i][s].conn) /\ b.job = polls[i][s].job
      BY <2>2 DEF b
    <3>3. a.conn # NoConn => /\ a.conn = polls[i][s].conn /\ a.job = polls[i][s].job
                             /\ a.at \in Held /\ a.conn # c
      BY <3>1, <3>b DEF Held
    <3>4. ConnsKept'
      <4> SUFFICES ASSUME NEW k \in Instances, NEW t \in Slots, polls'[k][t].conn # NoConn
                   PROVE  polls'[k][t].conn \in ConnsOf[k] /\ polls'[k][t].at \in Held
        BY DEF ConnsKept
      <4>1. CASE <<k, t>> = <<i, s>>
        BY <2>5, <3>3, <4>1 DEF LockInv, ConnsKept
      <4>2. CASE <<k, t>> # <<i, s>>
        BY <3>2, <4>2 DEF LockInv, ConnsKept
      <4> QED
        BY <4>1, <4>2
    <3>5. ASSUME NEW d \in Conns \ {c}, NEW j \in Jobs, <<d, j>> \notin strayed'
          PROVE  /\ <<d, j>> \notin strayed
                 /\ \A k \in Instances, t \in Slots :
                    (polls'[k][t].conn = d /\ polls'[k][t].job = j)
                    <=> (polls[k][t].conn = d /\ polls[k][t].job = j)
      <4>1. <<d, j>> \notin strayed /\ <<d, j>> \notin LeavesBehind(polls[i][s])
        BY <1>1, <2>5, <3>5
      <4>2. (a.conn = d /\ a.job = j) <=> (polls[i][s].conn = d /\ polls[i][s].job = j)
        <5>1. d # NoConn
          BY PgAssumption
        <5>2. CASE polls[i][s].at = "unlock"
          BY <3>1, <4>1, <5>1, <5>2 DEF LeavesBehind
        <5>3. CASE polls[i][s].at = "select"
          <6>1. polls[i][s].conn = NoConn
            BY <5>3 DEF LockInv, ConnsKept, Held
          <6> QED
            BY <3>1, <5>1, <5>3, <6>1
        <5>4. CASE polls[i][s].at \notin {"select", "unlock"}
          BY <3>1, <3>b, <3>5, <5>1, <5>4
        <5> QED
          BY <5>2, <5>3, <5>4
      <4> SUFFICES ASSUME NEW k \in Instances, NEW t \in Slots
                   PROVE  (polls'[k][t].conn = d /\ polls'[k][t].job = j)
                          <=> (polls[k][t].conn = d /\ polls[k][t].job = j)
        BY <4>1
      <4>3. CASE <<k, t>> = <<i, s>>
        BY <2>5, <4>2, <4>3
      <4>4. CASE <<k, t>> # <<i, s>>
        BY <3>2, <3>5, <4>4, PgAssumption
      <4> QED
        BY <4>3, <4>4
    <3>6. \A k \in Instances, t \in Slots : polls'[k][t].conn \notin {c}
      <4> SUFFICES ASSUME NEW k \in Instances, NEW t \in Slots PROVE polls'[k][t].conn # c
        OBVIOUS
      <4>1. CASE <<k, t>> = <<i, s>>
        BY <2>0, <2>5, <3>3, <4>1
      <4>2. CASE <<k, t>> # <<i, s>>
        BY <2>0, <3>2, <4>2
      <4> QED
        BY <4>1, <4>2
    <3>7. {c} \in SUBSET Conns /\ \A d \in {c}, j \in Jobs : session'[d][j] = 0
      BY <2>0, <2>1
    <3>8. \A d \in Conns \ {c} : session'[d] = session[d]
      BY <2>1
    <3> HIDE DEF a, b
    <3> QED
      BY <3>4, <3>5, <3>6, <3>7, <3>8, ClearedLocks
  <2> QED
    BY <1>1, <2>4, <2>5
<1>2. CASE ConnectionLost(i)
  <2> PICK c \in ConnsOf[i] :
        /\ Broken(c)
        /\ polls' = [polls EXCEPT ![i] = [t \in Slots |-> Bereft(polls[i][t], c)]]
        /\ strayed' = {l \in strayed : l[1] # c}
    BY <1>2, Zenon DEF ConnectionLost
  <2>1. /\ \A k \in Instances \ {i} : polls'[k] = polls[k]
        /\ \A t \in Slots : polls'[i][t] = Bereft(polls[i][t], c)
    BY DEF LockInv, TypeOK
  <2>2. strayed' = {l \in strayed \cup {} : l[1] # c}
    OBVIOUS
  <2>3. CASE Slots = {}
    <3>1. UNCHANGED polls
      BY <2>3 DEF LockInv, TypeOK
    <3>2. c \in Conns
      BY PgAssumption
    <3>3. /\ \A j \in Jobs : session'[c][j] = 0
          /\ \A d \in Conns \ {c} : session'[d] = session[d]
      BY <3>2 DEF Broken, LockInv, TypeOK
    <3>4. ConnsKept' /\ \A k \in Instances, t \in Slots : polls'[k][t].conn \notin {c}
      BY <2>3 DEF ConnsKept
    <3>5. \A d \in Conns \ {c}, j \in Jobs : <<d, j>> \notin strayed' =>
              /\ <<d, j>> \notin strayed
              /\ \A k \in Instances, t \in Slots :
                    (polls'[k][t].conn = d /\ polls'[k][t].job = j)
                    <=> (polls[k][t].conn = d /\ polls[k][t].job = j)
      BY <2>3
    <3> QED
      BY <3>2, <3>3, <3>4, <3>5, ClearedLocks
  <2>4. CASE Slots # {}
    <3>1. PICK s \in Slots : TRUE
      BY <2>4
    <3> QED
      BY <1>1, <2>1, <2>2, <3>1
  <2> QED
    BY <2>3, <2>4
<1>3. ASSUME NEW s \in Slots, QueryFails(i, s) PROVE LockInv'
  <2> PICK c \in ConnsOf[i] :
        /\ Broken(c)
        /\ polls' = [polls EXCEPT ![i] = [t \in Slots |->
                        IF t = s THEN AfterFailure(polls[i][s], c)
                        ELSE Bereft(polls[i][t], c)]]
        /\ strayed' = {l \in strayed \cup LeavesBehind(polls[i][s]) : l[1] # c}
    BY <1>3, Zenon DEF QueryFails
  <2>1. /\ \A k \in Instances \ {i} : polls'[k] = polls[k]
        /\ \A t \in Slots \ {s} : polls'[i][t] = Bereft(polls[i][t], c)
        /\ polls'[i][s] = AfterFailure(polls[i][s], c)
    BY DEF LockInv, TypeOK
  <2> QED
    BY <1>1, <2>1
<1> QED
  BY <1>2, <1>3

(* Every step keeps the locks. *)
LEMMA StepLocks == LockInv /\ [Next]_vars => LockInv'
<1> SUFFICES ASSUME LockInv, [Next]_vars PROVE LockInv'
  OBVIOUS
<1>t. TypeOK'
  BY StepTypeOK DEF LockInv
<1>p. \A i \in Instances, s \in Slots : polls[i][s] \in Polls
  BY DEF LockInv, TypeOK
<1>u. CASE UNCHANGED <<session, polls, strayed>>
  <2>1. \A i \in Instances, s \in Slots : Proceeds(i, s)
    BY <1>u DEF Proceeds, LockInv, ConnsKept
  <2> QED
    BY <1>t, <1>u, <2>1, SameLocks
<1>1. CASE UNCHANGED vars \/ Tick
  BY <1>1, <1>u DEF vars, Tick
<1>2. ASSUME NEW i \in Instances, Admin(i) PROVE LockInv'
  <2>1. CASE UnregisterDelete(i)
    <3>1. UNCHANGED <<session, strayed>>
      BY <2>1, Zenon DEF UnregisterDelete
    <3>2. polls' = [polls EXCEPT ![i] = [s \in Slots |->
                       [polls[i][s] EXCEPT !.visited = @ \ {admin[i].job}]]]
      BY <2>1 DEF UnregisterDelete
    <3>3. \A s \in Slots : /\ polls'[i][s].at = polls[i][s].at
                           /\ polls'[i][s].job = polls[i][s].job
                           /\ polls'[i][s].conn = polls[i][s].conn
      BY <3>2, <1>p DEF LockInv, TypeOK, Polls
    <3>4. \A k \in Instances \ {i} : polls'[k] = polls[k]
      BY <3>2 DEF LockInv, TypeOK
    <3>5. \A k \in Instances, s \in Slots : Proceeds(k, s)
      BY <3>3, <3>4 DEF Proceeds, LockInv, ConnsKept
    <3> QED
      BY <1>t, <3>1, <3>5, SameLocks
  <2>2. CASE ~UnregisterDelete(i)
    <3>1. UNCHANGED <<session, polls, strayed>>
      BY <1>2, <2>2, Zenon DEF Admin, Register, Handle, Unregister, RegisterDefine,
         HandleSchedule, Upsert, AdminFails, Start, Stop
    <3> QED
      BY <1>u, <3>1
  <2> QED
    BY <2>1, <2>2
<1>3. ASSUME NEW i \in Instances, NEW s \in Slots,
             \/ PollStart(i, s) \/ PollVisit(i, s) \/ PollSelect(i, s) \/ PollUpdate(i, s)
             \/ HandlerReturns(i, s) \/ HandlerThrows(i, s)
      PROVE  LockInv'
  <2> DEFINE p == polls[i][s]
  <2>0. p \in Polls
    BY <1>p
  <2>k. p.conn # NoConn => p.at \in Held
    BY DEF LockInv, ConnsKept
  <2> DEFINE Goes(q) == /\ q.conn = p.conn
                        /\ p.conn # NoConn => q.job = p.job /\ q.at \in Held
  <2>1. UNCHANGED <<session, strayed>> /\ \E q : Poll(i, s, q) /\ Goes(q)
    <3>1. CASE PollStart(i, s)
      <4>1. p.at = "idle" /\ UNCHANGED <<session, strayed>>
            /\ Poll(i, s, [NoPoll EXCEPT !.at = "visit", !.now = clock])
        BY <3>1, Zenon DEF PollStart
      <4>2. [NoPoll EXCEPT !.at = "visit", !.now = clock].conn = NoConn
        BY DEF NoPoll
      <4> QED
        BY <2>k, <4>1, <4>2 DEF Held
    <3>2. CASE PollVisit(i, s)
      <4>1. p.at = "visit" /\ UNCHANGED <<session, strayed>>
        BY <3>2, Zenon DEF PollVisit
      <4>2. \/ Poll(i, s, NoPoll)
            \/ \E k : Poll(i, s, [p EXCEPT !.at = "select", !.job = k])
        BY <3>2, Zenon DEF PollVisit
      <4>3. p.conn = NoConn /\ NoPoll.conn = NoConn
        BY <2>k, <4>1 DEF Held, NoPoll
      <4>4. \A k : [p EXCEPT !.at = "select", !.job = k].conn = p.conn
        BY <2>0 DEF Polls
      <4> QED
        BY <4>1, <4>2, <4>3, <4>4
    <3>3. CASE PollSelect(i, s)
      <4>1. p.at = "select" /\ UNCHANGED <<session, strayed>>
        BY <3>3, Zenon DEF PollSelect
      <4>2. Poll(i, s, [p EXCEPT !.at = "lock"]) \/ Poll(i, s, Visited(p))
        BY <3>3 DEF PollSelect
      <4>3. p.conn = NoConn /\ [p EXCEPT !.at = "lock"].conn = p.conn /\ Visited(p).conn = NoConn
        BY <2>0, <2>k, <4>1 DEF Held, Visited, Polls
      <4> QED
        BY <4>1, <4>2, <4>3
    <3>4. CASE PollUpdate(i, s) \/ HandlerThrows(i, s)
      <4>1. UNCHANGED <<session, strayed>> /\ Poll(i, s, [p EXCEPT !.at = "unlock"])
        BY <3>4, Zenon DEF PollUpdate, HandlerThrows
      <4>2. /\ [p EXCEPT !.at = "unlock"].conn = p.conn
            /\ [p EXCEPT !.at = "unlock"].job = p.job
            /\ [p EXCEPT !.at = "unlock"].at \in Held
        BY <2>0 DEF Held, Polls
      <4> QED
        BY <4>1, <4>2
    <3>5. CASE HandlerReturns(i, s)
      <4> DEFINE q == [p EXCEPT !.at = "update", !.next = GetNextRun(clock)]
      <4>1. q.conn = p.conn /\ q.job = p.job /\ q.at \in Held
        BY <2>0 DEF Held, Polls
      <4>2. UNCHANGED <<session, strayed>> /\ Poll(i, s, q)
        BY <3>5, Zenon DEF HandlerReturns
      <4> HIDE DEF q
      <4> QED
        BY <4>1, <4>2
    <3> QED
      BY <1>3, <3>1, <3>2, <3>3, <3>4, <3>5
  <2>2. \A k \in Instances, t \in Slots : Proceeds(k, t)
    <3> HIDE DEF p
    <3> PICK q : Poll(i, s, q) /\ Goes(q)
      BY <2>1
    <3>1. /\ polls'[i][s] = q
          /\ \A k \in Instances, t \in Slots : <<k, t>> # <<i, s>> => polls'[k][t] = polls[k][t]
      BY DEF Poll, LockInv, TypeOK
    <3> SUFFICES ASSUME NEW k \in Instances, NEW t \in Slots PROVE Proceeds(k, t)
      OBVIOUS
    <3>2. CASE <<k, t>> = <<i, s>>
      BY <3>1, <3>2 DEF Proceeds, p
    <3>3. CASE <<k, t>> # <<i, s>>
      BY <3>1, <3>3 DEF Proceeds, LockInv, ConnsKept
    <3> QED
      BY <3>2, <3>3
  <2> QED
    BY <1>t, <2>1, <2>2, SameLocks
<1>4. ASSUME NEW i \in Instances, NEW s \in Slots, PollLock(i, s) \/ PollUnlock(i, s)
      PROVE  LockInv'
  BY <1>4, <1>t, TakenLocks, GivenLocks
<1>5. ASSUME NEW i \in Instances, ConnectionLost(i) \/ \E s \in Slots : QueryFails(i, s)
      PROVE  LockInv'
  BY <1>5, <1>t, BrokenLocks
<1>6. ASSUME NEW i \in Instances, Crash(i) PROVE LockInv'
  <2>0. ConnsOf[i] \subseteq Conns
    BY PgAssumption
  <2>1. /\ \A c \in ConnsOf[i], j \in Jobs : session'[c][j] = 0
        /\ \A c \in Conns \ ConnsOf[i] : session'[c] = session[c]
    BY <1>6, <2>0 DEF Crash
  <2>2. /\ \A k \in Instances \ {i} : polls'[k] = polls[k]
        /\ \A t \in Slots : polls'[i][t].conn = NoConn
    BY <1>6 DEF Crash, LockInv, TypeOK, NoPoll
  <2>3. ConnsKept'
    BY <2>2 DEF LockInv, ConnsKept
  <2>4. \A k \in Instances, t \in Slots : polls'[k][t].conn \notin ConnsOf[i]
    <3>1. NoConn \notin Conns
      BY PgAssumption
    <3>2. \A k \in Instances \ {i} : ConnsOf[k] \cap ConnsOf[i] = {}
      BY PgAssumption
    <3> QED
      BY <2>0, <2>2, <3>1, <3>2 DEF LockInv, ConnsKept
  <2>5. strayed' = {l \in strayed : l[1] \notin ConnsOf[i]}
    BY <1>6, Zenon DEF Crash
  <2>6. \A c \in Conns \ ConnsOf[i], j \in Jobs : <<c, j>> \notin strayed' =>
            /\ <<c, j>> \notin strayed
            /\ \A k \in Instances, t \in Slots :
                  (polls'[k][t].conn = c /\ polls'[k][t].job = j)
                  <=> (polls[k][t].conn = c /\ polls[k][t].job = j)
    <3>1. \A c \in Conns \ ConnsOf[i], t \in Slots :
              polls'[i][t].conn # c /\ polls[i][t].conn # c
      BY <2>2, PgAssumption DEF LockInv, ConnsKept
    <3> QED
      BY <2>2, <2>5, <3>1
  <2> QED
    BY <1>t, <2>0, <2>1, <2>3, <2>4, <2>6, ClearedLocks
<1> QED
  BY <1>1, <1>2, <1>3, <1>4, <1>5, <1>6 DEF Next, Work, PollStep

(* Two polls that run a job have its lock, in sessions that are one, of one
   instance. *)
LEMMA LocksExclude == LockInv => NoOverlap
<1> SUFFICES ASSUME LockInv, NEW j \in Jobs, NEW r \in Runners(j), NEW t \in Runners(j),
                    InLock(r, j), InLock(t, j)
             PROVE  r[1] = t[1] /\ polls[r[1]][r[2]].conn = polls[t[1]][t[2]].conn
  BY DEF NoOverlap
<1> DEFINE c == polls[r[1]][r[2]].conn
           d == polls[t[1]][t[2]].conn
<1>1. /\ r \in Instances \X Slots /\ polls[r[1]][r[2]].job = j
      /\ t \in Instances \X Slots /\ polls[t[1]][t[2]].job = j
  BY DEF Runners
<1>2. /\ c \in ConnsOf[r[1]] /\ d \in ConnsOf[t[1]]
      /\ c \in Conns /\ d \in Conns
      /\ <<c, j>> \notin strayed /\ <<d, j>> \notin strayed
  BY <1>1, PgAssumption DEF InLock, LockInv, ConnsKept
<1>3. r \in Holding(c, j) /\ t \in Holding(d, j)
  BY <1>1 DEF Holding
<1>4. Cardinality(Holding(c, j)) # 0 /\ Cardinality(Holding(d, j)) # 0
  BY <1>3, HoldingFinite, FS_EmptySet
<1>5. session[c][j] > 0 /\ session[d][j] > 0
  BY <1>2, <1>4, HoldingFinite DEF LockInv, LockAccounted
<1>6. c = d
  BY <1>2, <1>5 DEF LockInv, LockAccounted
<1>7. r[1] = t[1]
  BY <1>1, <1>2, <1>6, PgAssumption
<1> QED
  BY <1>6, <1>7

(* pollAndExecute runs a job under an advisory lock: whatever handlers throw,
   queries fail and instances die, no two instances run a job at once and no
   lock outlives the run it was taken for, but for sessions that break under
   a run and for locks that a pool or overlapping polls have let stray. *)
THEOREM Governed == Spec => []LockGoverns
<1>1. Init => LockInv
  BY InitLocks
<1>2. LockInv /\ [Next]_vars => LockInv'
  BY StepLocks
<1>3. LockInv => LockGoverns
  BY LocksExclude DEF LockGoverns, LockInv
<1> QED
  BY <1>1, <1>2, <1>3, PTL DEF Spec
=============================================================================
