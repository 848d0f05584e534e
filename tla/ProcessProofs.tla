---------------------------- MODULE ProcessProofs ----------------------------
(***************************************************************************)
(* What lives in the application's process: the debounce of a tenant, for  *)
(* any number of tasks; the start and the stop of its two loops, for any   *)
(* tenants and connectors; and the requests it answers, for any number of  *)
(* tenants, users, requests and connections of its pool.                   *)
(***************************************************************************)
EXTENDS AppLifespan, AutoCorrelation, Accounts, TLAPS

(* The debounce: at most one timer of a tenant is alive, and it is the one *)
(* _pending names.  OneLiveTimer is inductive once it is known what a task *)
(* record looks like.                                                      *)
TaskRecords ==
  [pc : {"sleeping", "opening", "writing", "committing", "done"},
   seen : Int, cancelled : BOOLEAN]

(* The strengthening: the counters are integers, so records stay records.  *)
TimerInv ==
  /\ ingested \in Int
  /\ task \in [Tasks -> TaskRecords]
  /\ OneLiveTimer

LEMMA InitTimerInv == Init => TimerInv
BY DEF Init, TimerInv, TaskRecords, Finished, OneLiveTimer, Running

(* A step that moves one task, leaves it cancelled if it was, and keeps    *)
(* _pending, starts no timer.                                              *)
LEMMA MoveOne ==
  ASSUME TimerInv, NEW t \in Tasks, NEW r \in TaskRecords,
         Running(t), ~task[t].cancelled,
         task' = [task EXCEPT ![t] = r], pending' = pending, ingested' \in Int
  PROVE  TimerInv'
BY DEF TimerInv, OneLiveTimer, Running, TaskRecords

(* A step that ends one task may pop its own entry and no other.           *)
LEMMA EndOne ==
  ASSUME TimerInv, NEW t \in Tasks, task' = [task EXCEPT ![t] = Finished],
         pending' \in {pending, Popped(t)}, ingested' \in Int
  PROVE  TimerInv'
<1>1. task' \in [Tasks -> TaskRecords]
  BY DEF TimerInv, TaskRecords, Finished
<1>2. ASSUME NEW u \in Tasks, Running(u)', ~task'[u].cancelled
      PROVE  pending' = u
  <2>1. u # t
    BY <1>2 DEF Running, Finished, TimerInv
  <2>2. Running(u) /\ ~task[u].cancelled
    BY <1>2, <2>1 DEF Running, TimerInv
  <2>3. pending = u
    BY <2>2 DEF TimerInv, OneLiveTimer
  <2> QED BY <2>1, <2>3 DEF Popped
<1> QED BY <1>1, <1>2 DEF TimerInv, OneLiveTimer

LEMMA ArmStep == ASSUME TimerInv, Arm PROVE TimerInv'
<1>1. PICK t \in Tasks :
        /\ ~Running(t)
        /\ task' = [u \in Tasks |->
             CASE u = t                    -> [Finished EXCEPT !.pc = "sleeping"]
               [] u = pending /\ Running(u) -> [task[u] EXCEPT !.cancelled = TRUE]
               [] OTHER                    -> task[u]]
        /\ pending' = t
  BY DEF Arm
<1>2. task' \in [Tasks -> TaskRecords]
  <2>1. ASSUME NEW u \in Tasks PROVE task'[u] \in TaskRecords
    <3>1. [Finished EXCEPT !.pc = "sleeping"] \in TaskRecords
      <4>1. Finished \in TaskRecords
        BY DEF Finished, TaskRecords
      <4> QED BY <4>1 DEF TaskRecords
    <3>2. task[u] \in TaskRecords /\ [task[u] EXCEPT !.cancelled = TRUE] \in TaskRecords
      BY DEF TimerInv, TaskRecords
    <3> QED BY <1>1, <3>1, <3>2
  <2> QED BY <1>1, <2>1
<1>3. ASSUME NEW u \in Tasks, u # t PROVE ~(Running(u)' /\ ~task'[u].cancelled)
  <2>1. CASE u = pending /\ Running(u)
    BY <1>1, <1>3, <2>1 DEF TimerInv, TaskRecords
  <2>2. CASE ~(u = pending /\ Running(u))
    <3>1. task'[u] = task[u]
      BY <1>1, <1>3, <2>2
    <3>2. ~(Running(u) /\ ~task[u].cancelled)
      BY <2>2 DEF TimerInv, OneLiveTimer
    <3> QED BY <3>1, <3>2 DEF Running
  <2> QED BY <2>1, <2>2
<1>4. ingested' \in Int
  BY DEF Arm, TimerInv
<1> QED BY <1>1, <1>2, <1>3, <1>4 DEF TimerInv, OneLiveTimer

LEMMA TaskStepKeeps == ASSUME TimerInv, NEW t \in Tasks, TaskStep(t) PROVE TimerInv'
<1>1. CASE Wake(t)
  <2>1. ~task[t].cancelled /\ Running(t)
    BY <1>1 DEF Wake, Running
  <2>2. [task[t] EXCEPT !.pc = "opening"] \in TaskRecords
    BY DEF TimerInv, TaskRecords
  <2>3. task' = [task EXCEPT ![t] = [task[t] EXCEPT !.pc = "opening"]]
    BY <1>1 DEF Wake, TimerInv
  <2> QED BY <1>1, <2>1, <2>2, <2>3, MoveOne DEF Wake, TimerInv
<1>2. CASE ReadEvents(t)
  <2>1. ~task[t].cancelled /\ Running(t)
    BY <1>2 DEF ReadEvents, Running
  <2>2. [task[t] EXCEPT !.pc = "writing", !.seen = ingested] \in TaskRecords
    BY DEF TimerInv, TaskRecords
  <2>3. task' = [task EXCEPT ![t] = [task[t] EXCEPT !.pc = "writing", !.seen = ingested]]
    BY <1>2 DEF ReadEvents, TimerInv, TaskRecords
  <2> QED BY <1>2, <2>1, <2>2, <2>3, MoveOne DEF ReadEvents, TimerInv
<1>3. CASE SendCommit(t)
  <2>1. ~task[t].cancelled /\ Running(t)
    BY <1>3 DEF SendCommit, Running
  <2>2. [task[t] EXCEPT !.pc = "committing"] \in TaskRecords
    BY DEF TimerInv, TaskRecords
  <2>3. task' = [task EXCEPT ![t] = [task[t] EXCEPT !.pc = "committing"]]
    BY <1>3 DEF SendCommit, TimerInv
  <2> QED BY <1>3, <2>1, <2>2, <2>3, MoveOne DEF SendCommit, TimerInv
<1>4. CASE Committed(t)
  BY <1>4, EndOne DEF Committed, TimerInv
<1>5. CASE Fails(t)
  BY <1>5, EndOne DEF Fails, TimerInv
<1>6. CASE Unwinds(t)
  BY <1>6, EndOne DEF Unwinds, TimerInv
<1> QED BY <1>1, <1>2, <1>3, <1>4, <1>5, <1>6 DEF TaskStep

LEMMA CancelStep == ASSUME TimerInv, CancelPending PROVE TimerInv'
<1>1. task' \in [Tasks -> TaskRecords]
  BY DEF CancelPending, TimerInv, TaskRecords
<1>2. ASSUME NEW u \in Tasks, Running(u)' PROVE task'[u].cancelled
  <2>1. CASE u = pending
    BY <1>2, <2>1 DEF CancelPending, TimerInv, TaskRecords, Running
  <2>2. CASE u # pending
    <3>1. task'[u] = task[u]
      BY <2>2 DEF CancelPending, TimerInv
    <3>2. Running(u)
      BY <1>2, <3>1 DEF Running
    <3> QED BY <2>2, <3>1, <3>2 DEF TimerInv, OneLiveTimer
  <2> QED BY <2>1, <2>2
<1> QED BY <1>1, <1>2 DEF TimerInv, OneLiveTimer, CancelPending

LEMMA NextTimerInv == TimerInv /\ [Next]_vars => TimerInv'
<1> SUFFICES ASSUME TimerInv, [Next]_vars PROVE TimerInv'
  OBVIOUS
<1>1. CASE Ingest
  BY <1>1 DEF Ingest, TimerInv, OneLiveTimer, Running
<1>2. CASE Arm
  BY <1>2, ArmStep
<1>3. ASSUME NEW t \in Tasks, TaskStep(t) PROVE TimerInv'
  BY <1>3, TaskStepKeeps
<1>4. CASE CancelPending
  BY <1>4, CancelStep
<1>5. CASE Restart
  BY <1>5 DEF Restart, TimerInv, OneLiveTimer, Running, Finished, TaskRecords
<1>6. CASE UNCHANGED vars
  BY <1>6 DEF vars, TimerInv, OneLiveTimer, Running
<1> QED BY <1>1, <1>2, <1>3, <1>4, <1>5, <1>6 DEF Next

(* "one correlation pass fires": whatever is armed, cancelled, failed or   *)
(* restarted, a task nobody has cancelled is the one _pending names.       *)
THEOREM OneTimer == Spec => []OneLiveTimer
<1>1. TimerInv => OneLiveTimer
  BY DEF TimerInv
<1> QED BY InitTimerInv, NextTimerInv, <1>1, PTL DEF Spec

(* The counters: nothing claims more than was ingested.  A pass commits    *)
(* what it read when it began, so what it read must be bounded as well.    *)
CountInv ==
  /\ TypeOK
  /\ \A t \in Tasks : task[t].seen <= ingested

Armed == [pc : {"sleeping", "opening", "writing", "committing", "done"},
          seen : 0..MaxIngests, cancelled : BOOLEAN]

LEMMA InitCounts == Init => CountInv
<1> SUFFICES ASSUME Init PROVE CountInv
  OBVIOUS
<1>1. Finished \in Armed /\ Finished.seen = 0 /\ 0 \in 0..MaxIngests /\ 0 \in 0..0
  BY TasksAssumption DEF Finished, Armed
<1>2. task \in [Tasks -> Armed] /\ \A t \in Tasks : task[t].seen = 0
  BY <1>1 DEF Init
<1>3. dropped \in BOOLEAN /\ pending \in Tasks \union {None}
  BY DEF Init
<1>4. ingested \in 0..MaxIngests /\ toArm \in 0..ingested /\ correlated \in 0..ingested
  BY <1>1 DEF Init
<1>5. \A t \in Tasks : task[t].seen <= ingested
  BY <1>2 DEF Init
<1> QED BY <1>2, <1>3, <1>4, <1>5 DEF CountInv, TypeOK, Armed

LEMMA TaskCounts ==
  ASSUME CountInv, NEW t \in Tasks, TaskStep(t)
  PROVE  CountInv'
<1> USE DEF CountInv, TypeOK, Armed
<1>1. task[t] \in Armed /\ task[t].seen <= ingested /\ task \in [Tasks -> Armed]
  OBVIOUS
<1>2. ingested \in 0..MaxIngests /\ ingested \in Nat
  BY TasksAssumption
<1>3. Finished \in Armed /\ Finished.seen = 0
  BY TasksAssumption DEF Finished
<1>4. ASSUME NEW r \in Armed, r.seen <= ingested, task' = [task EXCEPT ![t] = r],
             UNCHANGED <<ingested, toArm>>, correlated' \in 0..ingested,
             pending' \in {None, pending}, dropped' \in BOOLEAN
      PROVE  CountInv'
  BY <1>1, <1>4
<1>5. CASE Wake(t) \/ SendCommit(t)
  <2>1. PICK there \in {"opening", "committing"} :
          /\ task' = [task EXCEPT ![t] = [task[t] EXCEPT !.pc = there]]
          /\ UNCHANGED <<ingested, toArm, pending, correlated, dropped>>
    BY <1>1, <1>5 DEF Wake, SendCommit
  <2>2. [task[t] EXCEPT !.pc = there] \in Armed
    BY <1>1
  <2> QED BY <1>1, <1>4, <2>1, <2>2
<1>6. CASE ReadEvents(t)
  <2>1. /\ task' = [task EXCEPT ![t] = [task[t] EXCEPT !.pc = "writing", !.seen = ingested]]
        /\ UNCHANGED <<ingested, toArm, pending, correlated, dropped>>
    BY <1>1, <1>6 DEF ReadEvents
  <2>2. [task[t] EXCEPT !.pc = "writing", !.seen = ingested] \in Armed
    BY <1>1, <1>2
  <2> QED BY <1>1, <1>2, <1>4, <2>1, <2>2
<1>7. CASE Committed(t)
  <2>1. correlated' \in 0..ingested
    BY <1>1, <1>2, <1>7 DEF Committed
  <2> QED BY <1>2, <1>3, <1>4, <1>7, <2>1 DEF Committed, Popped
<1>8. CASE Fails(t) \/ Unwinds(t)
  <2>1. /\ task' = [task EXCEPT ![t] = Finished]
        /\ UNCHANGED <<ingested, toArm, correlated>>
    BY <1>8 DEF Fails, Unwinds
  <2>2. pending' \in {None, pending}
    BY <1>8 DEF Fails, Unwinds, Popped
  <2>3. dropped' \in BOOLEAN
    BY <1>8 DEF Fails, Unwinds
  <2> QED BY <1>2, <1>3, <1>4, <2>1, <2>2, <2>3
<1> QED BY <1>5, <1>6, <1>7, <1>8 DEF TaskStep

LEMMA NextCounts == CountInv /\ [Next]_vars => CountInv'
<1> SUFFICES ASSUME CountInv, [Next]_vars PROVE CountInv'
  OBVIOUS
<1> USE DEF CountInv, TypeOK, Armed
<1>1. ingested \in 0..MaxIngests /\ ingested \in Nat /\ MaxIngests \in Nat
  BY TasksAssumption
<1>2. Finished \in Armed /\ Finished.seen = 0
  BY TasksAssumption DEF Finished
<1>3. CASE Ingest
  BY <1>1, <1>3 DEF Ingest
<1>4. CASE Arm
  <2>1. PICK t \in Tasks :
          /\ task' = [u \in Tasks |->
               CASE u = t                    -> [Finished EXCEPT !.pc = "sleeping"]
                 [] u = pending /\ Running(u) -> [task[u] EXCEPT !.cancelled = TRUE]
                 [] OTHER                    -> task[u]]
          /\ pending' = t
    BY <1>4 DEF Arm
  <2>2. ASSUME NEW u \in Tasks PROVE task'[u] \in Armed /\ task'[u].seen <= ingested
    <3>1. /\ [Finished EXCEPT !.pc = "sleeping"] \in Armed
          /\ [Finished EXCEPT !.pc = "sleeping"].seen <= ingested
      BY <1>1, <1>2
    <3>2. /\ task[u] \in Armed /\ [task[u] EXCEPT !.cancelled = TRUE] \in Armed
          /\ [task[u] EXCEPT !.cancelled = TRUE].seen = task[u].seen /\ task[u].seen <= ingested
      OBVIOUS
    <3>3. \/ task'[u] = [Finished EXCEPT !.pc = "sleeping"]
          \/ task'[u] = [task[u] EXCEPT !.cancelled = TRUE]
          \/ task'[u] = task[u]
      BY <2>1
    <3> QED BY <3>1, <3>2, <3>3
  <2>3. task' \in [Tasks -> Armed]
    BY <2>1, <2>2
  <2>4. UNCHANGED <<ingested, correlated>> /\ toArm > 0 /\ toArm' = toArm - 1 /\ dropped' = FALSE
    BY <1>4 DEF Arm
  <2>5. toArm' \in 0..ingested
    BY <1>1, <2>4
  <2>6. dropped' \in BOOLEAN
    BY <2>4
  <2> QED BY <2>1, <2>2, <2>3, <2>4, <2>5, <2>6
<1>5. ASSUME NEW t \in Tasks, TaskStep(t) PROVE CountInv'
  BY <1>5, TaskCounts
<1>6. CASE CancelPending
  <2>1. pending \in Tasks
    BY <1>6 DEF CancelPending
  <2>2. \/ task' = task
        \/ task' = [task EXCEPT ![pending] = [task[pending] EXCEPT !.cancelled = TRUE]]
    BY <1>6, <2>1 DEF CancelPending
  <2>3. [task[pending] EXCEPT !.cancelled = TRUE] \in Armed
    BY <2>1
  <2>4. [task[pending] EXCEPT !.cancelled = TRUE].seen = task[pending].seen
    BY <2>1
  <2>5. task' \in [Tasks -> Armed]
    BY <2>1, <2>2, <2>3
  <2>6. \A t \in Tasks : task'[t].seen <= ingested
    BY <2>1, <2>2, <2>4
  <2> QED BY <1>6, <2>5, <2>6 DEF CancelPending
<1>7. CASE Restart
  BY <1>1, <1>2, <1>7 DEF Restart
<1>8. CASE UNCHANGED vars
  BY <1>8 DEF vars
<1> QED BY <1>3, <1>4, <1>5, <1>6, <1>7, <1>8 DEF Next

(* No pass claims to reflect more than was ingested, whatever was armed,   *)
(* cancelled, rolled back or restarted, for any bound on the ingests.      *)
THEOREM DebounceIsTyped == Spec => []TypeOK
<1>1. CountInv => TypeOK
  BY DEF CountInv
<1> QED BY InitCounts, NextCounts, <1>1, PTL DEF Spec
-----------------------------------------------------------------------------
(* The lifespan: the engine outlives both loops.  Being down is not enough *)
(* to know: a shutdown that has got to the hunter must have left the       *)
(* runtime's loop without a task, and no step but a start gives a loop one.*)
EngineInv ==
  /\ life \in {"down", "stopping hunter"} => pc = "none"
  /\ life = "down" => huntPc = "none"

(* A loop without a task stays without one.                                *)
LEMMA NoTaskNoStep ==
  /\ Runtime!LoopStep \/ Runtime!DatabaseFails => pc # "none"
  /\ Hunter!LoopStep \/ Hunter!ListFails => huntPc # "none"
<1>1. Runtime!LoopStep \/ Runtime!DatabaseFails => pc # "none"
  BY DEF Runtime!LoopStep, Runtime!DatabaseFails, Runtime!Wakes, Runtime!ListTenants,
     Runtime!ListConnectors, Runtime!Poll, Runtime!SweepEnds, Runtime!PollRaises
<1>2. Hunter!LoopStep \/ Hunter!ListFails => huntPc # "none"
  BY DEF Hunter!LoopStep, Hunter!ListFails, Hunter!Wakes, Hunter!List, Hunter!Hunts,
     Hunter!HuntOver, Hunter!Staggered, Hunter!SweepOver
<1> QED
  BY <1>1, <1>2

LEMMA InitEngine == AppInit => EngineInv
  BY DEF AppInit, Runtime!Init, Hunter!Init, EngineInv

LEMMA NextEngine == EngineInv /\ [AppNext]_appVars => EngineInv'
<1> SUFFICES ASSUME EngineInv, [AppNext]_appVars PROVE EngineInv'
  OBVIOUS
<1> USE DEF EngineInv
<1>1. CASE UNCHANGED appVars
  BY <1>1 DEF appVars, runtime, hunter
<1>2. CASE Startup
  BY <1>2 DEF Startup
<1>3. CASE Shutdown
  BY <1>3 DEF Shutdown
<1>4. CASE RuntimeStopped
  BY <1>4 DEF RuntimeStopped, runtime
<1>5. CASE HunterStopped
  BY <1>5 DEF HunterStopped, runtime, hunter
<1>6. CASE Administer /\ UNCHANGED <<life, hunter>>
  BY <1>6 DEF Administer, hunter, Runtime!ToggleTenant, Runtime!ToggleConnector, Runtime!Reseal,
     Runtime!loop
<1>7. CASE (Runtime!LoopStep \/ Runtime!DatabaseFails) /\ UNCHANGED <<life, hunter>>
  BY <1>7, NoTaskNoStep DEF hunter
<1>8. CASE (Hunter!LoopStep \/ Hunter!ListFails) /\ UNCHANGED <<life, enabled, sealed, runtime>>
  BY <1>8, NoTaskNoStep DEF runtime
<1> QED
  BY <1>1, <1>2, <1>3, <1>4, <1>5, <1>6, <1>7, <1>8 DEF AppNext

(* Shutdown awaits connector_runtime.stop() and auto_hunt.stop() before    *)
(* dispose_engine(): no poll and no hunt runs without its database.        *)
THEOREM EngineLast == AppSpec => []EngineOutlivesLoops
<1>1. EngineInv => EngineOutlivesLoops
  BY DEF EngineInv, EngineOutlivesLoops
<1> QED
  BY <1>1, InitEngine, NextEngine, PTL DEF AppSpec
-----------------------------------------------------------------------------
(***************************************************************************)
(* Requests and the pool: a transaction sees the users of its own tenant   *)
(* and nobody else.  What has to be known is that a connection carries a   *)
(* context only while a request uses it, and then the one of that          *)
(* request's tenant session.  And who is switched off is given no token:   *)
(* what bars a login is still in the row that the login reads last.        *)
(***************************************************************************)
(* A record with the fields of a request, whatever they hold.              *)
IsRequest(q) ==
  q \in [kind : {q.kind}, user : {q.user}, given : {q.given}, new : {q.new},
         todo : {q.todo}, at : {q.at}, writes : {q.writes}, token : {q.token},
         barred : {q.barred}]

InSession(r) == req[r].at \in {"open", "closing"}

(* The context of a connection is the one of the session that uses it, and *)
(* nothing is left in the pool.                                            *)
ContextOfUser(c) ==
  LET r == conn[c].by IN
  /\ r = Nothing => conn[c].local = Nothing
  /\ r # Nothing => /\ InSession(r)
                    /\ conn[c].local # Nothing =>
                         Head(req[r].todo) = "tenant" /\ conn[c].local = OrgOf[req[r].user]

Connections == [by : Requests \union {Nothing}, local : Orgs \union {Nothing}, session : {Nothing}]

RequestsOK ==
  /\ req \in [Requests -> {req[r] : r \in Requests}]
  /\ \A r \in Requests : IsRequest(req[r]) /\ (req[r].at # "over" => req[r].user \in Users)

(* The strengthening: a request in a session has one connection to itself. *)
DenyInv ==
  /\ RequestsOK
  /\ conn \in [Pool -> Connections]
  /\ \A c \in Pool : ContextOfUser(c)
  /\ \A c, d \in Pool : conn[c].by = conn[d].by /\ conn[c].by # Nothing => c = d
  /\ \A r \in Requests : InSession(r) => \E c \in Pool : conn[c].by = r

LEMMA InitDeny == AccountInit => DenyInv
<1> SUFFICES ASSUME AccountInit PROVE DenyInv
  OBVIOUS
<1>1. RequestsOK
  BY DEF AccountInit, RequestsOK, IsRequest, Idle
<1>2. conn \in [Pool -> Connections] /\ \A c \in Pool : conn[c].by = Nothing /\ conn[c].local = Nothing
  BY DEF AccountInit, Connections
<1>3. \A r \in Requests : ~InSession(r)
  BY DEF AccountInit, InSession, Idle
<1> QED
  BY <1>1, <1>2, <1>3 DEF DenyInv, ContextOfUser

(* The connection of a request in a session is its own.                    *)
LEMMA OwnConnection ==
  ASSUME DenyInv, NEW r \in Requests, InSession(r)
  PROVE  /\ ConnOf(r) \in Pool /\ conn[ConnOf(r)].by = r
         /\ \A c \in Pool : conn[c].by = r => c = ConnOf(r)
<1>1. \E c \in Pool : conn[c].by = r
  BY DEF DenyInv
<1>2. ConnOf(r) \in Pool /\ conn[ConnOf(r)].by = r
  BY <1>1 DEF ConnOf
<1>3. r # Nothing
  BY AccountsAssumption
<1> QED
  BY <1>2, <1>3 DEF DenyInv

(* A session that has run its query goes on to its commit.                 *)
LEMMA GoesStep ==
  ASSUME DenyInv, NEW r \in Requests, req[r].at = "open", NEW writes, Goes(r, writes)
  PROVE  DenyInv'
<1>1. /\ RequestsOK' /\ conn' = conn
      /\ \A s \in Requests : /\ req'[s].user = req[s].user /\ req'[s].todo = req[s].todo
                             /\ InSession(s)' <=> InSession(s)
  <2>1. /\ req'[r].at = "closing" /\ IsRequest(req'[r])
        /\ req'[r].user = req[r].user /\ req'[r].todo = req[r].todo
    <3>1. req'[r] = [req[r] EXCEPT !.at = "closing", !.writes = writes]
      BY DEF Goes, DenyInv, RequestsOK
    <3>2. IsRequest(req[r])
      BY DEF DenyInv, RequestsOK
    <3> QED
      BY <3>1, <3>2 DEF IsRequest
  <2>2. /\ req' \in [Requests -> {req'[s] : s \in Requests}]
        /\ \A s \in Requests \ {r} : req'[s] = req[s]
    BY DEF Goes, DenyInv, RequestsOK
  <2> QED
    BY <2>1, <2>2 DEF Goes, DenyInv, RequestsOK, InSession
<1> QED
  BY <1>1 DEF DenyInv, ContextOfUser, Connections

(* A session that ends gives its connection back without a context.        *)
LEMMA ReleaseStep ==
  ASSUME DenyInv, NEW r \in Requests, InSession(r),
         conn' = Released(ConnOf(r)), RequestsOK', ~InSession(r)',
         \A s \in Requests \ {r} :
           req'[s].at = req[s].at /\ req'[s].user = req[s].user /\ req'[s].todo = req[s].todo
  PROVE  DenyInv'
<1> DEFINE own == ConnOf(r)
<1>1. /\ own \in Pool /\ conn[own].by = r
      /\ \A c \in Pool : conn[c].by = r => c = own
  BY OwnConnection
<1>2. /\ conn' \in [Pool -> Connections]
      /\ conn'[own].by = Nothing /\ conn'[own].local = Nothing
      /\ \A c \in Pool \ {own} : conn'[c] = conn[c] /\ conn[c].by # r
  <2> DEFINE free == [conn[own] EXCEPT !.by = Nothing, !.local = Nothing]
  <2>1. conn \in [Pool -> Connections]
    BY DEF DenyInv
  <2>2. conn' = [conn EXCEPT ![own] = free]
    BY DEF Released
  <2>3. free \in Connections /\ free.by = Nothing /\ free.local = Nothing
    <3>1. conn[own] \in Connections
      BY <1>1, <2>1
    <3> QED
      BY <3>1 DEF Connections
  <2> HIDE DEF free, own
  <2> QED
    BY <1>1, <2>1, <2>2, <2>3
<1>3. ASSUME NEW c \in Pool PROVE ContextOfUser(c)'
  <2>1. CASE c = own
    BY <1>2, <2>1 DEF ContextOfUser
  <2>2. CASE c # own
    <3>1. conn'[c] = conn[c] /\ conn[c].by # r /\ ContextOfUser(c) /\ conn[c].by \in Requests \union {Nothing}
      BY <1>2, <2>2 DEF DenyInv, Connections
    <3> QED
      BY <3>1 DEF ContextOfUser, InSession
  <2> QED
    BY <2>1, <2>2
<1>4. ASSUME NEW c \in Pool, NEW d \in Pool, conn'[c].by = conn'[d].by, conn'[c].by # Nothing
      PROVE  c = d
  BY <1>2, <1>4 DEF DenyInv
<1>5. ASSUME NEW s \in Requests, InSession(s)' PROVE \E c \in Pool : conn'[c].by = s
  <2>1. s # r /\ InSession(s)
    BY <1>5 DEF InSession
  <2>2. PICK c \in Pool : conn[c].by = s
    BY <2>1 DEF DenyInv
  <2> QED
    BY <1>1, <1>2, <2>1, <2>2
<1> QED
  BY <1>2, <1>3, <1>4, <1>5 DEF DenyInv

LEMMA RefusedStep ==
  ASSUME DenyInv, NEW r \in Requests, InSession(r), Refused(r)
  PROVE  DenyInv'
<1>1. RequestsOK' /\ ~InSession(r)'
  BY DEF Refused, DenyInv, RequestsOK, IsRequest, Idle, InSession
<1>2. \A s \in Requests \ {r} : req'[s] = req[s]
  BY DEF Refused, DenyInv, RequestsOK
<1> QED
  BY <1>1, <1>2, ReleaseStep DEF Refused

LEMMA ArrivesStep ==
  ASSUME DenyInv, NEW r \in Requests, Arrives(r)
  PROVE  DenyInv'
<1>1. /\ RequestsOK' /\ conn' = conn
      /\ ~InSession(r) /\ ~InSession(r)'
      /\ \A s \in Requests \ {r} : req'[s] = req[s]
  <2>1. PICK kind \in DOMAIN Sessions, u \in Users : \E body \in Bodies(kind) :
          req' = [req EXCEPT ![r] = [Idle EXCEPT !.kind = kind, !.user = u, !.given = body[1],
            !.new = body[2], !.todo = Sessions[kind], !.at = "between",
            !.barred = banned \intersect {u, OrgOf[u]}]]
    BY DEF Arrives
  <2>2. PICK body \in Bodies(kind) :
          req' = [req EXCEPT ![r] = [Idle EXCEPT !.kind = kind, !.user = u, !.given = body[1],
            !.new = body[2], !.todo = Sessions[kind], !.at = "between",
            !.barred = banned \intersect {u, OrgOf[u]}]]
    BY <2>1
  <2>3. /\ req'[r].at = "between" /\ req'[r].user = u /\ IsRequest(req'[r])
        /\ req' \in [Requests -> {req'[s] : s \in Requests}]
        /\ \A s \in Requests \ {r} : req'[s] = req[s]
    BY <2>2 DEF DenyInv, RequestsOK, IsRequest, Idle
  <2> QED
    BY <2>3 DEF Arrives, DenyInv, RequestsOK, InSession
<1>2. \A c \in Pool : conn[c].by # r
  BY AccountsAssumption, <1>1 DEF DenyInv, ContextOfUser
<1> QED
  BY <1>1, <1>2 DEF DenyInv, ContextOfUser, InSession, Connections

LEMMA OpensStep ==
  ASSUME DenyInv, NEW r \in Requests, Opens(r)
  PROVE  DenyInv'
<1>1. PICK c \in Pool :
        /\ conn[c].by = Nothing
        /\ conn' = [conn EXCEPT ![c] =
             IF Head(req[r].todo) = "tenant" THEN WithContext(c, r, Org(r)) ELSE [@ EXCEPT !.by = r]]
  BY DEF Opens
<1>2. /\ RequestsOK' /\ req'[r].at = "open" /\ ~InSession(r)
      /\ req[r].user \in Users /\ req'[r].user = req[r].user /\ req'[r].todo = req[r].todo
      /\ \A s \in Requests \ {r} : req'[s] = req[s]
  BY DEF Opens, DenyInv, RequestsOK, IsRequest, InSession
<1>3. /\ conn[c] \in Connections /\ conn[c].local = Nothing
      /\ Org(r) \in Orgs /\ Org(r) = OrgOf[req[r].user] /\ r # Nothing
  BY <1>2, AccountsAssumption, <1>1 DEF DenyInv, ContextOfUser, Org
<1>4. /\ conn' \in [Pool -> Connections] /\ conn'[c].by = r
      /\ conn'[c].local # Nothing =>
           Head(req[r].todo) = "tenant" /\ conn'[c].local = OrgOf[req[r].user]
      /\ \A d \in Pool \ {c} : conn'[d] = conn[d]
  <2>1. CASE Head(req[r].todo) = "tenant"
    BY <1>1, <1>3, <2>1 DEF DenyInv, WithContext, Connections
  <2>2. CASE Head(req[r].todo) # "tenant"
    BY <1>1, <1>3, <2>2 DEF DenyInv, Connections
  <2> QED
    BY <2>1, <2>2
<1>5. \A d \in Pool : conn[d].by # r
  BY <1>2, <1>3 DEF DenyInv, ContextOfUser
<1>6. ASSUME NEW d \in Pool PROVE ContextOfUser(d)'
  <2>1. CASE d = c
    BY <1>2, <1>3, <1>4, <2>1 DEF ContextOfUser, InSession
  <2>2. CASE d # c
    <3>1. conn'[d] = conn[d] /\ ContextOfUser(d) /\ conn[d].by # r
          /\ conn[d].by \in Requests \union {Nothing}
      BY <1>4, <1>5, <2>2 DEF DenyInv, Connections
    <3> QED
      BY <1>2, <3>1 DEF ContextOfUser, InSession
  <2> QED
    BY <2>1, <2>2
<1>7. ASSUME NEW s \in Requests, InSession(s)' PROVE \E d \in Pool : conn'[d].by = s
  <2>1. CASE s = r
    BY <1>4, <2>1
  <2>2. CASE s # r
    <3>1. PICK d \in Pool : conn[d].by = s
      BY <1>2, <1>7, <2>2 DEF DenyInv, InSession
    <3> QED
      BY <1>1, <1>4, <3>1, AccountsAssumption
  <2> QED
    BY <2>1, <2>2
<1> QED
  BY <1>2, <1>4, <1>5, <1>6, <1>7 DEF DenyInv

(* The requests after one has ended its session: those of the others keep  *)
(* their place, and the one that goes on keeps its user.                   *)
LEMMA AfterStep ==
  ASSUME DenyInv, NEW r \in Requests, InSession(r), NEW barring, req' = After(r, barring)
  PROVE  /\ RequestsOK' /\ ~InSession(r)'
         /\ \A s \in Requests \ {r} :
              req'[s].at = req[s].at /\ req'[s].user = req[s].user /\ req'[s].todo = req[s].todo
<1>1. req' \in [Requests -> {req'[s] : s \in Requests}]
  BY DEF After
<1>2. ASSUME NEW s \in Requests, s # r
      PROVE  /\ IsRequest(req'[s]) /\ req'[s].at = req[s].at
             /\ req'[s].user = req[s].user /\ req'[s].todo = req[s].todo
  <2>1. req'[s] = [req[s] EXCEPT !.barred = req[s].barred \intersect barring]
    BY <1>2 DEF After
  <2> QED
    BY <2>1 DEF DenyInv, RequestsOK, IsRequest
<1>3. /\ IsRequest(req'[r]) /\ ~InSession(r)'
      /\ req'[r].at # "over" => req'[r].user \in Users
  <2>1. req[r].user \in Users /\ IsRequest(req[r])
    BY DEF DenyInv, RequestsOK, InSession
  <2>2. \/ req'[r] = [req[r] EXCEPT !.at = "between", !.todo = Tail(req[r].todo), !.writes = <<>>]
        \/ req'[r] = [Idle EXCEPT !.token = TRUE, !.barred = req[r].barred]
        \/ req'[r] = Idle
    BY DEF After, Onward
  <2>3. CASE req'[r] = [req[r] EXCEPT !.at = "between", !.todo = Tail(req[r].todo), !.writes = <<>>]
    BY <2>1, <2>3 DEF IsRequest, InSession
  <2>4. CASE req'[r] = [Idle EXCEPT !.token = TRUE, !.barred = req[r].barred]
    BY <2>4 DEF IsRequest, InSession, Idle
  <2>5. CASE req'[r] = Idle
    BY <2>5 DEF IsRequest, InSession, Idle
  <2> QED
    BY <2>2, <2>3, <2>4, <2>5
<1> QED
  BY <1>1, <1>2, <1>3 DEF DenyInv, RequestsOK

LEMMA NextDeny == DenyInv /\ [AccountNext]_accountVars => DenyInv'
<1> SUFFICES ASSUME DenyInv, [AccountNext]_accountVars PROVE DenyInv'
  OBVIOUS
<1>1. CASE UNCHANGED accountVars
  BY <1>1 DEF accountVars, DenyInv, RequestsOK, ContextOfUser, InSession, Connections, IsRequest
<1>2. ASSUME NEW r \in Requests, Arrives(r) PROVE DenyInv'
  BY <1>2, ArrivesStep
<1>3. ASSUME NEW r \in Requests, RequestStep(r) PROVE DenyInv'
  <2>1. CASE Opens(r)
    BY <2>1, OpensStep
  <2>2. CASE req[r].at = "open" /\ (Refused(r) \/ \E writes : Goes(r, writes))
    BY <2>2, RefusedStep, GoesStep DEF InSession
  <2>3. CASE ReadsTenant(r) \/ PatchesTenant(r) \/ ReadsLogin(r) \/ Creates(r)
    BY <2>2, <2>3 DEF ReadsTenant, PatchesTenant, ReadsLogin, Creates, In
  <2>4. CASE ChangesPassword(r) \/ Enrols(r) \/ Activates(r) \/ Disables(r) \/ PatchesUser(r)
    BY <2>2, <2>4 DEF ChangesPassword, Enrols, Activates, Disables, PatchesUser, Edits, In
  <2>5. CASE CommitsTenant(r) \/ CommitsUser(r)
    BY <2>5, AfterStep, ReleaseStep DEF CommitsTenant, CommitsUser, InSession
  <2>6. CASE RequestFails(r)
    BY <2>6, RefusedStep DEF RequestFails, InSession
  <2> QED
    BY <1>3, <2>1, <2>3, <2>4, <2>5, <2>6 DEF RequestStep
<1> QED
  BY <1>1, <1>2, <1>3 DEF AccountNext

LEMMA DenyImpliesDeny == DenyInv => DefaultDeny
<1> SUFFICES ASSUME DenyInv, NEW r \in Requests, InSession(r), NEW u \in Visible(ConnOf(r))
             PROVE  Head(req[r].todo) = "tenant" /\ OrgOf[u] = Org(r)
  BY DEF DefaultDeny, InSession
<1> DEFINE own == ConnOf(r)
<1>1. own \in Pool /\ conn[own].by = r
  BY OwnConnection
<1>2. u \in Users /\ OrgOf[u] = Context(own)
  BY DEF Visible
<1>3. conn[own].session = Nothing /\ OrgOf[u] # Nothing /\ r # Nothing
  BY <1>1, <1>2, AccountsAssumption DEF DenyInv, Connections
<1>4. conn[own].local # Nothing /\ OrgOf[u] = conn[own].local
  BY <1>2, <1>3 DEF Context
<1>5. ContextOfUser(own)
  BY <1>1 DEF DenyInv
<1> QED
  BY <1>1, <1>3, <1>4, <1>5 DEF ContextOfUser, Org

(* "the setting can never leak onto a pooled connection"                   *)
(* (infrastructure/db/session.py): whatever requests share the pool, in    *)
(* whatever order they open, fail and commit, a transaction sees its own   *)
(* tenant's users or none.                                                 *)
THEOREM TenantsAreIsolated == AccountSpec => []DefaultDeny
<1> QED
  BY InitDeny, NextDeny, DenyImpliesDeny, PTL DEF AccountSpec
-----------------------------------------------------------------------------
(* What the operator switched off is off, for users that exist.            *)
UsersOK ==
  /\ users = [u \in Users |-> users[u]]
  /\ \A u \in Users : /\ {"active", "password"} \subseteq DOMAIN users[u]
                      /\ users[u] = Absent \/ users[u].password # Nothing

BannedOK ==
  /\ orgs = [o \in Orgs |-> orgs[o]]
  /\ \A o \in Orgs : o \in banned => ~orgs[o]
  /\ \A u \in Users : u \in banned => ~users[u].active /\ users[u].password # Nothing

(* The bodies that can change a row: an operator's switch, a password.     *)
BodyOK(q) ==
  /\ q.kind \in {"patch_tenant", "patch_user", "password"} =>
       /\ DOMAIN q.new \in {{"active"}, {"password"}}
       /\ q.kind = "patch_tenant" => DOMAIN q.new = {"active"}
       /\ q.kind = "password" => DOMAIN q.new = {"password"}
       /\ "password" \in DOMAIN q.new => q.new.password # Nothing
  /\ q.kind \in {"login", "create_user"} => q.given # Nothing

(* What a session is about to write.  The operator alone writes `active',  *)
(* and whoever edits a row has found it there.                             *)
WritesOK(q, row) ==
  q.at = "closing" =>
    /\ q.kind = "login" => q.writes = <<>>
    /\ Head(q.todo) = "admin" => q.writes = <<>> \/ "active" \in DOMAIN q.writes
    /\ Head(q.todo) = "tenant" =>
         /\ "password" \in DOMAIN q.writes => q.writes.password # Nothing
         /\ "active" \in DOMAIN q.writes => q.kind \in {"patch_user", "create_user"}
         /\ IF q.kind = "create_user" THEN "password" \in DOMAIN q.writes
            ELSE row.password # Nothing

(* A login: what bars it is still switched off, and not the tenant once    *)
(* that has been read, nor anything once the user has.                     *)
LoginOK(q) ==
  /\ q.kind = "login" /\ q.at # "over" =>
       /\ q.barred \subseteq banned \intersect {q.user, OrgOf[q.user]}
       /\ q.todo \in {<<"admin", "tenant">>, <<"tenant">>}
       /\ q.at = "closing" \/ q.todo = <<"tenant">> => OrgOf[q.user] \notin q.barred
       /\ q.at = "closing" /\ q.todo = <<"tenant">> => q.barred = {}
  /\ q.token => q.barred = {}

LockInv ==
  /\ RequestsOK /\ UsersOK /\ BannedOK
  /\ \A r \in Requests :
       BodyOK(req[r]) /\ WritesOK(req[r], users[req[r].user]) /\ LoginOK(req[r])

LEMMA InitLock == AccountInit => LockInv
<1> SUFFICES ASSUME AccountInit PROVE LockInv
  OBVIOUS
<1>1. RequestsOK
  BY InitDeny DEF DenyInv
<1>2. UsersOK /\ BannedOK
  BY DEF AccountInit, UsersOK, BannedOK, Absent
<1>3. \A r \in Requests : req[r] = Idle
  BY DEF AccountInit
<1>4. \A row : BodyOK(Idle) /\ WritesOK(Idle, row) /\ LoginOK(Idle)
  BY DEF Idle, BodyOK, WritesOK, LoginOK
<1> QED
  BY <1>1, <1>2, <1>3, <1>4 DEF LockInv

(* The columns an UPDATE sets are among those given.                       *)
LEMMA DirtyColumns ==
  ASSUME NEW row, NEW new
  PROVE  /\ DOMAIN Dirty(row, new) \subseteq DOMAIN new
         /\ \A c \in DOMAIN Dirty(row, new) : Dirty(row, new)[c] = new[c]
         /\ DOMAIN Dirty(row, new) = {} => Dirty(row, new) = <<>>
  BY DEF Dirty

(* A step that changes only one request, and is sound for that one.        *)
LEMMA OneRequest ==
  ASSUME LockInv, NEW r \in Requests, UNCHANGED <<orgs, users, banned>>,
         RequestsOK', \A s \in Requests \ {r} : req'[s] = req[s],
         BodyOK(req'[r]), WritesOK(req'[r], users[req'[r].user]), LoginOK(req'[r])
  PROVE  LockInv'
<1>1. UsersOK' /\ BannedOK'
  BY DEF LockInv, UsersOK, BannedOK
<1>2. ASSUME NEW s \in Requests
      PROVE  BodyOK(req[s])' /\ WritesOK(req[s], users[req[s].user])' /\ LoginOK(req[s])'
  <2>1. CASE s = r
    BY <2>1 DEF BodyOK, WritesOK, LoginOK
  <2>2. CASE s # r
    BY <2>2 DEF LockInv, BodyOK, WritesOK, LoginOK
  <2> QED
    BY <2>1, <2>2
<1> QED
  BY <1>1, <1>2 DEF LockInv

LEMMA RefusedLock ==
  ASSUME LockInv, NEW r \in Requests, Refused(r)
  PROVE  LockInv'
<1>1. /\ RequestsOK' /\ req'[r] = Idle /\ \A s \in Requests \ {r} : req'[s] = req[s]
      /\ UNCHANGED <<orgs, users, banned>>
  BY DEF Refused, LockInv, RequestsOK, IsRequest, Idle
<1>2. \A row : BodyOK(Idle) /\ WritesOK(Idle, row) /\ LoginOK(Idle)
  BY DEF Idle, BodyOK, WritesOK, LoginOK
<1> QED
  BY <1>1, <1>2, OneRequest

LEMMA ArrivesLock ==
  ASSUME LockInv, NEW r \in Requests, Arrives(r)
  PROVE  LockInv'
<1>1. PICK kind \in DOMAIN Sessions, u \in Users : \E body \in Bodies(kind) :
        req' = [req EXCEPT ![r] = [Idle EXCEPT !.kind = kind, !.user = u, !.given = body[1],
          !.new = body[2], !.todo = Sessions[kind], !.at = "between",
          !.barred = banned \intersect {u, OrgOf[u]}]]
  BY DEF Arrives
<1>2. PICK body \in Bodies(kind) :
        req' = [req EXCEPT ![r] = [Idle EXCEPT !.kind = kind, !.user = u, !.given = body[1],
          !.new = body[2], !.todo = Sessions[kind], !.at = "between",
          !.barred = banned \intersect {u, OrgOf[u]}]]
  BY <1>1
<1>3. /\ req'[r].at = "between" /\ req'[r].user = u /\ IsRequest(req'[r])
      /\ req'[r].kind = kind /\ req'[r].given = body[1] /\ req'[r].new = body[2]
      /\ req'[r].todo = Sessions[kind] /\ ~req'[r].token
      /\ req'[r].barred = banned \intersect {u, OrgOf[u]}
      /\ req' \in [Requests -> {req'[s] : s \in Requests}]
      /\ \A s \in Requests \ {r} : req'[s] = req[s]
  BY <1>2 DEF LockInv, RequestsOK, IsRequest, Idle
<1>4. RequestsOK'
  BY <1>3 DEF LockInv, RequestsOK
<1>5. BodyOK(req'[r])
  <2>1. CASE kind = "patch_tenant"
    <3>1. body \in {Nothing} \X [active : BOOLEAN]
      BY <1>2, <2>1 DEF Bodies
    <3>2. DOMAIN body[2] = {"active"}
      BY <3>1
    <3> QED
      BY <1>3, <2>1, <3>2 DEF BodyOK
  <2>2. CASE kind = "patch_user"
    <3>1. body \in {Nothing} \X ([active : BOOLEAN] \union [password : Passwords])
      BY <1>2, <2>2 DEF Bodies, Patches
    <3>2. CASE body[2] \in [active : BOOLEAN]
      <4>1. DOMAIN body[2] = {"active"}
        BY <3>2
      <4> QED
        BY <1>3, <2>2, <4>1 DEF BodyOK
    <3>3. CASE body[2] \in [password : Passwords]
      <4>1. DOMAIN body[2] = {"password"} /\ body[2].password # Nothing
        BY <3>3, AccountsAssumption
      <4> QED
        BY <1>3, <2>2, <4>1 DEF BodyOK
    <3> QED
      BY <3>1, <3>2, <3>3
  <2>3. CASE kind = "password"
    <3>1. body \in Passwords \X [password : Passwords]
      BY <1>2, <2>3 DEF Bodies
    <3>2. DOMAIN body[2] = {"password"} /\ body[2].password # Nothing
      BY <3>1, AccountsAssumption
    <3> QED
      BY <1>3, <2>3, <3>2 DEF BodyOK
  <2>4. CASE kind = "create_user"
    <3>1. body \in Passwords \X {<<>>}
      BY <1>2, <2>4 DEF Bodies
    <3>2. body[1] # Nothing
      BY <3>1, AccountsAssumption
    <3> QED
      BY <1>3, <2>4, <3>2 DEF BodyOK
  <2>5. CASE kind = "login"
    <3>1. body \in Passwords \X [code : Secrets \union {Nothing}]
      BY <1>2, <2>5 DEF Bodies
    <3>2. body[1] # Nothing
      BY <3>1, AccountsAssumption
    <3> QED
      BY <1>3, <2>5, <3>2 DEF BodyOK
  <2> QED
    BY <1>3, <2>1, <2>2, <2>3, <2>4, <2>5 DEF BodyOK
<1>6. WritesOK(req'[r], users[req'[r].user])
  BY <1>3 DEF WritesOK
<1>7. LoginOK(req'[r])
  <2>1. kind = "login" => Sessions[kind] = <<"admin", "tenant">>
    BY DEF Sessions
  <2> QED
    BY <1>3, <2>1 DEF LoginOK
<1> QED
  BY <1>3, <1>4, <1>5, <1>6, <1>7, OneRequest DEF Arrives

LEMMA OpensLock ==
  ASSUME LockInv, NEW r \in Requests, Opens(r)
  PROVE  LockInv'
<1>1. /\ RequestsOK' /\ req'[r] = [req[r] EXCEPT !.at = "open"]
      /\ \A s \in Requests \ {r} : req'[s] = req[s]
      /\ UNCHANGED <<orgs, users, banned>> /\ req[r].at = "between"
  BY DEF Opens, LockInv, RequestsOK, IsRequest
<1>2. /\ req'[r].at = "open" /\ req'[r].kind = req[r].kind /\ req'[r].user = req[r].user
      /\ req'[r].given = req[r].given /\ req'[r].new = req[r].new /\ req'[r].todo = req[r].todo
      /\ req'[r].barred = req[r].barred /\ req'[r].token = req[r].token
  BY <1>1 DEF LockInv, RequestsOK, IsRequest
<1>3. BodyOK(req'[r]) /\ WritesOK(req'[r], users[req'[r].user]) /\ LoginOK(req'[r])
  BY <1>1, <1>2 DEF LockInv, BodyOK, WritesOK, LoginOK
<1> QED
  BY <1>1, <1>3, OneRequest

(* A session has run its query and decided what to write.                  *)
LEMMA GoesLock ==
  ASSUME LockInv, NEW r \in Requests, req[r].at = "open", NEW writes, Goes(r, writes),
         NEW q, q = [req[r] EXCEPT !.at = "closing", !.writes = writes],
         WritesOK(q, users[req[r].user]), LoginOK(q)
  PROVE  LockInv'
<1>1. /\ RequestsOK' /\ req'[r] = q
      /\ \A s \in Requests \ {r} : req'[s] = req[s]
      /\ UNCHANGED <<orgs, users, banned>>
  <2>1. /\ req' = [req EXCEPT ![r].at = "closing", ![r].writes = writes]
        /\ UNCHANGED <<orgs, users, banned>>
    BY DEF Goes
  <2>2. req'[r] = q /\ IsRequest(q) /\ q.at # "over" /\ q.user = req[r].user /\ req[r].at = "open"
    BY <2>1 DEF LockInv, RequestsOK, IsRequest
  <2>3. req' = [req EXCEPT ![r] = q]
    BY <2>1
  <2>4. RequestsOK'
    BY <2>2, <2>3 DEF LockInv, RequestsOK
  <2> QED
    BY <2>1, <2>2, <2>3, <2>4 DEF LockInv, RequestsOK
<1>2. /\ q.kind = req[r].kind /\ q.user = req[r].user
      /\ q.given = req[r].given /\ q.new = req[r].new
  BY DEF LockInv, RequestsOK, IsRequest
<1>3. BodyOK(req'[r])
  BY <1>1, <1>2 DEF LockInv, BodyOK
<1> QED
  BY <1>1, <1>2, <1>3, OneRequest

(* The tenants table is read, or switched.                                 *)
LEMMA AdminLock ==
  ASSUME LockInv, NEW r \in Requests, ReadsTenant(r) \/ PatchesTenant(r)
  PROVE  LockInv'
<1>1. /\ req[r].at = "open" /\ Head(req[r].todo) = "admin"
      /\ req[r].user \in Users /\ Org(r) \in Orgs /\ Org(r) = OrgOf[req[r].user]
  BY AccountsAssumption DEF ReadsTenant, PatchesTenant, In, LockInv, RequestsOK, Org
<1>2. LoginOK(req[r]) /\ BodyOK(req[r]) /\ IsRequest(req[r])
  BY DEF LockInv, RequestsOK
<1>3. CASE Refused(r)
  BY <1>3, RefusedLock
<1>4. CASE ReadsTenant(r) /\ ~Refused(r)
  <2> DEFINE q == [req[r] EXCEPT !.at = "closing", !.writes = <<>>]
  <2>1. Goes(r, <<>>) /\ (req[r].kind = "login" => orgs[Org(r)])
    BY <1>4 DEF ReadsTenant
  <2>2. /\ q.at = "closing" /\ q.writes = <<>> /\ q.todo = req[r].todo /\ q.kind = req[r].kind
        /\ q.user = req[r].user /\ q.barred = req[r].barred /\ q.token = req[r].token
    BY <1>2 DEF IsRequest
  <2> HIDE DEF q
  <2>3. WritesOK(q, users[req[r].user])
    BY <1>1, <2>2 DEF WritesOK
  <2>4. LoginOK(q)
    <3>1. req[r].kind = "login" => OrgOf[req[r].user] \notin banned
      BY <1>1, <2>1 DEF LockInv, BannedOK
    <3>2. req[r].todo # <<"tenant">>
      BY <1>1
    <3> QED
      BY <1>1, <1>2, <2>2, <3>1, <3>2 DEF LoginOK
  <2> QED
    BY <1>1, <2>1, <2>3, <2>4, GoesLock DEF q
<1>5. CASE PatchesTenant(r)
  <2> DEFINE writes == Dirty([active |-> orgs[Org(r)]], req[r].new)
             q == [req[r] EXCEPT !.at = "closing", !.writes = writes]
  <2>1. Goes(r, writes) /\ req[r].kind = "patch_tenant"
    BY <1>5 DEF PatchesTenant, In
  <2>2. writes = <<>> \/ "active" \in DOMAIN writes
    <3>1. DOMAIN req[r].new = {"active"}
      BY <1>2, <2>1 DEF BodyOK
    <3>2. DOMAIN writes \subseteq {"active"} /\ (DOMAIN writes = {} => writes = <<>>)
      BY <3>1, DirtyColumns
    <3> HIDE DEF writes
    <3> QED
      BY <3>2
  <2> HIDE DEF writes
  <2>3. /\ q.at = "closing" /\ q.writes = writes /\ q.todo = req[r].todo /\ q.kind = req[r].kind
        /\ q.barred = req[r].barred /\ q.token = req[r].token
    BY <1>2 DEF IsRequest
  <2> HIDE DEF q
  <2>4. WritesOK(q, users[req[r].user]) /\ LoginOK(q)
    BY <1>1, <1>2, <2>1, <2>2, <2>3 DEF WritesOK, LoginOK
  <2> QED
    BY <1>1, <2>1, <2>4, GoesLock DEF q
<1> QED
  BY <1>3, <1>4, <1>5

(* A login reads the user: who is active is not switched off.              *)
LEMMA ReadsLoginLock ==
  ASSUME LockInv, NEW r \in Requests, ReadsLogin(r)
  PROVE  LockInv'
<1>1. CASE Refused(r)
  BY <1>1, RefusedLock
<1>2. CASE ~Refused(r)
  <2> DEFINE q == [req[r] EXCEPT !.at = "closing", !.writes = <<>>]
  <2>1. /\ Goes(r, <<>>) /\ Row(r).active /\ Row(r).password = req[r].given
        /\ req[r].at = "open" /\ req[r].kind = "login" /\ Head(req[r].todo) = "tenant"
    BY <1>2 DEF ReadsLogin, In
  <2>2. LoginOK(req[r]) /\ BodyOK(req[r]) /\ IsRequest(req[r]) /\ req[r].user \in Users
    BY <2>1 DEF LockInv, RequestsOK
  <2>3. Row(r) = users[req[r].user]
    BY <2>1 DEF Row, Absent
  <2>4. /\ q.at = "closing" /\ q.writes = <<>> /\ q.todo = req[r].todo /\ q.kind = req[r].kind
        /\ q.user = req[r].user /\ q.barred = req[r].barred /\ q.token = req[r].token
    BY <2>2 DEF IsRequest
  <2> HIDE DEF q
  <2>5. WritesOK(q, users[req[r].user])
    BY <2>1, <2>2, <2>3, <2>4 DEF WritesOK, BodyOK
  <2>6. req[r].todo = <<"tenant">>
    BY <2>1, <2>2 DEF LoginOK
  <2>7. req[r].barred = {}
    <3>1. req[r].user \notin banned
      BY <2>1, <2>2, <2>3 DEF LockInv, BannedOK
    <3> QED
      BY <2>1, <2>2, <2>6, <3>1 DEF LoginOK
  <2>8. LoginOK(q)
    BY <2>1, <2>2, <2>4, <2>6, <2>7 DEF LoginOK
  <2> QED
    BY <2>1, <2>5, <2>8, GoesLock DEF q
<1> QED
  BY <1>1, <1>2

(* A guarded edit: the row is there, and only the operator edits `active'. *)
LEMMA EditsLock ==
  ASSUME LockInv, NEW r \in Requests, NEW kind, NEW allowed, NEW new, Edits(r, kind, allowed, new),
         kind \notin {"login", "create_user"},
         "active" \in DOMAIN new => kind = "patch_user",
         "password" \in DOMAIN new => new.password # Nothing
  PROVE  LockInv'
<1>1. CASE Refused(r)
  BY <1>1, RefusedLock
<1>2. CASE ~Refused(r)
  <2> DEFINE writes == Dirty(Row(r), new)
             q == [req[r] EXCEPT !.at = "closing", !.writes = writes]
  <2>1. /\ Goes(r, writes) /\ Row(r) # Absent
        /\ req[r].at = "open" /\ req[r].kind = kind /\ Head(req[r].todo) = "tenant"
    BY <1>2 DEF Edits, In
  <2>2. LoginOK(req[r]) /\ IsRequest(req[r]) /\ req[r].user \in Users
    BY <2>1 DEF LockInv, RequestsOK
  <2>3. users[req[r].user].password # Nothing
    BY <2>1, <2>2 DEF Row, LockInv, UsersOK
  <2>4. DOMAIN writes \subseteq DOMAIN new /\ \A c \in DOMAIN writes : writes[c] = new[c]
    BY DirtyColumns
  <2> HIDE DEF writes
  <2>5. /\ q.at = "closing" /\ q.writes = writes /\ q.todo = req[r].todo /\ q.kind = req[r].kind
        /\ q.barred = req[r].barred /\ q.token = req[r].token
    BY <2>2 DEF IsRequest
  <2> HIDE DEF q
  <2>6. WritesOK(q, users[req[r].user]) /\ LoginOK(q)
    BY <2>1, <2>2, <2>3, <2>4, <2>5 DEF WritesOK, LoginOK
  <2> QED
    BY <2>1, <2>6, GoesLock DEF q
<1> QED
  BY <1>1, <1>2

LEMMA CreatesLock ==
  ASSUME LockInv, NEW r \in Requests, Creates(r)
  PROVE  LockInv'
<1> DEFINE writes == Created(req[r].given)
           q == [req[r] EXCEPT !.at = "closing", !.writes = writes]
<1>1. /\ Goes(r, writes) /\ req[r].kind = "create_user" /\ Head(req[r].todo) = "tenant"
      /\ req[r].at = "open" /\ LoginOK(req[r]) /\ BodyOK(req[r]) /\ IsRequest(req[r])
  BY DEF Creates, In, LockInv, RequestsOK
<1>2. "password" \in DOMAIN writes /\ writes.password # Nothing
  BY <1>1 DEF Created, Absent, BodyOK
<1> HIDE DEF writes
<1>3. /\ q.at = "closing" /\ q.writes = writes /\ q.todo = req[r].todo /\ q.kind = req[r].kind
      /\ q.barred = req[r].barred /\ q.token = req[r].token
  BY <1>1 DEF IsRequest
<1> HIDE DEF q
<1>4. WritesOK(q, users[req[r].user]) /\ LoginOK(q)
  BY <1>1, <1>2, <1>3 DEF WritesOK, LoginOK
<1> QED
  BY <1>1, <1>4, GoesLock DEF q

(* After a commit the request goes on, and what bars the other logins has  *)
(* not been switched on by it.                                             *)
LEMMA AfterLock ==
  ASSUME LockInv, NEW r \in Requests, req[r].at = "closing", req' = After(r, banned'),
         UsersOK', BannedOK', req[r].kind = "login" => banned' = banned,
         \A u \in Users : users[u].password # Nothing => users'[u].password # Nothing
  PROVE  LockInv'
<1>1. RequestsOK'
  <2>1. req' \in [Requests -> {req'[s] : s \in Requests}]
    BY DEF After
  <2>2. ASSUME NEW s \in Requests
        PROVE  IsRequest(req'[s]) /\ (req'[s].at # "over" => req'[s].user \in Users)
    <3>1. IsRequest(req[s]) /\ (req[s].at # "over" => req[s].user \in Users)
      BY DEF LockInv, RequestsOK
    <3>2. CASE s = r
      BY <3>1, <3>2 DEF After, Onward, IsRequest, Idle
    <3>3. CASE s # r
      BY <3>1, <3>3 DEF After, IsRequest
    <3> QED
      BY <3>2, <3>3
  <2> QED
    BY <2>1, <2>2 DEF RequestsOK
<1>2. ASSUME NEW s \in Requests, s # r
      PROVE  (BodyOK(req[s]) /\ WritesOK(req[s], users[req[s].user]) /\ LoginOK(req[s]))'
  <2> DEFINE q == req[s]
             p == req'[s]
  <2>1. /\ BodyOK(q) /\ WritesOK(q, users[q.user]) /\ LoginOK(q) /\ IsRequest(q)
        /\ q.at # "over" => q.user \in Users
    BY DEF LockInv, RequestsOK
  <2>2. p = [q EXCEPT !.barred = q.barred \intersect banned']
    BY <1>2 DEF After
  <2> HIDE DEF p
  <2>3. /\ p.kind = q.kind /\ p.user = q.user /\ p.given = q.given /\ p.new = q.new
        /\ p.todo = q.todo /\ p.at = q.at /\ p.writes = q.writes /\ p.token = q.token
        /\ p.barred = q.barred \intersect banned'
    BY <2>1, <2>2 DEF IsRequest
  <2>4. BodyOK(p)
    BY <2>1, <2>3 DEF BodyOK
  <2>5. WritesOK(p, users'[p.user])
    BY <2>1, <2>3 DEF WritesOK
  <2>6. LoginOK(req[s])'
    BY <2>1, <2>3 DEF LoginOK, p
  <2> QED
    BY <2>4, <2>5, <2>6 DEF p, BodyOK, WritesOK
<1>3. (BodyOK(req[r]) /\ WritesOK(req[r], users[req[r].user]) /\ LoginOK(req[r]))'
  <2> DEFINE q == req[r]
             p == req'[r]
             rest == Tail(q.todo)
  <2>1. BodyOK(q) /\ LoginOK(q) /\ IsRequest(q)
    BY DEF LockInv, RequestsOK
  <2>2. p = Onward(r)
    BY DEF After
  <2>3. CASE rest # <<>>
    <3>1. p = [q EXCEPT !.at = "between", !.todo = rest, !.writes = <<>>]
      BY <2>2, <2>3 DEF Onward
    <3> HIDE DEF p
    <3>2. /\ p.kind = q.kind /\ p.user = q.user /\ p.given = q.given /\ p.new = q.new
          /\ p.todo = rest /\ p.at = "between" /\ p.token = q.token /\ p.barred = q.barred
      BY <2>1, <3>1 DEF IsRequest
    <3>3. q.kind = "login" => q.todo = <<"admin", "tenant">> /\ rest = <<"tenant">>
      <4>1. Tail(<<"tenant">>) = <<>> /\ Tail(<<"admin", "tenant">>) = <<"tenant">>
        OBVIOUS
      <4> QED
        BY <2>1, <2>3, <4>1 DEF LoginOK
    <3> HIDE DEF rest
    <3>4. BodyOK(p) /\ WritesOK(p, users'[p.user])
      BY <2>1, <3>2 DEF BodyOK, WritesOK
    <3>5. LoginOK(req[r])'
      BY <2>1, <3>2, <3>3 DEF LoginOK, p
    <3> QED
      BY <3>4, <3>5 DEF p, BodyOK, WritesOK
  <2>4. CASE rest = <<>> /\ q.kind = "login"
    <3>1. p = [Idle EXCEPT !.token = TRUE, !.barred = q.barred]
      BY <2>2, <2>4 DEF Onward
    <3>2. q.todo = <<"tenant">>
      <4>1. Tail(<<"admin", "tenant">>) # <<>>
        OBVIOUS
      <4> QED
        BY <2>1, <2>4, <4>1 DEF LoginOK
    <3>3. q.barred = {}
      BY <2>1, <2>4, <3>2 DEF LoginOK
    <3> QED
      BY <3>1, <3>3 DEF BodyOK, WritesOK, LoginOK, Idle
  <2>5. CASE rest = <<>> /\ q.kind # "login"
    <3>1. p = Idle
      BY <2>2, <2>5 DEF Onward
    <3> QED
      BY <3>1 DEF BodyOK, WritesOK, LoginOK, Idle
  <2> QED
    BY <2>3, <2>4, <2>5
<1> QED
  BY <1>1, <1>2, <1>3 DEF LockInv

LEMMA CommitsTenantLock ==
  ASSUME LockInv, NEW r \in Requests, CommitsTenant(r)
  PROVE  LockInv'
<1> DEFINE writes == req[r].writes
<1>1. /\ req[r].at = "closing" /\ Head(req[r].todo) = "admin"
      /\ req[r].user \in Users /\ Org(r) \in Orgs /\ Org(r) \notin Users
      /\ req' = After(r, banned') /\ UNCHANGED users
  BY AccountsAssumption DEF CommitsTenant, LockInv, RequestsOK, Org
<1>2. /\ writes = <<>> \/ "active" \in DOMAIN writes
      /\ req[r].kind = "login" => writes = <<>>
  BY <1>1 DEF LockInv, WritesOK
<1>3. /\ orgs' = [orgs EXCEPT ![Org(r)] = IF writes = <<>> THEN @ ELSE writes.active]
      /\ banned' = Switched(Org(r), writes)
  BY DEF CommitsTenant
<1> HIDE DEF writes
<1>4. DOMAIN <<>> = {}
  OBVIOUS
<1>5. CASE writes = <<>>
  <2>1. banned' = banned /\ orgs' = orgs
    BY <1>3, <1>4, <1>5 DEF Switched, LockInv, BannedOK
  <2> QED
    BY <1>1, <2>1, AfterLock DEF LockInv, UsersOK, BannedOK
<1>6. CASE writes # <<>>
  <2>1. "active" \in DOMAIN writes
    BY <1>2, <1>6
  <2>2. /\ orgs' = [orgs EXCEPT ![Org(r)] = writes.active]
        /\ banned' = IF writes.active THEN banned \ {Org(r)} ELSE banned \union {Org(r)}
    BY <1>3, <1>6, <2>1 DEF Switched
  <2>3. BannedOK'
    BY <1>1, <2>2 DEF LockInv, BannedOK
  <2>4. req[r].kind # "login"
    BY <1>2, <1>6
  <2> QED
    BY <1>1, <2>3, <2>4, AfterLock DEF LockInv, UsersOK
<1> QED
  BY <1>5, <1>6

LEMMA CommitsUserLock ==
  ASSUME LockInv, NEW r \in Requests, CommitsUser(r)
  PROVE  LockInv'
<1> DEFINE writes == req[r].writes
           u == req[r].user
           row == Updated(users[u], writes)
<1>1. /\ req[r].at = "closing" /\ Head(req[r].todo) = "tenant"
      /\ u \in Users /\ u \notin Orgs
      /\ req' = After(r, banned') /\ UNCHANGED orgs
      /\ users' = [users EXCEPT ![u] = row]
      /\ req[r].kind = "create_user" => users[u] = Absent
      /\ banned' = IF req[r].kind = "patch_user" THEN Switched(u, writes) ELSE banned
  BY AccountsAssumption DEF CommitsUser, LockInv, RequestsOK
<1>2. /\ "password" \in DOMAIN writes => writes.password # Nothing
      /\ "active" \in DOMAIN writes => req[r].kind \in {"patch_user", "create_user"}
      /\ IF req[r].kind = "create_user" THEN "password" \in DOMAIN writes
         ELSE users[u].password # Nothing
  BY <1>1 DEF LockInv, WritesOK
<1>3. /\ {"active", "password"} \subseteq DOMAIN users[u]
      /\ \A v \in Users : {"active", "password"} \subseteq DOMAIN users[v]
                           /\ (users[v] = Absent \/ users[v].password # Nothing)
  BY <1>1 DEF LockInv, UsersOK
<1>4. /\ DOMAIN row = DOMAIN users[u]
      /\ row.active = IF "active" \in DOMAIN writes THEN writes.active ELSE users[u].active
      /\ row.password = IF "password" \in DOMAIN writes THEN writes.password ELSE users[u].password
  BY <1>3 DEF Updated
<1>5. row.password # Nothing
  BY <1>2, <1>4
<1>6. users'[u] = row /\ \A v \in Users \ {u} : users'[v] = users[v]
  BY <1>1 DEF LockInv, UsersOK
<1>7. users' = [v \in Users |-> users'[v]]
  BY <1>1 DEF LockInv, UsersOK
<1> HIDE DEF row, u, writes
<1>8. UsersOK'
  BY <1>3, <1>4, <1>5, <1>6, <1>7 DEF UsersOK
<1>9. BannedOK'
  <2>1. (\A o \in Orgs : o \in banned => ~orgs[o])
        /\ (\A v \in Users : v \in banned => ~users[v].active /\ users[v].password # Nothing)
        /\ orgs = [o \in Orgs |-> orgs[o]]
    BY DEF LockInv, BannedOK
  <2>2. CASE req[r].kind = "create_user"
    <3>1. u \notin banned /\ banned' = banned
      BY <1>1, <2>1, <2>2 DEF Absent
    <3> QED
      BY <1>1, <1>6, <2>1, <3>1 DEF BannedOK
  <2>3. CASE req[r].kind = "patch_user" /\ "active" \in DOMAIN writes
    <3>1. banned' = IF writes.active THEN banned \ {u} ELSE banned \union {u}
      BY <1>1, <2>3 DEF Switched
    <3> QED
      BY <1>1, <1>4, <1>5, <1>6, <2>1, <2>3, <3>1 DEF BannedOK
  <2>4. CASE req[r].kind # "create_user" /\ "active" \notin DOMAIN writes
    <3>1. banned' = banned /\ row.active = users[u].active
      BY <1>1, <1>4, <2>4 DEF Switched
    <3> QED
      BY <1>1, <1>5, <1>6, <2>1, <3>1 DEF BannedOK
  <2> QED
    BY <1>2, <2>2, <2>3, <2>4
<1>10. \A v \in Users : users[v].password # Nothing => users'[v].password # Nothing
  BY <1>5, <1>6
<1>11. req[r].kind = "login" => banned' = banned
  BY <1>1
<1> QED
  BY <1>1, <1>8, <1>9, <1>10, <1>11, AfterLock

LEMMA NextLock == LockInv /\ [AccountNext]_accountVars => LockInv'
<1> SUFFICES ASSUME LockInv, [AccountNext]_accountVars PROVE LockInv'
  OBVIOUS
<1>1. CASE UNCHANGED accountVars
  BY <1>1 DEF accountVars, LockInv, RequestsOK, IsRequest, UsersOK, BannedOK, BodyOK, WritesOK, LoginOK
<1>2. ASSUME NEW r \in Requests, Arrives(r) PROVE LockInv'
  BY <1>2, ArrivesLock
<1>3. ASSUME NEW r \in Requests, RequestStep(r) PROVE LockInv'
  <2>1. CASE Opens(r)
    BY <2>1, OpensLock
  <2>2. CASE ReadsTenant(r) \/ PatchesTenant(r) \/ ReadsLogin(r) \/ Creates(r)
    BY <2>2, AdminLock, ReadsLoginLock, CreatesLock
  <2>3. CASE ChangesPassword(r)
    <3>1. req[r].kind = "password" /\ BodyOK(req[r])
      BY <2>3 DEF ChangesPassword, Edits, In, LockInv
    <3>2. "active" \notin DOMAIN req[r].new
          /\ ("password" \in DOMAIN req[r].new => req[r].new.password # Nothing)
      BY <3>1 DEF BodyOK
    <3> QED
      BY <2>3, <3>2, EditsLock DEF ChangesPassword
  <2>4. CASE PatchesUser(r)
    <3>1. req[r].kind = "patch_user" /\ BodyOK(req[r])
      BY <2>4 DEF PatchesUser, Edits, In, LockInv
    <3>2. "password" \in DOMAIN req[r].new => req[r].new.password # Nothing
      BY <3>1 DEF BodyOK
    <3>3. PICK allowed : Edits(r, "patch_user", allowed, req[r].new)
      BY <2>4 DEF PatchesUser
    <3> QED
      BY <3>2, <3>3, EditsLock
  <2>5. CASE Enrols(r)
    <3>1. PICK s : Edits(r, "enrol", ~Row(r).enabled, [secret |-> s])
      BY <2>5 DEF Enrols
    <3>2. DOMAIN [secret |-> s] = {"secret"}
      OBVIOUS
    <3> QED
      BY <3>1, <3>2, EditsLock
  <2>6. CASE Activates(r)
    <3>1. DOMAIN [enabled |-> TRUE] = {"enabled"}
      OBVIOUS
    <3> QED
      BY <2>6, <3>1, EditsLock DEF Activates
  <2>7. CASE Disables(r)
    <3>1. DOMAIN [enabled |-> FALSE, secret |-> Nothing] = {"enabled", "secret"}
      OBVIOUS
    <3> QED
      BY <2>7, <3>1, EditsLock DEF Disables
  <2>8. CASE CommitsTenant(r) \/ CommitsUser(r)
    BY <2>8, CommitsTenantLock, CommitsUserLock
  <2>9. CASE RequestFails(r)
    BY <2>9, RefusedLock DEF RequestFails
  <2> QED
    BY <1>3, <2>1, <2>2, <2>3, <2>4, <2>5, <2>6, <2>7, <2>8, <2>9 DEF RequestStep
<1> QED
  BY <1>1, <1>2, <1>3 DEF AccountNext

(* "Deactivation locks out logins immediately" (endpoints/tenants.py): a   *)
(* login that began when the operator had switched off its user or tenant, *)
(* and that has not been switched on since, is given no token, whichever   *)
(* requests edit the same rows between its two reads.                      *)
THEOREM SwitchedOffIsOut == AccountSpec => []LockedOut
<1>1. LockInv => LockedOut
  BY DEF LockInv, LoginOK, LockedOut
<1> QED
  BY <1>1, InitLock, NextLock, PTL DEF AccountSpec
-----------------------------------------------------------------------------
(* Types.  A row of users is typed cell by cell, as an UPDATE writes it:   *)
(* what a request brings, and what it is about to write, is typed as well. *)
Columns == {"active", "password", "secret", "enabled"}

Column == [active |-> BOOLEAN, password |-> Passwords \union {Nothing},
           secret |-> Secrets \union {Nothing}, enabled |-> BOOLEAN]

UserRows == [active : BOOLEAN, password : Passwords \union {Nothing},
             secret : Secrets \union {Nothing}, enabled : BOOLEAN]

CellsOK(f) == \A c \in DOMAIN f : c \in Columns => f[c] \in Column[c]

RowTyped(row) == row = [c \in Columns |-> row[c]] /\ CellsOK(row)

RequestTyped(q) ==
  /\ q.at \in {"over", "between", "open", "closing"} /\ q.token \in {TRUE, FALSE}
  /\ CellsOK(q.new) /\ CellsOK(q.writes)
  /\ q.kind = "create_user" => q.given \in Passwords
  /\ q.kind = "activate" => q.given \in Secrets

TablesTyped ==
  /\ orgs \in [Orgs -> BOOLEAN]
  /\ users = [u \in Users |-> users[u]] /\ \A u \in Users : RowTyped(users[u])
  /\ banned \subseteq Orgs \union Users
  /\ proven \in [Users -> Secrets \union {Nothing}]

AccountInv ==
  /\ DenyInv /\ LockInv
  /\ TablesTyped /\ \A r \in Requests : RequestTyped(req[r])

LEMMA TypedRow == ASSUME NEW row, RowTyped(row) PROVE row \in UserRows
<1>1. DOMAIN row = Columns
  BY DEF RowTyped
<1>2. \A c \in Columns : row[c] \in Column[c]
  BY <1>1 DEF RowTyped, CellsOK
<1>3. /\ row.active \in BOOLEAN /\ row.enabled \in BOOLEAN
      /\ row.password \in Passwords \union {Nothing} /\ row.secret \in Secrets \union {Nothing}
  BY <1>2 DEF Columns, Column
<1>4. row = [active |-> row.active, password |-> row.password, secret |-> row.secret,
             enabled |-> row.enabled]
  BY DEF RowTyped, Columns
<1> QED
  BY <1>3, <1>4 DEF UserRows

LEMMA IdleTyped == RequestTyped(Idle)
  BY DEF Idle, RequestTyped, CellsOK

LEMMA ColumnTypes ==
  /\ Column["active"] = BOOLEAN /\ Column["password"] = Passwords \union {Nothing}
  /\ Column["secret"] = Secrets \union {Nothing} /\ Column["enabled"] = BOOLEAN
  BY DEF Column

LEMMA AbsentTyped == RowTyped(Absent)
<1>1. DOMAIN Absent = Columns /\ Absent = [c \in Columns |-> Absent[c]]
  BY DEF Absent, Columns
<1>2. /\ Absent["active"] = FALSE /\ Absent["password"] = Nothing
      /\ Absent["secret"] = Nothing /\ Absent["enabled"] = FALSE
  BY DEF Absent
<1>3. Absent["active"] \in Column["active"] /\ Absent["enabled"] \in Column["enabled"]
  <2>1. FALSE \in BOOLEAN
    OBVIOUS
  <2> QED
    BY <1>2, <2>1, ColumnTypes
<1>4. Absent["password"] \in Column["password"] /\ Absent["secret"] \in Column["secret"]
  BY <1>2, ColumnTypes
<1> HIDE DEF Absent
<1>5. CellsOK(Absent)
  BY <1>1, <1>3, <1>4 DEF CellsOK, Columns
<1> QED
  BY <1>1, <1>5 DEF RowTyped

LEMMA InitAccounts == AccountInit => AccountInv
<1> SUFFICES ASSUME AccountInit PROVE AccountInv
  OBVIOUS
<1>1. TablesTyped
  <2>1. orgs \in [Orgs -> BOOLEAN]
    BY DEF AccountInit
  <2>2. users = [u \in Users |-> Absent] /\ banned = {} /\ proven = [u \in Users |-> Nothing]
    BY DEF AccountInit
  <2> QED
    BY <2>1, <2>2, AbsentTyped DEF TablesTyped
<1>2. \A r \in Requests : RequestTyped(req[r])
  BY IdleTyped DEF AccountInit
<1> QED
  BY <1>1, <1>2, InitDeny, InitLock DEF AccountInv

(* A step of one request that leaves the tables alone.                     *)
LEMMA OneTyped ==
  ASSUME AccountInv, NEW r \in Requests, UNCHANGED <<orgs, users, banned, proven>>,
         \A s \in Requests \ {r} : req'[s] = req[s], RequestTyped(req'[r])
  PROVE  TablesTyped' /\ \A s \in Requests : RequestTyped(req[s])'
<1>1. TablesTyped'
  BY DEF AccountInv, TablesTyped
<1>2. \A s \in Requests : RequestTyped(req'[s])
  BY DEF AccountInv
<1> QED
  BY <1>1, <1>2 DEF RequestTyped, CellsOK

LEMMA RefusedTyped ==
  ASSUME AccountInv, NEW r \in Requests, Refused(r)
  PROVE  TablesTyped' /\ \A s \in Requests : RequestTyped(req[s])'
<1>1. req'[r] = Idle /\ \A s \in Requests \ {r} : req'[s] = req[s]
  BY DEF Refused, AccountInv, DenyInv, RequestsOK
<1> QED
  BY <1>1, IdleTyped, OneTyped DEF Refused

LEMMA GoesTyped ==
  ASSUME AccountInv, NEW r \in Requests, NEW writes, CellsOK(writes), Goes(r, writes)
  PROVE  TablesTyped' /\ \A s \in Requests : RequestTyped(req[s])'
<1> DEFINE q == req[r]
           p == [q EXCEPT !.at = "closing", !.writes = writes]
<1>1. IsRequest(q) /\ RequestTyped(q)
  BY DEF AccountInv, DenyInv, RequestsOK
<1>2. /\ p.at = "closing" /\ p.writes = writes
      /\ p.new = q.new /\ p.kind = q.kind /\ p.given = q.given /\ p.token = q.token
  BY <1>1 DEF IsRequest
<1>3. req'[r] = p /\ \A s \in Requests \ {r} : req'[s] = req[s]
  BY DEF Goes, AccountInv, DenyInv, RequestsOK
<1> HIDE DEF p
<1>4. RequestTyped(p)
  BY <1>1, <1>2 DEF RequestTyped
<1> QED
  BY <1>3, <1>4, OneTyped DEF Goes

LEMMA ArrivesTyped ==
  ASSUME AccountInv, NEW r \in Requests, Arrives(r)
  PROVE  TablesTyped' /\ \A s \in Requests : RequestTyped(req[s])'
<1>1. PICK kind \in DOMAIN Sessions, u \in Users : \E body \in Bodies(kind) :
        req' = [req EXCEPT ![r] = [Idle EXCEPT !.kind = kind, !.user = u, !.given = body[1],
          !.new = body[2], !.todo = Sessions[kind], !.at = "between",
          !.barred = banned \intersect {u, OrgOf[u]}]]
  BY DEF Arrives
<1>2. PICK body \in Bodies(kind) :
        req' = [req EXCEPT ![r] = [Idle EXCEPT !.kind = kind, !.user = u, !.given = body[1],
          !.new = body[2], !.todo = Sessions[kind], !.at = "between",
          !.barred = banned \intersect {u, OrgOf[u]}]]
  BY <1>1
<1>3. /\ req'[r].at = "between" /\ req'[r].kind = kind /\ req'[r].given = body[1]
      /\ req'[r].new = body[2] /\ req'[r].token = FALSE /\ req'[r].writes = <<>>
      /\ \A s \in Requests \ {r} : req'[s] = req[s]
  BY <1>2 DEF AccountInv, DenyInv, RequestsOK, Idle
<1>4. CellsOK(<<>>)
  BY DEF CellsOK
<1>5. CellsOK(body[2])
  <2>1. CASE kind = "login"
    <3>1. body[2] \in [code : Secrets \union {Nothing}]
      BY <1>2, <2>1 DEF Bodies
    <3>2. DOMAIN body[2] = {"code"}
      BY <3>1
    <3> QED
      BY <3>2 DEF CellsOK, Columns
  <2>2. ASSUME body[2] \in [password : Passwords] PROVE CellsOK(body[2])
    <3>1. DOMAIN body[2] = {"password"} /\ body[2].password \in Passwords
      BY <2>2
    <3> QED
      BY <3>1 DEF CellsOK, Column
  <2>3. ASSUME body[2] \in [active : BOOLEAN] PROVE CellsOK(body[2])
    <3>1. DOMAIN body[2] = {"active"} /\ body[2].active \in BOOLEAN
      BY <2>3
    <3>2. Column["active"] = BOOLEAN
      BY DEF Column
    <3> QED
      BY <3>1, <3>2 DEF CellsOK
  <2>4. CASE kind = "password"
    <3>1. body[2] \in [password : Passwords]
      BY <1>2, <2>4 DEF Bodies
    <3> QED
      BY <2>2, <3>1
  <2>5. CASE kind = "patch_tenant"
    <3>1. body[2] \in [active : BOOLEAN]
      BY <1>2, <2>5 DEF Bodies
    <3> QED
      BY <2>3, <3>1
  <2>6. CASE kind = "patch_user"
    <3>1. body[2] \in Patches
      BY <1>2, <2>6 DEF Bodies
    <3>2. body[2] \in [active : BOOLEAN] \/ body[2] \in [password : Passwords]
      BY <3>1 DEF Patches
    <3> QED
      BY <2>2, <2>3, <3>2
  <2>7. CASE kind \notin {"login", "password", "patch_tenant", "patch_user"}
    <3>1. body[2] = <<>>
      BY <1>2, <2>7 DEF Bodies
    <3> QED
      BY <1>4, <3>1
  <2> QED
    BY <2>1, <2>4, <2>5, <2>6, <2>7
<1>6. kind = "create_user" => body[1] \in Passwords
  <2> SUFFICES ASSUME kind = "create_user" PROVE body[1] \in Passwords
    OBVIOUS
  <2>1. body \in Passwords \X {<<>>}
    BY <1>2 DEF Bodies
  <2> QED
    BY <2>1
<1>7. kind = "activate" => body[1] \in Secrets
  <2> SUFFICES ASSUME kind = "activate" PROVE body[1] \in Secrets
    OBVIOUS
  <2>1. body \in Secrets \X {<<>>}
    BY <1>2 DEF Bodies
  <2> QED
    BY <2>1
<1>8. RequestTyped(req'[r])
  BY <1>3, <1>4, <1>5, <1>6, <1>7 DEF RequestTyped
<1> QED
  BY <1>3, <1>8, OneTyped DEF Arrives

LEMMA OpensTyped ==
  ASSUME AccountInv, NEW r \in Requests, Opens(r)
  PROVE  TablesTyped' /\ \A s \in Requests : RequestTyped(req[s])'
<1> DEFINE q == req[r]
           p == [q EXCEPT !.at = "open"]
<1>1. IsRequest(q) /\ RequestTyped(q)
  BY DEF AccountInv, DenyInv, RequestsOK
<1>2. /\ p.at = "open" /\ p.writes = q.writes
      /\ p.new = q.new /\ p.kind = q.kind /\ p.given = q.given /\ p.token = q.token
  BY <1>1 DEF IsRequest
<1>3. req'[r] = p /\ \A s \in Requests \ {r} : req'[s] = req[s]
  BY DEF Opens, AccountInv, DenyInv, RequestsOK
<1> HIDE DEF p
<1>4. RequestTyped(p)
  BY <1>1, <1>2 DEF RequestTyped
<1> QED
  BY <1>3, <1>4, OneTyped DEF Opens

(* The columns an UPDATE sets have the values the body gave them.          *)
LEMMA DirtyTyped == ASSUME NEW row, NEW new, CellsOK(new) PROVE CellsOK(Dirty(row, new))
  BY DirtyColumns DEF CellsOK

LEMMA EditsTyped ==
  ASSUME AccountInv, NEW r \in Requests, NEW kind, NEW allowed, NEW new, CellsOK(new),
         Edits(r, kind, allowed, new)
  PROVE  TablesTyped' /\ \A s \in Requests : RequestTyped(req[s])'
<1>1. Refused(r) \/ Goes(r, Dirty(Row(r), new))
  BY DEF Edits
<1> QED
  BY <1>1, RefusedTyped, GoesTyped, DirtyTyped

LEMMA ReadsTyped ==
  ASSUME AccountInv, NEW r \in Requests,
         \/ ReadsTenant(r) \/ PatchesTenant(r) \/ ReadsLogin(r) \/ Creates(r)
  PROVE  TablesTyped' /\ \A s \in Requests : RequestTyped(req[s])'
<1>1. CellsOK(<<>>)
  BY DEF CellsOK
<1>2. CASE ReadsTenant(r) \/ ReadsLogin(r)
  <2>1. Refused(r) \/ Goes(r, <<>>)
    BY <1>2 DEF ReadsTenant, ReadsLogin
  <2> QED
    BY <1>1, <2>1, RefusedTyped, GoesTyped
<1>3. CASE PatchesTenant(r)
  <2>1. CellsOK(req[r].new)
    BY DEF AccountInv, RequestTyped
  <2>2. Goes(r, Dirty([active |-> orgs[Org(r)]], req[r].new))
    BY <1>3 DEF PatchesTenant
  <2> QED
    BY <2>1, <2>2, DirtyTyped, GoesTyped
<1>4. CASE Creates(r)
  <2>1. req[r].given \in Passwords /\ Goes(r, Created(req[r].given))
    BY <1>4 DEF Creates, In, AccountInv, RequestTyped
  <2>2. CellsOK(Created(req[r].given))
    <3> DEFINE f == Created(req[r].given)
    <3>1. DOMAIN f = Columns
      BY DEF Created, Absent, Columns
    <3>2. /\ f["active"] = TRUE /\ f["password"] = req[r].given
          /\ f["secret"] = Absent["secret"] /\ f["enabled"] = Absent["enabled"]
      BY DEF Created, Absent
    <3> HIDE DEF f
    <3>3. f["active"] \in Column["active"]
      <4>1. TRUE \in BOOLEAN
        OBVIOUS
      <4> QED
        BY <3>2, <4>1, ColumnTypes
    <3>4. f["password"] \in Column["password"]
      BY <2>1, <3>2, ColumnTypes
    <3>5. f["secret"] \in Column["secret"] /\ f["enabled"] \in Column["enabled"]
      <4>1. DOMAIN Absent = Columns
        BY DEF Absent, Columns
      <4> QED
        BY <3>2, <4>1, AbsentTyped DEF RowTyped, CellsOK, Columns
    <3>6. CellsOK(f)
      BY <3>1, <3>3, <3>4, <3>5 DEF CellsOK, Columns
    <3> QED
      BY <3>6 DEF f
  <2> QED
    BY <2>1, <2>2, GoesTyped
<1> QED
  BY <1>2, <1>3, <1>4

(* The requests after a commit.                                            *)
LEMMA AfterTyped ==
  ASSUME AccountInv, NEW r \in Requests, NEW barring, req' = After(r, barring)
  PROVE  \A s \in Requests : RequestTyped(req[s])'
<1>1. ASSUME NEW s \in Requests PROVE RequestTyped(req'[s])
  <2> DEFINE q == req[s]
             p == req'[s]
  <2>1. IsRequest(q) /\ RequestTyped(q)
    BY DEF AccountInv, DenyInv, RequestsOK
  <2>2. \/ p = [q EXCEPT !.barred = q.barred \intersect barring]
        \/ p = [q EXCEPT !.at = "between", !.todo = Tail(q.todo), !.writes = <<>>]
        \/ p = [Idle EXCEPT !.token = TRUE, !.barred = q.barred]
        \/ p = Idle
    BY DEF After, Onward
  <2>3. CASE p = [q EXCEPT !.barred = q.barred \intersect barring]
    <3>1. /\ p.at = q.at /\ p.writes = q.writes
          /\ p.new = q.new /\ p.kind = q.kind /\ p.given = q.given /\ p.token = q.token
      BY <2>1, <2>3 DEF IsRequest
    <3> QED
      BY <2>1, <3>1 DEF RequestTyped
  <2>4. CASE p = [q EXCEPT !.at = "between", !.todo = Tail(q.todo), !.writes = <<>>]
    <3>1. /\ p.at = "between" /\ p.writes = <<>>
          /\ p.new = q.new /\ p.kind = q.kind /\ p.given = q.given /\ p.token = q.token
      BY <2>1, <2>4 DEF IsRequest
    <3>2. CellsOK(<<>>)
      BY DEF CellsOK
    <3> QED
      BY <2>1, <3>1, <3>2 DEF RequestTyped
  <2>5. CASE p = [Idle EXCEPT !.token = TRUE, !.barred = q.barred]
    <3>1. /\ p.at = Idle.at /\ p.writes = Idle.writes
          /\ p.new = Idle.new /\ p.kind = Idle.kind /\ p.given = Idle.given /\ p.token = TRUE
      BY <2>5 DEF Idle
    <3> QED
      BY <3>1, IdleTyped DEF RequestTyped
  <2>6. CASE p = Idle
    BY <2>6, IdleTyped
  <2> QED
    BY <2>2, <2>3, <2>4, <2>5, <2>6
<1> QED
  BY <1>1 DEF RequestTyped, CellsOK

LEMMA SwitchedTyped ==
  ASSUME AccountInv, NEW x \in Orgs \union Users, NEW writes
  PROVE  Switched(x, writes) \subseteq Orgs \union Users
BY DEF Switched, AccountInv, TablesTyped

LEMMA CommitsTenantTyped ==
  ASSUME AccountInv, NEW r \in Requests, CommitsTenant(r)
  PROVE  TablesTyped' /\ \A s \in Requests : RequestTyped(req[s])'
<1> DEFINE writes == req[r].writes
<1>1. /\ req[r].at = "closing" /\ Head(req[r].todo) = "admin"
      /\ orgs' = [orgs EXCEPT ![Org(r)] = IF writes = <<>> THEN @ ELSE writes.active]
      /\ banned' = Switched(Org(r), writes) /\ req' = After(r, banned')
      /\ UNCHANGED <<users, proven>>
  BY DEF CommitsTenant
<1>2. Org(r) \in Orgs
  BY <1>1, AccountsAssumption DEF Org, AccountInv, DenyInv, RequestsOK
<1>3. (writes = <<>> \/ "active" \in DOMAIN writes) /\ CellsOK(writes)
  BY <1>1 DEF AccountInv, LockInv, WritesOK, RequestTyped
<1> HIDE DEF writes
<1>4. writes # <<>> => writes.active \in BOOLEAN
  <2>1. Column["active"] = BOOLEAN /\ "active" \in Columns
    BY DEF Column, Columns
  <2> QED
    BY <1>3, <2>1 DEF CellsOK
<1>5. orgs' \in [Orgs -> BOOLEAN]
  BY <1>1, <1>4 DEF AccountInv, TablesTyped
<1>6. banned' \subseteq Orgs \union Users
  BY <1>1, <1>2, SwitchedTyped
<1>7. TablesTyped'
  BY <1>1, <1>5, <1>6 DEF AccountInv, TablesTyped
<1> QED
  BY <1>1, <1>7, AfterTyped

LEMMA CommitsUserTyped ==
  ASSUME AccountInv, NEW r \in Requests, CommitsUser(r)
  PROVE  TablesTyped' /\ \A s \in Requests : RequestTyped(req[s])'
<1> DEFINE writes == req[r].writes
           u == req[r].user
           row == Updated(users[u], writes)
<1>1. /\ req[r].at = "closing" /\ u \in Users
      /\ users' = [users EXCEPT ![u] = row]
      /\ banned' = IF req[r].kind = "patch_user" THEN Switched(u, writes) ELSE banned
      /\ proven' = IF "enabled" \in DOMAIN writes THEN [proven EXCEPT ![u] = Proof(r)] ELSE proven
      /\ req' = After(r, banned') /\ UNCHANGED orgs
  BY DEF CommitsUser, AccountInv, DenyInv, RequestsOK
<1>2. CellsOK(writes) /\ RowTyped(users[u])
  BY <1>1 DEF AccountInv, TablesTyped, RequestTyped
<1>3. Proof(r) \in Secrets \union {Nothing}
  BY DEF Proof, AccountInv, RequestTyped
<1>4. RowTyped(row)
  <2>1. DOMAIN users[u] = Columns
    BY <1>2 DEF RowTyped
  <2>2. row = [c \in Columns |-> IF c \in DOMAIN writes THEN writes[c] ELSE users[u][c]]
    BY <2>1 DEF Updated
  <2> HIDE DEF row, writes, u
  <2>3. \A c \in Columns : row[c] = IF c \in DOMAIN writes THEN writes[c] ELSE users[u][c]
    BY <2>2
  <2>4. \A c \in Columns : row[c] \in Column[c]
    BY <1>2, <2>1, <2>3 DEF CellsOK, RowTyped
  <2>5. DOMAIN row = Columns /\ row = [c \in Columns |-> row[c]]
    BY <2>2
  <2> QED
    BY <2>4, <2>5 DEF RowTyped, CellsOK
<1> HIDE DEF row, writes, u
<1>5. /\ users' = [v \in Users |-> users'[v]] /\ users'[u] = row
      /\ \A v \in Users \ {u} : users'[v] = users[v]
  BY <1>1 DEF AccountInv, TablesTyped
<1>6. \A v \in Users : RowTyped(users'[v])
  BY <1>4, <1>5 DEF AccountInv, TablesTyped
<1>7. banned' \subseteq Orgs \union Users
  BY <1>1, SwitchedTyped DEF AccountInv, TablesTyped
<1>8. proven' \in [Users -> Secrets \union {Nothing}]
  BY <1>1, <1>3 DEF AccountInv, TablesTyped
<1>9. orgs' \in [Orgs -> BOOLEAN]
  BY <1>1 DEF AccountInv, TablesTyped
<1>10. TablesTyped'
  BY <1>5, <1>6, <1>7, <1>8, <1>9 DEF TablesTyped, RowTyped, CellsOK
<1> QED
  BY <1>1, <1>10, AfterTyped

LEMMA NextAccounts == AccountInv /\ [AccountNext]_accountVars => AccountInv'
<1> SUFFICES ASSUME AccountInv, [AccountNext]_accountVars PROVE AccountInv'
  OBVIOUS
<1> DEFINE Typed == TablesTyped' /\ \A s \in Requests : RequestTyped(req[s])'
<1>1. DenyInv' /\ LockInv'
  BY NextDeny, NextLock DEF AccountInv
<1>2. CASE UNCHANGED accountVars
  <2>1. UNCHANGED <<orgs, users, banned, proven, req>>
    BY <1>2 DEF accountVars
  <2>2. TablesTyped' /\ \A s \in Requests : RequestTyped(req[s])'
    BY <2>1 DEF AccountInv, TablesTyped, RequestTyped, RowTyped, CellsOK
  <2> QED
    BY <1>1, <2>2 DEF AccountInv
<1>3. ASSUME NEW r \in Requests, Arrives(r) PROVE Typed
  BY <1>3, ArrivesTyped
<1>4. ASSUME NEW r \in Requests, RequestStep(r) PROVE Typed
  <2>1. CellsOK(req[r].new)
    BY DEF AccountInv, RequestTyped
  <2>2. CASE Opens(r)
    BY <2>2, OpensTyped
  <2>3. CASE ReadsTenant(r) \/ PatchesTenant(r) \/ ReadsLogin(r) \/ Creates(r)
    BY <2>3, ReadsTyped
  <2>4. CASE ChangesPassword(r)
    BY <2>1, <2>4, EditsTyped DEF ChangesPassword
  <2>5. CASE PatchesUser(r)
    <3>1. PICK allowed : Edits(r, "patch_user", allowed, req[r].new)
      BY <2>5 DEF PatchesUser
    <3> QED
      BY <2>1, <3>1, EditsTyped
  <2>6. CASE Enrols(r)
    <3>1. PICK s \in Secrets : Edits(r, "enrol", ~Row(r).enabled, [secret |-> s])
      BY <2>6 DEF Enrols
    <3>2. CellsOK([secret |-> s])
      BY DEF CellsOK, Column
    <3> QED
      BY <3>1, <3>2, EditsTyped
  <2>7. CASE Activates(r)
    <3>1. CellsOK([enabled |-> TRUE])
      <4> DEFINE f == [enabled |-> TRUE]
      <4>1. DOMAIN f = {"enabled"} /\ f["enabled"] = TRUE
        OBVIOUS
      <4>2. TRUE \in BOOLEAN
        OBVIOUS
      <4> HIDE DEF f
      <4>3. CellsOK(f)
        BY <4>1, <4>2, ColumnTypes DEF CellsOK
      <4> QED
        BY <4>3 DEF f
    <3> QED
      BY <2>7, <3>1, EditsTyped DEF Activates
  <2>8. CASE Disables(r)
    <3>1. CellsOK([enabled |-> FALSE, secret |-> Nothing])
      <4> DEFINE f == [enabled |-> FALSE, secret |-> Nothing]
      <4>1. DOMAIN f = {"enabled", "secret"} /\ f["enabled"] = FALSE /\ f["secret"] = Nothing
        OBVIOUS
      <4>2. FALSE \in BOOLEAN
        OBVIOUS
      <4> HIDE DEF f
      <4>3. CellsOK(f)
        BY <4>1, <4>2, ColumnTypes DEF CellsOK
      <4> QED
        BY <4>3 DEF f
    <3> QED
      BY <2>8, <3>1, EditsTyped DEF Disables
  <2>9. CASE CommitsTenant(r) \/ CommitsUser(r)
    BY <2>9, CommitsTenantTyped, CommitsUserTyped
  <2>10. CASE RequestFails(r)
    BY <2>10, RefusedTyped DEF RequestFails
  <2> QED
    BY <1>4, <2>2, <2>3, <2>4, <2>5, <2>6, <2>7, <2>8, <2>9, <2>10 DEF RequestStep
<1>5. CASE AccountNext
  BY <1>1, <1>3, <1>4, <1>5 DEF AccountNext, AccountInv
<1> QED
  BY <1>2, <1>5, <1>1

(* The tables keep their types whatever requests interleave, and a request *)
(* has a connection exactly while one of its sessions is open: none is     *)
(* lost to the pool by a failure, and none is used without being taken.    *)
THEOREM AccountsAreTyped == AccountSpec => []AccountTypeOK
<1>1. AccountInv => AccountTypeOK
  <2> SUFFICES ASSUME AccountInv PROVE AccountTypeOK
    OBVIOUS
  <2>1. users \in [Users -> UserRows]
    BY TypedRow DEF AccountInv, TablesTyped
  <2>2. conn \in [Pool -> [by : Requests \union {Nothing}, local : Orgs \union {Nothing},
                          session : Orgs \union {Nothing}]]
    BY DEF AccountInv, DenyInv, Connections
  <2>3. ASSUME NEW r \in Requests
        PROVE  /\ req[r].at \in {"over", "between", "open", "closing"}
               /\ req[r].token \in BOOLEAN
               /\ req[r].at \in {"open", "closing"} <=> \E c \in Pool : conn[c].by = r
    <3>1. req[r].at \in {"over", "between", "open", "closing"} /\ req[r].token \in {TRUE, FALSE}
      BY DEF AccountInv, RequestTyped
    <3>2. InSession(r) => \E c \in Pool : conn[c].by = r
      BY DEF AccountInv, DenyInv
    <3>3. ASSUME NEW c \in Pool, conn[c].by = r PROVE InSession(r)
      BY <3>3, AccountsAssumption DEF AccountInv, DenyInv, ContextOfUser
    <3> QED
      BY <3>1, <3>2, <3>3 DEF InSession
  <2>4. TablesTyped
    BY DEF AccountInv
  <2> QED
    BY <2>1, <2>2, <2>3, <2>4 DEF AccountTypeOK, TablesTyped, UserRows
<1> QED
  BY <1>1, InitAccounts, NextAccounts, PTL DEF AccountSpec
=============================================================================
