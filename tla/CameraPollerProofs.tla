------------------------- MODULE CameraPollerProofs -------------------------
(***************************************************************************)
(* Theorems about CameraPoller, for every set of addresses, rows and        *)
(* workers and every bound; the last one says that its workers live the     *)
(* life of PollWorker.                                                      *)
(***************************************************************************)
EXTENDS CameraPoller, TLAPS

(* Two addresses never share a worker. *)
Distinct ==
  \A i, j \in IPs :
    pollWorkers[i] # None /\ pollWorkers[i] = pollWorkers[j] => i = j

(* A registered worker has not been cancelled. *)
RegisteredAlive ==
  \A ip \in IPs : pollWorkers[ip] # None => ~ctxDone[pollWorkers[ip]]

(* Halfway through a tick: what is not left to visit is done. *)
EnsureProgress ==
  pc = "ensure" =>
    \A e \in cameras : e \in todo \/ pollWorkers[e.ip] # None

ReapProgress ==
  pc = "reap" =>
    /\ \A ip \in keys : pollWorkers[ip] # None
    /\ \A e \in cameras : pollWorkers[e.ip] # None
    /\ \A ip \in IPs : pollWorkers[ip] # None => ip \in IPsOf(cameras) \cup keys

IInv ==
  /\ TypeOK
  /\ CancelFuncsInSync
  /\ Distinct
  /\ RegisteredAlive
  /\ OnePoll
  /\ NoLeakedWorker
  /\ EnsureProgress
  /\ ReapProgress
  /\ TickApplied
-----------------------------------------------------------------------------
(* The actions a step can be, with their parameters named. *)
LEMMA StepCases ==
  ASSUME TypeOK, [Next]_vars,
         NEW P,
         Boot => P, CancelRoot => P, ProcessDies => P,
         \A e \in Entry : AddEntry(e) => P,
         \A ip \in IPs : RemoveEntries(ip) => P,
         SignalPoller => P, StopPoller => P,
         Tick => P, Refresh => P, RefreshFails => P,
         \A r \in todo, w \in Workers : CreateWorker(r, w) => P,
         \A r \in todo : RestartWorker(r) => P,
         \A r \in todo : SkipWorker(r) => P,
         EnsureDone => P,
         \A ip \in keys : KeepWorker(ip) => P,
         \A ip \in keys : ReapWorker(ip) => P,
         ReapDone => P,
         \A w \in Workers : PollStep(w) => P,
         UNCHANGED vars => P
  PROVE  P
BY Zenon DEF Next, Environment, PollerStep

(* The count of a worker without goroutines has the type of a count. *)
LEMMA NoPollType == NoPoll \in [PollPoint -> Nat]
BY DEF NoPoll

(* Initially nothing runs. *)
LEMMA InitTypeOK == Init => TypeOK
<1> SUFFICES ASSUME Init PROVE TypeOK
  OBVIOUS
<1>1. /\ rows \in SUBSET Entry /\ unsignalled \in Nat /\ changes \in Nat
      /\ boots \in Nat /\ rootDone \in BOOLEAN /\ shouldUpdate \in BOOLEAN
      /\ cameras \in SUBSET Entry /\ pc \in PollerPC
      /\ todo \in SUBSET Entry /\ keys \in SUBSET IPs
  BY DEF Init, PollerPC
<1>2. /\ pollWorkers \in [IPs -> Workers \cup {None}]
      /\ cancelFuncs \in [IPs -> Workers \cup {None}]
  BY DEF Init, Nil
<1>3. endpoint \in [Workers -> Entry \cup {None}]
  BY DEF Init
<1>4. running \in [Workers -> BOOLEAN] /\ ctxDone \in [Workers -> BOOLEAN]
  BY DEF Init
<1>5. polls \in [Workers -> [PollPoint -> Nat]]
  BY NoPollType DEF Init
<1>. QED
  BY <1>1, <1>2, <1>3, <1>4, <1>5 DEF TypeOK

(* A poll goroutine changes only its own worker's IsRunning and counts. *)
LEMMA PollStepTypeOK ==
  ASSUME TypeOK, NEW w \in Workers, PollStep(w)
  PROVE  TypeOK'
<1>1. ASSUME NEW p \in PollPoint, polls[w][p] > 0, Exit(w, p)
      PROVE  TypeOK'
  <2>1. polls[w][p] - 1 \in Nat
    BY <1>1 DEF TypeOK
  <2>2. polls' \in [Workers -> [PollPoint -> Nat]]
    BY <1>1, <2>1 DEF Exit, TypeOK
  <2>. QED
    BY <1>1, <2>2 DEF Exit, TypeOK, dbVars, procVars, pollerVars
<1>2. ASSUME NEW p \in PollPoint, NEW q \in PollPoint, p # q,
             polls[w][p] > 0, Move(w, p, q)
      PROVE  TypeOK'
  <2>1. polls[w][p] - 1 \in Nat /\ polls[w][q] + 1 \in Nat
    BY <1>2 DEF TypeOK
  <2>2. polls' \in [Workers -> [PollPoint -> Nat]]
    BY <1>2, <2>1 DEF Move, TypeOK
  <2>. QED
    BY <1>2, <2>2 DEF Move, TypeOK, dbVars, procVars, pollerVars
<1>. QED
  BY <1>1, <1>2 DEF PollStep, DialFails, Connect, Terminate, DeadlineExceeded,
     ReadFrame, FrameDone, PollPoint

(* Every other step assigns values of the declared types. *)
LEMMA NextTypeOK == TypeOK /\ [Next]_vars => TypeOK'
<1> SUFFICES ASSUME TypeOK, [Next]_vars PROVE TypeOK'
  OBVIOUS
<1> USE DEF TypeOK, dbVars, procVars, pollerVars, workerVars
<1>1. Boot => TypeOK'
  BY DEF Boot, BootCameras, PollerPC
<1>2. CancelRoot => TypeOK'
  BY DEF CancelRoot
<1>3. ASSUME ProcessDies PROVE TypeOK'
  <2>1. /\ rows' \in SUBSET Entry /\ unsignalled' \in Nat /\ changes' \in Nat
        /\ boots' \in Nat /\ rootDone' \in BOOLEAN /\ shouldUpdate' \in BOOLEAN
        /\ cameras' \in SUBSET Entry /\ pc' \in PollerPC
        /\ todo' \in SUBSET Entry /\ keys' \in SUBSET IPs
    BY <1>3 DEF ProcessDies, Forget, PollerPC
  <2>2. /\ pollWorkers' \in [IPs -> Workers \cup {None}]
        /\ cancelFuncs' \in [IPs -> Workers \cup {None}]
    BY <1>3 DEF ProcessDies, Forget, Nil
  <2>3. endpoint' \in [Workers -> Entry \cup {None}]
    BY <1>3 DEF ProcessDies, Forget
  <2>4. running' \in [Workers -> BOOLEAN] /\ ctxDone' \in [Workers -> BOOLEAN]
    BY <1>3 DEF ProcessDies, Forget
  <2>5. polls' \in [Workers -> [PollPoint -> Nat]]
    BY <1>3, NoPollType DEF ProcessDies, Forget
  <2>. QED
    BY <2>1, <2>2, <2>3, <2>4, <2>5
<1>4. ASSUME NEW e \in Entry PROVE AddEntry(e) => TypeOK'
  BY DEF AddEntry
<1>5. ASSUME NEW ip \in IPs PROVE RemoveEntries(ip) => TypeOK'
  BY DEF RemoveEntries
<1>6. SignalPoller => TypeOK'
  BY DEF SignalPoller
<1>7. StopPoller => TypeOK'
  BY DEF StopPoller, PollerPC
<1>8. Tick => TypeOK'
  BY DEF Tick, PollerPC
<1>9. Refresh => TypeOK'
  BY DEF Refresh, PollerPC
<1>10. RefreshFails => TypeOK'
  BY DEF RefreshFails, PollerPC
<1>11. ASSUME NEW r \in todo, NEW w \in Workers PROVE CreateWorker(r, w) => TypeOK'
  BY PollerConstants DEF CreateWorker
<1>12. ASSUME NEW r \in todo PROVE RestartWorker(r) => TypeOK'
  BY PollerConstants DEF RestartWorker, PollPoint
<1>13. ASSUME NEW r \in todo PROVE SkipWorker(r) => TypeOK'
  BY DEF SkipWorker
<1>14. EnsureDone => TypeOK'
  BY DEF EnsureDone, Tracked, PollerPC
<1>15. ASSUME NEW ip \in keys PROVE KeepWorker(ip) => TypeOK'
  BY DEF KeepWorker
<1>16. ASSUME NEW ip \in keys PROVE ReapWorker(ip) => TypeOK'
  BY DEF ReapWorker
<1>17. ReapDone => TypeOK'
  BY DEF ReapDone, PollerPC
<1>18. ASSUME NEW w \in Workers PROVE PollStep(w) => TypeOK'
  BY PollStepTypeOK
<1>19. UNCHANGED vars => TypeOK'
  BY DEF vars
<1>. QED
  BY <1>1, <1>2, <1>3, <1>4, <1>5, <1>6, <1>7, <1>8, <1>9, <1>10, <1>11, <1>12,
     <1>13, <1>14, <1>15, <1>16, <1>17, <1>18, <1>19, StepCases

(* Type correctness of the poller, its workers and the table it reads. *)
THEOREM TypeCorrect == Spec => []TypeOK
  BY InitTypeOK, NextTypeOK, PTL DEF Spec
-----------------------------------------------------------------------------
(* The invariant holds initially: no worker, no goroutine, poller down. *)
LEMMA InitIInv == Init => IInv
<1> SUFFICES ASSUME Init PROVE IInv
  OBVIOUS
<1>1. CancelFuncsInSync
  BY DEF Init, CancelFuncsInSync
<1>2. Distinct /\ RegisteredAlive
  BY DEF Init, Nil, Distinct, RegisteredAlive
<1>3. OnePoll /\ NoLeakedWorker
  BY DEF Init, OnePoll, NoLeakedWorker, Polls, NoPoll, PollPoint
<1>4. EnsureProgress /\ ReapProgress /\ TickApplied
  BY DEF Init, EnsureProgress, ReapProgress, TickApplied
<1>. QED
  BY <1>1, <1>2, <1>3, <1>4, InitTypeOK DEF IInv

(* A goroutine that exits takes IsRunning with it, one that moves leaves it. *)
LEMMA PollStepIInv ==
  ASSUME IInv, NEW w \in Workers, PollStep(w)
  PROVE  IInv'
<1>t. TypeOK /\ TypeOK'
  BY PollStepTypeOK DEF IInv
<1>1. ASSUME NEW p \in PollPoint, polls[w][p] > 0, Exit(w, p)
      PROVE  OnePoll' /\ NoLeakedWorker' /\ UNCHANGED <<pollerVars, ctxDone>>
  <2>1. Polls(w)' = Polls(w) - 1 /\ running'[w] = FALSE
    BY <1>1, <1>t DEF Exit, Polls, PollPoint, TypeOK
  <2>2. Polls(w) = 1
    BY <1>1, <1>t DEF IInv, OnePoll, Polls, PollPoint, TypeOK
  <2>3. \A v \in Workers \ {w} : Polls(v)' = Polls(v) /\ running'[v] = running[v]
    BY <1>1, <1>t DEF Exit, Polls, TypeOK
  <2>4. OnePoll'
    BY <2>1, <2>2, <2>3 DEF IInv, OnePoll
  <2>. QED
    BY <2>1, <2>3, <2>4, <1>1 DEF Exit, IInv, NoLeakedWorker, Registered, pollerVars
<1>2. ASSUME NEW p \in PollPoint, NEW q \in PollPoint, p # q, Move(w, p, q)
      PROVE  OnePoll' /\ NoLeakedWorker' /\ UNCHANGED <<pollerVars, ctxDone>>
  <2>1. Polls(w)' = Polls(w)
    BY <1>2, <1>t DEF Move, Polls, PollPoint, TypeOK
  <2>2. \A v \in Workers \ {w} : Polls(v)' = Polls(v)
    BY <1>2, <1>t DEF Move, Polls, TypeOK
  <2>. QED
    BY <2>1, <2>2, <1>2
    DEF Move, IInv, OnePoll, NoLeakedWorker, Registered, pollerVars
<1>3. OnePoll' /\ NoLeakedWorker' /\ UNCHANGED <<pollerVars, ctxDone>>
  BY <1>1, <1>2 DEF PollStep, DialFails, Connect, Terminate, DeadlineExceeded,
     ReadFrame, FrameDone, PollPoint
<1>. QED
  BY <1>3, <1>t DEF IInv, CancelFuncsInSync, Distinct, RegisteredAlive,
     EnsureProgress, ReapProgress, TickApplied, Tracked, IPsOf, pollerVars

(* A new worker is nobody else's: it was free. *)
LEMMA CreateWorkerIInv ==
  ASSUME IInv, TypeOK', NEW r \in todo, NEW w \in Workers, CreateWorker(r, w)
  PROVE  IInv'
<1> USE DEF CreateWorker
<1>1. TypeOK /\ r \in Entry /\ r.ip \in IPs /\ w # None
  BY PollerConstants DEF IInv, TypeOK
<1>2. CancelFuncsInSync'
  BY DEF IInv, CancelFuncsInSync
<1>3. \A ip \in IPs : pollWorkers[ip] # w
  BY DEF Free, Registered
<1>4. Distinct' /\ RegisteredAlive'
  BY <1>1, <1>3 DEF IInv, TypeOK, Distinct, RegisteredAlive
<1>5. Polls(w) = 0 /\ UNCHANGED polls
  BY DEF Free, NoPoll, PollPoint, Polls
<1>6. OnePoll'
  BY <1>1, <1>5 DEF IInv, TypeOK, OnePoll, Polls
<1>7. NoLeakedWorker'
  <2>1. SUFFICES ASSUME NEW v \in Workers, running'[v]
                 PROVE  Registered(v)' \/ ctxDone'[v]
    BY DEF NoLeakedWorker
  <2>2. v # w /\ running[v] /\ ctxDone'[v] = ctxDone[v]
    BY <1>1, <2>1 DEF TypeOK
  <2>3. CASE Registered(v)
    <3>1. PICK ip \in IPs : pollWorkers[ip] = v
      BY <2>3 DEF Registered
    <3>2. ip # r.ip /\ pollWorkers'[ip] = v
      BY <1>1, <3>1, PollerConstants DEF TypeOK
    <3>. QED
      BY <3>2 DEF Registered
  <2>. QED
    BY <2>2, <2>3 DEF IInv, NoLeakedWorker
<1>8. EnsureProgress' /\ ReapProgress' /\ TickApplied'
  BY <1>1, PollerConstants DEF IInv, TypeOK, EnsureProgress, ReapProgress, TickApplied
<1>. QED
  BY <1>2, <1>4, <1>6, <1>7, <1>8 DEF IInv

(* When no key is left to visit, the workers are those of the list. *)
LEMMA ReapDoneIInv ==
  ASSUME IInv, TypeOK', ReapDone
  PROVE  IInv'
<1> USE DEF ReapDone
<1>1. TypeOK
  BY DEF IInv
<1>2. TickApplied'
  <2>1. \A ip \in IPs : pollWorkers[ip] # None <=> ip \in IPsOf(cameras)
    BY <1>1, PollerConstants DEF IInv, ReapProgress, IPsOf, TypeOK
  <2>2. IPsOf(cameras) \subseteq IPs
    BY <1>1, PollerConstants DEF IPsOf, TypeOK
  <2>. QED
    BY <2>1, <2>2 DEF TickApplied, Tracked, IPsOf
<1>3. EnsureProgress' /\ ReapProgress'
  BY DEF EnsureProgress, ReapProgress
<1>. QED
  BY <1>2, <1>3 DEF IInv, CancelFuncsInSync, Distinct, RegisteredAlive, OnePoll,
     NoLeakedWorker, Polls, Registered, workerVars

(* The invariant is inductive. *)
LEMMA NextIInv == IInv /\ [Next]_vars => IInv'
<1> SUFFICES ASSUME IInv, [Next]_vars PROVE IInv'
  OBVIOUS
<1>t. TypeOK /\ TypeOK'
  BY NextTypeOK DEF IInv
<1> USE <1>t DEF dbVars, procVars, pollerVars, workerVars, IInv,
        CancelFuncsInSync, Distinct, RegisteredAlive, OnePoll, NoLeakedWorker,
        EnsureProgress, ReapProgress, TickApplied, Polls, Registered, Tracked,
        IPsOf
<1>1. Boot => IInv'
  BY DEF Boot, BootCameras, PollerPC, TypeOK
<1>2. CancelRoot => IInv'
  BY DEF CancelRoot
<1>3. ProcessDies => IInv'
  BY DEF ProcessDies, Forget, Nil, NoPoll, PollerPC, PollPoint, TypeOK
<1>4. ASSUME NEW e \in Entry PROVE AddEntry(e) => IInv'
  BY DEF AddEntry, TypeOK
<1>5. ASSUME NEW ip \in IPs PROVE RemoveEntries(ip) => IInv'
  BY DEF RemoveEntries, TypeOK
<1>6. SignalPoller => IInv'
  BY DEF SignalPoller, TypeOK
<1>7. StopPoller => IInv'
  BY DEF StopPoller, PollerPC, TypeOK
<1>8. Tick => IInv'
  BY DEF Tick, PollerPC, TypeOK
<1>9. Refresh => IInv'
  BY DEF Refresh, PollerPC, TypeOK
<1>10. RefreshFails => IInv'
  BY DEF RefreshFails, PollerPC, TypeOK
<1>11. ASSUME NEW r \in todo, NEW w \in Workers PROVE CreateWorker(r, w) => IInv'
  BY CreateWorkerIInv
<1>12. ASSUME NEW r \in todo PROVE RestartWorker(r) => IInv'
  BY PollerConstants DEF RestartWorker, PollPoint, TypeOK
<1>13. ASSUME NEW r \in todo PROVE SkipWorker(r) => IInv'
  BY DEF SkipWorker, TypeOK
<1>14. EnsureDone => IInv'
  BY DEF EnsureDone, Tracked, PollerPC, TypeOK
<1>15. ASSUME NEW ip \in keys PROVE KeepWorker(ip) => IInv'
  BY DEF KeepWorker, TypeOK
<1>16. ASSUME NEW ip \in keys PROVE ReapWorker(ip) => IInv'
  BY DEF ReapWorker, TypeOK
<1>17. ReapDone => IInv'
  BY ReapDoneIInv
<1>18. ASSUME NEW w \in Workers PROVE PollStep(w) => IInv'
  BY PollStepIInv
<1>19. UNCHANGED vars => IInv'
  BY DEF vars
<1>. QED
  BY <1>1, <1>2, <1>3, <1>4, <1>5, <1>6, <1>7, <1>8, <1>9, <1>10, <1>11, <1>12,
     <1>13, <1>14, <1>15, <1>16, <1>17, <1>18, <1>19, StepCases

(* The inductive invariant: the safety properties, with what they rest on. *)
THEOREM Invariant == Spec => []IInv
  BY InitIInv, NextIInv, PTL DEF Spec

(* The reaping loop finds a cancel function for every worker it terminates, and
   it is that worker's: it never calls a nil function. *)
THEOREM CancelFuncsSynced == Spec => []CancelFuncsInSync
<1>1. IInv => CancelFuncsInSync
  BY DEF IInv
<1>. QED
  BY <1>1, Invariant, PTL

(* A worker has one poll goroutine while IsRunning is set, and none otherwise,
   however its exit interleaves with the poller's restarts. *)
THEOREM SinglePoll == Spec => []OnePoll
<1>1. IInv => OnePoll
  BY DEF IInv
<1>. QED
  BY <1>1, Invariant, PTL

(* No goroutine streams from a camera without being reachable by the poller or
   told to end. *)
THEOREM NoLeak == Spec => []NoLeakedWorker
<1>1. IInv => NoLeakedWorker
  BY DEF IInv
<1>. QED
  BY <1>1, Invariant, PTL

(* After a tick the workers are those of the list of cameras, no more and no
   less. *)
THEOREM TickSound == Spec => []TickApplied
<1>1. IInv => TickApplied
  BY DEF IInv
<1>. QED
  BY <1>1, Invariant, PTL

(* Only RestartWorker starts a goroutine, and its worker is registered. *)
LEMMA DialNotCancelled ==
  ASSUME IInv, [Next]_vars, NEW w \in Workers, ctxDone[w], ctxDone'[w]
  PROVE  polls'[w]["dial"] <= polls[w]["dial"]
<1> DEFINE P == polls'[w]["dial"] <= polls[w]["dial"]
<1>t. TypeOK /\ polls[w]["dial"] \in Nat
  BY DEF IInv, TypeOK, PollPoint
<1>1. UNCHANGED polls => P
  BY <1>t
<1>2. ProcessDies => P
  BY <1>t DEF ProcessDies, Forget, NoPoll, PollPoint
<1>3. ASSUME NEW r \in todo, RestartWorker(r) PROVE P
  <2>1. r.ip \in IPs /\ pollWorkers[r.ip] # None /\ pollWorkers[r.ip] # w
    BY <1>3, <1>t, PollerConstants DEF RestartWorker, IInv, RegisteredAlive, TypeOK
  <2>. QED
    BY <1>3, <1>t, <2>1 DEF RestartWorker, TypeOK, PollPoint
<1>4. ASSUME NEW v \in Workers, PollStep(v) PROVE P
  BY <1>4, <1>t DEF PollStep, DialFails, Connect, Terminate, DeadlineExceeded,
     ReadFrame, FrameDone, Exit, Move, TypeOK, PollPoint
<1>5. \/ UNCHANGED polls \/ ProcessDies
      \/ \E r \in todo : RestartWorker(r)
      \/ \E v \in Workers : PollStep(v)
  BY DEF Next, Environment, PollerStep, Boot, CancelRoot, AddEntry, RemoveEntries,
     SignalPoller, StopPoller, Tick, Refresh, RefreshFails, CreateWorker,
     SkipWorker, EnsureDone, KeepWorker, ReapWorker, ReapDone, vars, workerVars
<1>. QED
  BY <1>1, <1>2, <1>3, <1>4, <1>5

(* A worker whose context is cancelled is never started again. *)
THEOREM CancelledStaysStopped == Spec => CancelledNeverStarted
<1>1. IInv /\ [Next]_vars =>
        [\A w \in Workers :
           ctxDone[w] /\ ctxDone'[w] => polls'[w]["dial"] <= polls[w]["dial"]]_vars
  BY DialNotCancelled
<1>. QED
  BY <1>1, Invariant, PTL DEF Spec, CancelledNeverStarted
-----------------------------------------------------------------------------
(* Refinement: where the goroutine of a count is. *)
LEMMA PointOff == Point(NoPoll) = "off"
BY DEF Point

LEMMA PointAt ==
  ASSUME NEW c \in [PollPoint -> Nat], NEW p \in PollPoint,
         c[p] = 1, \A q \in PollPoint \ {p} : c[q] = 0
  PROVE  Point(c) = p
<1>1. c # NoPoll
  BY DEF NoPoll
<1>2. \A q \in PollPoint : c[q] > 0 <=> q = p
  OBVIOUS
<1>. QED
  BY <1>1, <1>2 DEF Point

LEMMA NoPollOnly ==
  ASSUME NEW c \in [PollPoint -> Nat], \A p \in PollPoint : c[p] = 0
  PROVE  c = NoPoll
BY DEF NoPoll

(* A worker with a goroutine at p has it there and nowhere else. *)
LEMMA OnlyAt ==
  ASSUME TypeOK, OnePoll, NEW w \in Workers, NEW p \in PollPoint, polls[w][p] > 0
  PROVE  /\ running[w] /\ polls[w][p] = 1 /\ Point(polls[w]) = p
         /\ \A q \in PollPoint \ {p} : polls[w][q] = 0
<1>1. polls[w] \in [PollPoint -> Nat] /\ running[w] \in BOOLEAN
  BY DEF TypeOK
<1>2. running[w] /\ polls[w][p] = 1 /\ \A q \in PollPoint \ {p} : polls[w][q] = 0
  BY <1>1 DEF OnePoll, Polls, PollPoint
<1>. QED
  BY <1>1, <1>2, PointAt

(* A worker that is not running has no goroutine. *)
LEMMA Nowhere ==
  ASSUME TypeOK, OnePoll, NEW w \in Workers, ~running[w]
  PROVE  polls[w] = NoPoll
<1>1. polls[w] \in [PollPoint -> Nat]
  BY DEF TypeOK
<1>2. \A p \in PollPoint : polls[w][p] = 0
  BY <1>1 DEF OnePoll, Polls, PollPoint
<1>. QED
  BY <1>1, <1>2, NoPollOnly

(* The goroutine's own steps are those of PollWorker. *)
LEMMA PollStepLife ==
  ASSUME IInv, NEW w \in Workers, PollStep(w)
  PROVE  Life(w)!Next
<1>t. TypeOK /\ OnePoll /\ polls[w] \in [PollPoint -> Nat]
  BY DEF IInv, TypeOK
<1>1. ASSUME NEW p \in {"dial", "select"}, polls[w][p] > 0, Exit(w, p)
      PROVE  Life(w)!End
  <2>0. p \in PollPoint
    BY DEF PollPoint
  <2>1. /\ Point(polls[w]) = p /\ polls[w][p] = 1
        /\ \A q \in PollPoint \ {p} : polls[w][q] = 0
    BY <1>1, <1>t, <2>0, OnlyAt
  <2>2. polls'[w] = [polls[w] EXCEPT ![p] = @ - 1]
    BY <1>1 DEF Exit, IInv, TypeOK
  <2>3. polls'[w] \in [PollPoint -> Nat] /\ \A q \in PollPoint : polls'[w][q] = 0
    BY <1>t, <2>0, <2>1, <2>2
  <2>4. polls'[w] = NoPoll
    BY <2>3, NoPollOnly
  <2>. QED
    BY <1>1, <2>1, <2>4, PointOff DEF Life!End, Exit, IInv, TypeOK
<1>2. ASSUME NEW p \in PollPoint, NEW q \in PollPoint \ {p}, polls[w][p] > 0, Move(w, p, q)
      PROVE  /\ Point(polls[w]) = p /\ Point(polls'[w]) = q
             /\ running'[w] = running[w] /\ ctxDone'[w] = ctxDone[w]
  <2>1. /\ Point(polls[w]) = p /\ polls[w][p] = 1
        /\ \A s \in PollPoint \ {p} : polls[w][s] = 0
    BY <1>2, <1>t, OnlyAt
  <2>2. polls'[w] = [polls[w] EXCEPT ![p] = @ - 1, ![q] = @ + 1]
    BY <1>2 DEF Move, IInv, TypeOK
  <2>3. /\ polls'[w] \in [PollPoint -> Nat] /\ polls'[w][q] = 1
        /\ \A s \in PollPoint \ {q} : polls'[w][s] = 0
    BY <1>t, <2>1, <2>2
  <2>. QED
    BY <1>2, <2>1, <2>3, PointAt DEF Move
<1>3. DialFails(w) \/ Terminate(w) \/ DeadlineExceeded(w) => Life(w)!End
  BY <1>1 DEF DialFails, Terminate, DeadlineExceeded
<1>4. Connect(w) => Life(w)!Connect
  BY <1>2 DEF Connect, PollPoint, Life!Connect
<1>5. ReadFrame(w) => Life(w)!Read
  BY <1>2 DEF ReadFrame, Cancelled, PollPoint, Life!Read
<1>6. FrameDone(w) => Life(w)!Done
  BY <1>2 DEF FrameDone, PollPoint, Life!Done
<1>. QED
  BY <1>3, <1>4, <1>5, <1>6 DEF PollStep, Life!Next

(* Whatever the poller does, it does to each worker what PollWorker allows. *)
LEMMA NextLives ==
  ASSUME IInv, [Next]_vars, NEW w \in Workers
  PROVE  [Life(w)!Next]_(Life(w)!vars)
<1> DEFINE P == [Life(w)!Next]_(Life(w)!vars)
           Same == running'[w] = running[w] /\ ctxDone'[w] = ctxDone[w] /\ polls'[w] = polls[w]
<1>t. TypeOK /\ OnePoll
  BY DEF IInv
<1>1. Same => P
  BY DEF Life!vars
<1>2. UNCHANGED <<running, ctxDone, polls>> => P
  BY <1>1
<1>3. ProcessDies => P
  BY PointOff DEF ProcessDies, Forget, Life!Next, Life!ProcessDies
<1>4. ASSUME NEW r \in todo, NEW v \in Workers, CreateWorker(r, v) PROVE P
  <2>1. CASE v = w
    <3>1. running[w] = FALSE
      BY <1>4, <1>t, <2>1 DEF CreateWorker, Free, NoPoll, PollPoint, OnePoll, Polls, TypeOK
    <3>2. running'[w] = FALSE /\ ctxDone'[w] = FALSE /\ polls' = polls
      BY <1>4, <1>t, <2>1 DEF CreateWorker, TypeOK
    <3>. QED
      BY <3>1, <3>2 DEF Life!Next, Life!Renew
  <2>2. CASE v # w
    BY <1>1, <1>4, <1>t, <2>2 DEF CreateWorker, TypeOK
  <2>. QED
    BY <2>1, <2>2
<1>5. ASSUME NEW r \in todo, RestartWorker(r) PROVE P
  <2>1. r.ip \in IPs /\ pollWorkers[r.ip] # None
    BY <1>5, <1>t, PollerConstants DEF RestartWorker, TypeOK
  <2>2. CASE pollWorkers[r.ip] = w
    <3>1. ~running[w] /\ ~ctxDone[w]
      BY <1>5, <2>1, <2>2 DEF RestartWorker, IInv, RegisteredAlive
    <3>2. polls[w] = NoPoll
      BY <1>t, <3>1, Nowhere
    <3>3. polls'[w] = [polls[w] EXCEPT !["dial"] = @ + 1]
      BY <1>5, <1>t, <2>2 DEF RestartWorker, TypeOK
    <3>4. /\ polls'[w] \in [PollPoint -> Nat] /\ polls'[w]["dial"] = 1
          /\ \A q \in PollPoint \ {"dial"} : polls'[w][q] = 0
      BY <3>2, <3>3 DEF NoPoll, PollPoint
    <3>5. Point(polls'[w]) = "dial"
      BY <3>4, PointAt DEF PollPoint
    <3>6. running'[w] /\ ctxDone'[w] = ctxDone[w]
      BY <1>5, <1>t, <2>2 DEF RestartWorker, TypeOK
    <3>. QED
      BY <1>t, <3>1, <3>5, <3>6 DEF TypeOK, Life!Next, Life!Start
  <2>3. CASE pollWorkers[r.ip] # w
    BY <1>1, <1>5, <1>t, <2>3 DEF RestartWorker, TypeOK
  <2>. QED
    BY <2>2, <2>3
<1>6. ASSUME NEW ip \in keys, ReapWorker(ip) PROVE P
  <2>1. ctxDone'[w] = ctxDone[w] \/ ctxDone'[w] = TRUE
    BY <1>6, <1>t DEF ReapWorker, TypeOK
  <2>2. UNCHANGED <<running, polls>>
    BY <1>6 DEF ReapWorker
  <2>. QED
    BY <1>1, <2>1, <2>2 DEF Life!Next, Life!Cancel
<1>7. ASSUME NEW v \in Workers, PollStep(v) PROVE P
  <2>1. CASE v = w
    BY <1>7, <2>1, PollStepLife
  <2>2. CASE v # w
    BY <1>1, <1>7, <1>t, <2>2 DEF PollStep, DialFails, Connect, Terminate, DeadlineExceeded,
       ReadFrame, FrameDone, Exit, Move, TypeOK
  <2>. QED
    BY <2>1, <2>2
<1>8. \/ UNCHANGED <<running, ctxDone, polls>> \/ ProcessDies
      \/ \E r \in todo, v \in Workers : CreateWorker(r, v)
      \/ \E r \in todo : RestartWorker(r)
      \/ \E ip \in keys : ReapWorker(ip)
      \/ \E v \in Workers : PollStep(v)
  BY DEF Next, Environment, PollerStep, Boot, CancelRoot, AddEntry, RemoveEntries,
     SignalPoller, StopPoller, Tick, Refresh, RefreshFails, SkipWorker, EnsureDone, KeepWorker,
     ReapDone, vars, workerVars
<1>. QED
  BY <1>2, <1>3, <1>4, <1>5, <1>6, <1>7, <1>8

(* Each worker of the poller lives the life FrameStore assumes: started only when it has
   ended and not been told to, and silent once it has. *)
THEOREM ImplementsPollWorkers == Spec => WorkersAreLives
<1>1. Init => \A w \in Workers : Life(w)!Init
  BY PointOff DEF Init, Life!Init
<1>2. IInv /\ [Next]_vars => [\A w \in Workers : [Life(w)!Next]_(Life(w)!vars)]_vars
  BY NextLives
<1>. QED
  BY <1>1, <1>2, Invariant, PTL DEF Spec, WorkersAreLives
=============================================================================
