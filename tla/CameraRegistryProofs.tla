------------------------ MODULE CameraRegistryProofs ------------------------
(***************************************************************************)
(* Theorems about CameraRegistry, for every number of handlers, requests    *)
(* and restarts and every kind of failure: no interleaving of the handlers  *)
(* separates a camera from its adjustment.                                  *)
(*                                                                         *)
(* The last part is about CameraSystem: handlers and poller in one process  *)
(* implement CameraRegistry and CameraPoller, so that what is proved of     *)
(* each holds of the two together.                                          *)
(***************************************************************************)
EXTENDS CameraSystem, FiniteSetTheorems, TLAPS

(* A handler at work has the address of its request. *)
ActiveIp == \A r \in Requests : req[r].pc # "idle" => req[r].ip \in IPs

(* The sequence is ahead of every adjustment id in use. *)
SequenceAhead ==
  /\ \A a \in adjs : a < nextAdj
  /\ \A r \in Requests : req[r].adj < nextAdj

(* An adjustment that waits for its camera belongs to one add handler, and no
   remove handler is after it. *)
Reserved ==
  \A r \in Requests : req[r].pc = "insert" =>
    /\ req[r].adj \in adjs
    /\ \A c \in cams : c.adj # req[r].adj
    /\ \A q \in Requests \ {r} :
         req[q].pc \in {"insert", "delete", "unadjust"} => req[q].adj # req[r].adj

(* The adjustment a remove handler is about to orphan is of a camera with the
   address it deletes. *)
DeleteCovers ==
  \A r \in Requests : req[r].pc = "delete" =>
    \A c \in cams : c.adj = req[r].adj => c.ip = req[r].ip

IInv ==
  /\ TypeOK
  /\ ActiveIp
  /\ SequenceAhead
  /\ Reserved
  /\ DeleteCovers
  /\ OwnAdjustment
  /\ RemoveEffective
-----------------------------------------------------------------------------
(* The state of a handler that serves no request. *)
LEMMA IdleType ==
  Idle \in HandlerState /\ Idle.pc = "idle" /\ Idle.adj = 0
BY DEF Idle, Handler, HandlerPC, HandlerState

(* Initially the tables are empty and no handler runs. *)
LEMMA InitIInv == Init => IInv
<1> SUFFICES ASSUME Init PROVE IInv
  OBVIOUS
<1>1. req \in [Requests -> HandlerState]
  BY IdleType DEF Init
<1>2. TypeOK
  <2>1. /\ cams = {} /\ adjs = {} /\ loaded = {} /\ fetched = {}
        /\ nextCam = 1 /\ nextAdj = 1 /\ served = 0
        /\ refused = 0 /\ lost = 0 /\ restarts = 0
        /\ shouldUpdate = FALSE /\ querying = FALSE /\ overlapped = FALSE
    BY DEF Init
  <2>2. cams \in SUBSET Camera /\ loaded \in SUBSET Camera /\ fetched \in SUBSET Camera
    BY <2>1
  <2>3. adjs \in SUBSET Key /\ nextCam \in Key /\ nextAdj \in Key
    BY <2>1 DEF Key
  <2>4. /\ shouldUpdate \in BOOLEAN /\ querying \in BOOLEAN /\ overlapped \in BOOLEAN
        /\ served \in Nat /\ refused \in Nat /\ lost \in Nat /\ restarts \in Nat
    BY <2>1
  <2>. QED
    BY <1>1, <2>2, <2>3, <2>4 DEF TypeOK
<1>3. \A r \in Requests : req[r].pc = "idle" /\ req[r].adj = 0
  BY IdleType DEF Init
<1>. QED
  BY <1>2, <1>3 DEF Init, IInv, ActiveIp, SequenceAhead, Reserved, DeleteCovers,
     OwnAdjustment, RemoveEffective

(* However a call goes, the failures are counted. *)
LEMMA FaultTypes ==
  ASSUME TypeOK, Succeed \/ Refuse \/ LoseAnswer
  PROVE  refused' \in Nat /\ lost' \in Nat /\ restarts' \in Nat
BY DEF TypeOK, Succeed, Refuse, LoseAnswer, faultVars

(* What a step does that leaves the tables alone and takes handler r to a place
   where it neither holds an adjustment nor is after one. *)
LEMMA HarmlessStep ==
  ASSUME IInv, TypeOK', NEW r \in Requests, UNCHANGED <<cams, adjs, nextAdj>>,
         \A q \in Requests \ {r} : req'[q] = req[q],
         req'[r].pc \in HandlerPC \ {"insert", "delete", "unadjust"},
         req'[r].pc # "idle" => req'[r].ip \in IPs,
         req'[r].adj < nextAdj
  PROVE  IInv'
BY DEF IInv, ActiveIp, SequenceAhead, Reserved, DeleteCovers, OwnAdjustment,
   RemoveEffective

(* A handler that ends. *)
LEMMA FinishStep ==
  ASSUME IInv, NEW r \in Requests, Finish(r), UNCHANGED <<cams, adjs, nextAdj>>,
         nextCam' \in Key, UNCHANGED <<pollerVars, requestVars>>,
         Succeed \/ Refuse \/ LoseAnswer
  PROVE  IInv'
<1>1. req'[r] = Idle /\ \A q \in Requests \ {r} : req'[q] = req[q]
  BY DEF Finish, IInv, TypeOK
<1>2. TypeOK'
  BY IdleType, FaultTypes DEF Finish, IInv, TypeOK, pollerVars, requestVars
<1>3. 0 < nextAdj
  BY DEF IInv, TypeOK, Key
<1>. QED
  BY <1>1, <1>2, <1>3, IdleType, HarmlessStep DEF HandlerPC

(* Reading the address up touches no table. *)
LEMMA LookupIInv ==
  ASSUME IInv, NEW r \in Requests,
         LookupFound(r) \/ LookupMissing(r) \/ LookupAmbiguous(r)
  PROVE  IInv'
<1>t. TypeOK /\ req[r] \in HandlerState
  BY DEF IInv, TypeOK, HandlerState
<1>1. CASE LookupFound(r)
  BY <1>1, <1>t, FinishStep DEF LookupFound, Succeed, dbVars, TypeOK
<1>2. CASE LookupMissing(r)
  <2>1. TypeOK'
    BY <1>2, <1>t, FaultTypes
    DEF LookupMissing, Goto, TypeOK, HandlerState, HandlerPC, dbVars, pollerVars, requestVars
  <2>2. /\ \A q \in Requests \ {r} : req'[q] = req[q]
        /\ req'[r].pc = "adjust"
        /\ req'[r].ip = req[r].ip /\ req'[r].adj = req[r].adj
    BY <1>2, <1>t DEF LookupMissing, Goto, TypeOK
  <2>3. req[r].ip \in IPs /\ req[r].adj < nextAdj
    BY <1>2 DEF LookupMissing, At, IInv, ActiveIp, SequenceAhead
  <2>. QED
    BY <1>2, <2>1, <2>2, <2>3, HarmlessStep DEF LookupMissing, dbVars, HandlerPC
<1>3. CASE LookupAmbiguous(r)
  <2>1. PICK c \in Rows(req[r].ip) :
          req' = [req EXCEPT ![r] = [@ EXCEPT !.pc = "adjust", !.id = c.id]]
    BY <1>3 DEF LookupAmbiguous
  <2>2. c.id \in Nat
    BY <1>t DEF Rows, TypeOK, Camera, Key
  <2>3. TypeOK'
    BY <1>3, <1>t, <2>1, <2>2
    DEF LookupAmbiguous, TypeOK, HandlerState, HandlerPC, dbVars, pollerVars, faultVars,
        requestVars
  <2>4. /\ \A q \in Requests \ {r} : req'[q] = req[q]
        /\ req'[r].pc = "adjust"
        /\ req'[r].ip = req[r].ip /\ req'[r].adj = req[r].adj
    BY <2>1, <1>t DEF TypeOK, HandlerState
  <2>5. req[r].ip \in IPs /\ req[r].adj < nextAdj
    BY <1>3 DEF LookupAmbiguous, At, IInv, ActiveIp, SequenceAhead
  <2>. QED
    BY <1>3, <2>3, <2>4, <2>5, HarmlessStep DEF LookupAmbiguous, dbVars, HandlerPC
<1>. QED
  BY <1>1, <1>2, <1>3

(* A new adjustment has an id nobody has seen. *)
LEMMA InsertAdjustmentIInv ==
  ASSUME IInv, NEW r \in Requests, InsertAdjustment(r)
  PROVE  IInv'
<1>t. TypeOK /\ nextAdj \in Key /\ nextAdj' = nextAdj + 1 /\ nextAdj' \in Key
  BY DEF IInv, TypeOK, InsertAdjustment, Key
<1>1. \A q \in Requests \ {r} : req'[q] = req[q]
  BY <1>t DEF InsertAdjustment, Finish, TypeOK, HandlerState
<1>2. \/ /\ req'[r].pc = "insert" /\ req'[r].adj = nextAdj
         /\ req'[r].ip = req[r].ip /\ req'[r].id = req[r].id
      \/ req'[r] = Idle
  BY <1>t DEF InsertAdjustment, Finish, TypeOK, HandlerState
<1>3. TypeOK'
  <2>1. req' \in [Requests -> HandlerState]
    <3>1. CASE Finish(r)
      BY <3>1, <1>t, IdleType DEF Finish, TypeOK
    <3>2. CASE req' = [req EXCEPT ![r] = [@ EXCEPT !.pc = "insert", !.adj = nextAdj]]
      BY <3>2, <1>t DEF TypeOK, HandlerState, HandlerPC, Key
    <3>. QED
      BY <3>1, <3>2 DEF InsertAdjustment
  <2>. QED
    BY <1>t, <2>1, FaultTypes DEF InsertAdjustment, TypeOK, pollerVars, requestVars
<1>4. req[r].ip \in IPs
  BY DEF InsertAdjustment, At, IInv, ActiveIp
<1>5. /\ \A q \in Requests : req[q].adj \in Nat /\ req[q].adj < nextAdj
      /\ \A b \in adjs : b \in Nat /\ b < nextAdj
  BY DEF IInv, TypeOK, HandlerState, SequenceAhead, Key
<1>6. ActiveIp'
  BY <1>1, <1>2, <1>4, IdleType DEF IInv, ActiveIp
<1>7. SequenceAhead'
  <2>1. \A b \in adjs' : b < nextAdj'
    BY <1>5, <1>t DEF InsertAdjustment, Key
  <2>2. \A q \in Requests : req'[q].adj < nextAdj'
    BY <1>1, <1>2, <1>5, <1>t, IdleType DEF Key
  <2>. QED
    BY <2>1, <2>2 DEF SequenceAhead
<1>8. \A c \in cams : c.adj # nextAdj
  BY <1>5 DEF IInv, OwnAdjustment
<1>9. Reserved'
  <2>1. nextAdj \in adjs' /\ adjs \subseteq adjs' /\ cams' = cams
    BY DEF InsertAdjustment
  <2>. QED
    BY <1>1, <1>2, <1>5, <1>8, <2>1, IdleType DEF IInv, Reserved
<1>10. DeleteCovers' /\ OwnAdjustment' /\ RemoveEffective'
  BY <1>1, <1>2, IdleType
  DEF IInv, DeleteCovers, OwnAdjustment, RemoveEffective, InsertAdjustment
<1>. QED
  BY <1>3, <1>6, <1>7, <1>9, <1>10 DEF IInv

(* The new row takes over the adjustment that was reserved for it. *)
LEMMA InsertCameraIInv ==
  ASSUME IInv, NEW r \in Requests, InsertCamera(r)
  PROVE  IInv'
<1> DEFINE n == NewRow(r)
<1>t. TypeOK /\ req[r].ip \in IPs /\ req[r].pc = "insert"
  BY DEF IInv, ActiveIp, InsertCamera, At
<1>1. req[r].adj \in adjs /\ req[r].adj \in Key /\ \A c \in cams : c.adj # req[r].adj
  BY <1>t DEF IInv, Reserved, TypeOK
<1>2. n \in Camera /\ n.adj = req[r].adj /\ n.ip = req[r].ip
  <2>1. req[r].id \in Nat /\ nextCam \in Key
    BY DEF IInv, TypeOK, HandlerState
  <2>. QED
    BY <1>t, <1>1, <2>1 DEF NewRow, Camera, Key
<1>3. cams' = cams \cup {n} /\ UNCHANGED <<adjs, nextAdj>> /\ nextCam' \in Key
  BY <1>t DEF InsertCamera, TypeOK, Key
<1>4. /\ \A q \in Requests \ {r} : req'[q] = req[q]
      /\ \/ req'[r].pc = "signal" /\ req'[r].adj = req[r].adj /\ req'[r].ip = req[r].ip
         \/ req'[r] = Idle
  BY <1>t DEF InsertCamera, Goto, Finish, TypeOK, HandlerState
<1>5. TypeOK'
  <2>1. req' \in [Requests -> HandlerState]
    BY <1>t, IdleType DEF InsertCamera, Goto, Finish, TypeOK, HandlerState, HandlerPC
  <2>. QED
    BY <1>t, <1>2, <1>3, <2>1, FaultTypes DEF InsertCamera, TypeOK, pollerVars, requestVars
<1>6. ActiveIp' /\ SequenceAhead'
  BY <1>t, <1>3, <1>4, IdleType DEF IInv, TypeOK, Key, ActiveIp, SequenceAhead
<1>7. Reserved'
  <2>1. \A q \in Requests \ {r} : req[q].pc = "insert" => req[q].adj # req[r].adj
    BY <1>t DEF IInv, Reserved
  <2>. QED
    BY <1>2, <1>3, <1>4, <2>1, IdleType DEF IInv, Reserved
<1>8. DeleteCovers' /\ RemoveEffective'
  <2>1. \A q \in Requests \ {r} :
          req[q].pc \in {"delete", "unadjust"} => req[q].adj # req[r].adj
    BY <1>t DEF IInv, Reserved
  <2>. QED
    BY <1>2, <1>3, <1>4, <2>1, IdleType DEF IInv, DeleteCovers, RemoveEffective
<1>9. OwnAdjustment'
  BY <1>1, <1>2, <1>3 DEF IInv, OwnAdjustment
<1>. QED
  BY <1>5, <1>6, <1>7, <1>8, <1>9 DEF IInv

(* The row a remove handler finds has an adjustment nobody has reserved. *)
LEMMA FindCameraIInv ==
  ASSUME IInv, NEW r \in Requests, FindCamera(r)
  PROVE  IInv'
<1>t. TypeOK /\ req[r].ip \in IPs
  BY DEF IInv, ActiveIp, FindCamera, At
<1>1. PICK c \in Rows(req[r].ip) :
        req' = [req EXCEPT ![r] =
                  [@ EXCEPT !.pc = "delete", !.id = c.id, !.adj = c.adj]]
  BY DEF FindCamera
<1>2. c \in cams /\ c.ip = req[r].ip /\ c.id \in Nat /\ c.adj \in Nat
  BY <1>t DEF Rows, TypeOK, Camera, Key
<1>3. UNCHANGED <<cams, adjs, nextCam, nextAdj, pollerVars, faultVars, requestVars>>
  BY DEF FindCamera, dbVars
<1>4. /\ \A q \in Requests \ {r} : req'[q] = req[q]
      /\ req'[r].pc = "delete" /\ req'[r].adj = c.adj /\ req'[r].ip = req[r].ip
  BY <1>1, <1>t DEF TypeOK, HandlerState
<1>5. TypeOK'
  BY <1>1, <1>2, <1>3, <1>t 
  DEF TypeOK, HandlerState, HandlerPC, pollerVars, faultVars, requestVars
<1>6. ActiveIp' /\ SequenceAhead'
  BY <1>2, <1>3, <1>4, <1>t DEF IInv, ActiveIp, SequenceAhead, OwnAdjustment
<1>7. Reserved'
  BY <1>2, <1>3, <1>4 DEF IInv, Reserved
<1>8. \A d \in cams : d.adj = c.adj => d = c
  BY <1>2 DEF IInv, OwnAdjustment
<1>9. DeleteCovers' /\ OwnAdjustment' /\ RemoveEffective'
  BY <1>2, <1>3, <1>4, <1>8 DEF IInv, DeleteCovers, OwnAdjustment, RemoveEffective
<1>. QED
  BY <1>5, <1>6, <1>7, <1>9 DEF IInv

(* Every step of the add handler. *)
LEMMA AddIInv == ASSUME IInv, NEW r \in Requests, AddHandler(r) PROVE IInv'
<1>1. InsertConflict(r) => IInv'
  BY FinishStep DEF InsertConflict, Succeed, dbVars, IInv, TypeOK
<1>. QED
  BY <1>1, LookupIInv, InsertAdjustmentIInv, InsertCameraIInv DEF AddHandler

(* The steps of the remove handler. *)
LEMMA RemoveIInv == ASSUME IInv, NEW r \in Requests, RemoveHandler(r) PROVE IInv'
<1> USE RegistryConstants DEF IInv, TypeOK, Key, Camera, HandlerState, HandlerPC, Idle, Handler,
        ActiveIp, SequenceAhead, Reserved, DeleteCovers, OwnAdjustment,
        RemoveEffective, At, Goto, Finish, Rows, pollerVars, faultVars, requestVars, dbVars
<1>1. FindCamera(r) => IInv'
  BY FindCameraIInv
<1>2. FindNothing(r) => IInv'
  BY FaultTypes DEF FindNothing
<1>3. ASSUME DeleteCamera(r) PROVE IInv'
  <2>1. cams' = cams \ Rows(req[r].ip) /\ UNCHANGED <<adjs, nextCam, nextAdj>>
    BY <1>3 DEF DeleteCamera
  <2>2. /\ \A q \in Requests \ {r} : req'[q] = req[q]
        /\ \/ /\ req'[r].pc = "unadjust" /\ req'[r].adj = req[r].adj
              /\ req'[r].ip = req[r].ip
           \/ req'[r] = Idle
        /\ req' \in [Requests -> HandlerState]
    BY <1>3 DEF DeleteCamera
  <2>3. TypeOK'
    BY <1>3, <2>1, <2>2, FaultTypes DEF DeleteCamera
  <2>4. \A c \in cams' : c.adj # req[r].adj
    BY <1>3, <2>1 DEF DeleteCamera
  <2>5. req[r].pc = "delete"
    BY <1>3 DEF DeleteCamera
  <2>6. ActiveIp' /\ SequenceAhead'
    BY <2>1, <2>2, <2>5
  <2>7. Reserved'
    BY <2>1, <2>2, <2>5
  <2>8. DeleteCovers' /\ OwnAdjustment' /\ RemoveEffective'
    BY <2>1, <2>2, <2>4
  <2>. QED
    BY <2>3, <2>6, <2>7, <2>8
<1>4. DeleteAdjustment(r) => IInv'
  BY FaultTypes DEF DeleteAdjustment
<1>. QED
  BY <1>1, <1>2, <1>3, <1>4 DEF RemoveHandler

(* A handler that begins has an address and nothing else. *)
LEMMA ReceiveIInv ==
  ASSUME IInv, NEW r \in Requests, NEW ip \in IPs,
         Receive(r, "lookup", ip) \/ Receive(r, "find", ip)
  PROVE  IInv'
<1>1. /\ \A q \in Requests \ {r} : req'[q] = req[q]
      /\ req'[r].pc \in {"lookup", "find"} /\ req'[r].ip = ip /\ req'[r].adj = 0
  BY DEF Receive, Handler, IInv, TypeOK
<1>2. TypeOK'
  <2>1. overlapped' \in BOOLEAN
    BY Zenon DEF Receive
  <2>. QED
    BY <2>1 DEF Receive, Handler, HandlerPC, HandlerState, IInv, TypeOK, dbVars,
       pollerVars, faultVars
<1>3. 0 < nextAdj
  BY DEF IInv, TypeOK, Key
<1>. QED
  BY <1>1, <1>2, <1>3, HarmlessStep DEF Receive, dbVars, HandlerPC

(* A restart takes every handler back to the beginning. *)
LEMMA RestartIInv == ASSUME IInv, Restart PROVE IInv'
<1>1. TypeOK'
  <2>1. req' \in [Requests -> HandlerState]
    BY IdleType DEF Restart
  <2>2. /\ shouldUpdate' = FALSE /\ querying' = FALSE
        /\ loaded' = cams /\ fetched' = {} /\ restarts' = restarts + 1 /\ lost' = 0
        /\ UNCHANGED <<dbVars, refused, overlapped, served>>
    BY DEF Restart, requestVars
  <2>3. loaded' \in SUBSET Camera /\ fetched' \in SUBSET Camera
    BY <2>2 DEF IInv, TypeOK
  <2>4. shouldUpdate' \in BOOLEAN /\ querying' \in BOOLEAN
    BY <2>2
  <2>5. /\ cams' \in SUBSET Camera /\ adjs' \in SUBSET Key
        /\ nextCam' \in Key /\ nextAdj' \in Key
    BY <2>2 DEF IInv, TypeOK, dbVars
  <2>6. /\ served' \in Nat /\ overlapped' \in BOOLEAN
        /\ refused' \in Nat /\ lost' \in Nat /\ restarts' \in Nat
    BY <2>2 DEF IInv, TypeOK
  <2>. QED
    BY <2>1, <2>3, <2>4, <2>5, <2>6 DEF TypeOK
<1>2. /\ \A r \in Requests : req'[r].pc = "idle" /\ req'[r].adj = 0
      /\ UNCHANGED <<cams, adjs, nextAdj>> /\ 0 < nextAdj
  BY IdleType DEF Restart, IInv, TypeOK, Key, dbVars
<1>. QED
  BY <1>1, <1>2 DEF IInv, ActiveIp, SequenceAhead, Reserved, DeleteCovers,
     OwnAdjustment, RemoveEffective

(* The invariant is inductive. *)
LEMMA NextIInv == IInv /\ [Next]_vars => IInv'
<1> SUFFICES ASSUME IInv, [Next]_vars PROVE IInv'
  OBVIOUS
<1> USE RegistryConstants DEF IInv, TypeOK, Key, Camera, HandlerState, HandlerPC, Idle, Handler,
        ActiveIp, SequenceAhead, Reserved, DeleteCovers, OwnAdjustment,
        RemoveEffective, At, Goto, Finish, pollerVars, faultVars, requestVars, dbVars
<1>1. ASSUME NEW r \in Requests, NEW ip \in IPs
      PROVE  Receive(r, "lookup", ip) \/ Receive(r, "find", ip) => IInv'
  BY ReceiveIInv
<1>2. ASSUME NEW r \in Requests PROVE WriteRefused(r) => IInv'
  BY FaultTypes DEF WriteRefused
<1>3. ASSUME NEW r \in Requests PROVE Signal(r) => IInv'
  BY DEF Signal
<1>4. QueryCameras => IInv'
  BY DEF QueryCameras
<1>5. ASSUME StoreCameras PROVE IInv'
  <2>1. UNCHANGED <<cams, adjs, nextCam, nextAdj, req, shouldUpdate, faultVars, requestVars>>
    BY <1>5 DEF StoreCameras
  <2>2. loaded' = fetched /\ fetched' = {} /\ querying' = FALSE
    BY <1>5 DEF StoreCameras
  <2>. QED
    BY <2>1, <2>2
<1>6. Restart => IInv'
  BY RestartIInv
<1>7. UNCHANGED vars => IInv'
  BY DEF vars
<1>. QED
  BY <1>1, <1>2, <1>3, <1>4, <1>5, <1>6, <1>7, AddIInv, RemoveIInv DEF Next

(* The inductive invariant of the registry. *)
THEOREM Invariant == Spec => []IInv
  BY InitIInv, NextIInv, PTL DEF Spec

(* Type correctness of the tables, the handlers and the poller's list. *)
THEOREM TypeCorrect == Spec => []TypeOK
<1>1. IInv => TypeOK
  BY DEF IInv
<1>. QED
  BY <1>1, Invariant, PTL

(* Every camera has an adjustment, and it is its own, however handlers overlap
   and whichever of their database calls fail. *)
THEOREM CamerasOwnAdjustments == Spec => []OwnAdjustment
<1>1. IInv => OwnAdjustment
  BY DEF IInv
<1>. QED
  BY <1>1, Invariant, PTL

(* A remove handler that has passed its delete has removed the row it found. *)
THEOREM RemovesAreEffective == Spec => []RemoveEffective
<1>1. IInv => RemoveEffective
  BY DEF IInv
<1>. QED
  BY <1>1, Invariant, PTL
-----------------------------------------------------------------------------
(* What handlers that do not overlap guarantee in addition. *)

(* One handler at a time. *)
Alone ==
  ~overlapped =>
    \A q, r \in Requests : req[q].pc # "idle" /\ req[r].pc # "idle" => q = r

(* What the lookup did not find is still not there. *)
LookupCurrent ==
  ~overlapped /\ refused = 0 =>
    \A r \in Requests : req[r].pc \in {"adjust", "insert"} => Rows(req[r].ip) = {}

SeqInv == Alone /\ LookupCurrent /\ UniqueUnlessRaced

(* Initially there is nothing. *)
LEMMA InitSeqInv == Init => SeqInv
BY IdleType DEF Init, SeqInv, Alone, LookupCurrent, UniqueUnlessRaced, UniqueIp, Rows

(* A step by which handler r adds no row, and comes to no insert it was not on the
   way to. *)
LEMMA QuietStep ==
  ASSUME TypeOK, TypeOK', SeqInv, NEW r \in Requests,
         cams' \subseteq cams, overlapped' = overlapped, refused' >= refused,
         \A q \in Requests \ {r} : req'[q] = req[q],
         req[r].pc # "idle",
         req'[r].pc \in {"adjust", "insert"} =>
           req[r].pc = "adjust" /\ req'[r].ip = req[r].ip
  PROVE  SeqInv'
<1>1. refused' = 0 => refused = 0
  BY DEF TypeOK
<1>2. Alone'
  BY DEF SeqInv, Alone
<1>3. LookupCurrent'
  BY <1>1 DEF SeqInv, LookupCurrent, Rows
<1>4. UniqueUnlessRaced'
  BY <1>1 DEF SeqInv, UniqueUnlessRaced, UniqueIp
<1>. QED
  BY <1>2, <1>3, <1>4 DEF SeqInv

(* The same for a step that no handler takes. *)
LEMMA IdleStep ==
  ASSUME SeqInv, UNCHANGED <<cams, overlapped, refused>>,
         req' = req \/ (\A r \in Requests : req'[r].pc = "idle")
  PROVE  SeqInv'
BY DEF SeqInv, Alone, LookupCurrent, UniqueUnlessRaced, UniqueIp, Rows

(* A lookup goes on only without a row, unless a call has failed. *)
LEMMA LookupSeq ==
  ASSUME TypeOK, TypeOK', SeqInv, NEW r \in Requests,
         LookupMissing(r) \/ LookupAmbiguous(r)
  PROVE  SeqInv'
<1>1. /\ \A q \in Requests \ {r} : req'[q] = req[q]
      /\ req'[r].pc = "adjust" /\ req'[r].ip = req[r].ip /\ req[r].pc = "lookup"
      /\ UNCHANGED <<cams, overlapped>>
  BY DEF LookupMissing, LookupAmbiguous, Goto, At, TypeOK, HandlerState, dbVars, requestVars
<1>2. ~overlapped /\ refused' = 0 => refused = 0 /\ Rows(req[r].ip) = {}
  <2>1. CASE LookupMissing(r)
    BY <2>1 DEF LookupMissing, Succeed, Refuse, TypeOK, faultVars
  <2>2. CASE LookupAmbiguous(r)
    <3>1. Cardinality(Rows(req[r].ip)) > 1 /\ refused' = refused
      BY <2>2 DEF LookupAmbiguous, faultVars
    <3>2. ASSUME ~overlapped, refused = 0, NEW c \in Rows(req[r].ip) PROVE FALSE
      <4>1. Rows(req[r].ip) = {c}
        BY <3>2 DEF SeqInv, UniqueUnlessRaced, UniqueIp, Rows
      <4>. QED
        BY <4>1, <3>1, FS_Singleton
    <3>. QED
      BY <3>1, <3>2
  <2>. QED
    BY <2>1, <2>2
<1>3. Alone'
  BY <1>1 DEF SeqInv, Alone
<1>4. LookupCurrent'
  BY <1>1, <1>2 DEF SeqInv, LookupCurrent, Rows
<1>5. UniqueUnlessRaced'
  BY <1>1, <1>2 DEF SeqInv, UniqueUnlessRaced, UniqueIp
<1>. QED
  BY <1>3, <1>4, <1>5 DEF SeqInv

(* The insert adds the only row of its address. *)
LEMMA InsertSeq ==
  ASSUME TypeOK, TypeOK', SeqInv, NEW r \in Requests, InsertCamera(r)
  PROVE  SeqInv'
<1>1. /\ \A q \in Requests \ {r} : req'[q] = req[q]
      /\ req'[r].pc \in {"signal", "idle"} /\ req[r].pc = "insert"
  BY IdleType DEF InsertCamera, Goto, Finish, At, TypeOK, HandlerState
<1>2. cams' = cams \cup {NewRow(r)} /\ NewRow(r).ip = req[r].ip /\ overlapped' = overlapped
  BY DEF InsertCamera, NewRow, requestVars
<1>3. refused' = refused
  BY DEF InsertCamera, Succeed, LoseAnswer, faultVars
<1>4. Alone'
  BY <1>1, <1>2 DEF SeqInv, Alone
<1>5. ~overlapped => \A q \in Requests \ {r} : req'[q].pc = "idle"
  BY <1>1 DEF SeqInv, Alone
<1>6. LookupCurrent'
  BY <1>1, <1>2, <1>5 DEF LookupCurrent
<1>7. UniqueUnlessRaced'
  BY <1>1, <1>2, <1>3 DEF SeqInv, LookupCurrent, UniqueUnlessRaced, UniqueIp, Rows
<1>. QED
  BY <1>4, <1>6, <1>7 DEF SeqInv

(* A handler that starts alone starts with an address and without a result. *)
LEMMA ReceiveSeq ==
  ASSUME TypeOK, SeqInv, NEW r \in Requests, NEW ip \in IPs,
         Receive(r, "lookup", ip) \/ Receive(r, "find", ip)
  PROVE  SeqInv'
<1>1. /\ \A q \in Requests \ {r} : req'[q] = req[q]
      /\ req'[r].pc \in {"lookup", "find"}
      /\ UNCHANGED <<cams, refused>>
  BY DEF Receive, Handler, TypeOK, dbVars, faultVars
<1>2. ~overlapped' => ~overlapped /\ \A q \in Requests : req[q].pc = "idle"
  BY Zenon DEF Receive, At
<1>. QED
  BY <1>1, <1>2 DEF SeqInv, Alone, LookupCurrent, UniqueUnlessRaced, UniqueIp, Rows

(* The remaining steps of a handler add no row and look nothing up. *)
LEMMA QuietSeq ==
  ASSUME TypeOK, TypeOK', SeqInv, NEW r \in Requests,
         \/ LookupFound(r) \/ InsertAdjustment(r) \/ InsertConflict(r)
         \/ RemoveHandler(r) \/ WriteRefused(r) \/ Signal(r)
  PROVE  SeqInv'
<1>1. CASE LookupFound(r) \/ InsertConflict(r) \/ FindNothing(r) \/ WriteRefused(r)
            \/ Signal(r)
  <2>1. /\ cams' = cams /\ overlapped' = overlapped /\ req[r].pc # "idle"
        /\ refused' >= refused
    BY <1>1 DEF LookupFound, InsertConflict, FindNothing, WriteRefused, Signal, At, dbVars,
       requestVars, faultVars, Succeed, Refuse, TypeOK
  <2>2. Finish(r)
    BY <1>1 DEF LookupFound, InsertConflict, FindNothing, WriteRefused, Signal
  <2>3. req'[r].pc = "idle" /\ \A q \in Requests \ {r} : req'[q] = req[q]
    BY <2>2, IdleType DEF Finish, TypeOK
  <2>. QED
    BY <2>1, <2>3, QuietStep
<1>2. CASE InsertAdjustment(r)
  <2>1. /\ cams' = cams /\ overlapped' = overlapped /\ req[r].pc = "adjust"
        /\ refused' >= refused
    BY <1>2 DEF InsertAdjustment, At, requestVars, faultVars, Succeed, LoseAnswer, TypeOK
  <2>2. /\ \A q \in Requests \ {r} : req'[q] = req[q]
        /\ \/ req'[r].pc = "idle"
           \/ req'[r].pc = "insert" /\ req'[r].ip = req[r].ip
    <3>1. CASE req' = [req EXCEPT ![r] = [@ EXCEPT !.pc = "insert", !.adj = nextAdj]]
      BY <3>1 DEF TypeOK, HandlerState
    <3>2. CASE Finish(r)
      BY <3>2, IdleType DEF Finish, TypeOK
    <3>. QED
      BY <1>2, <3>1, <3>2 DEF InsertAdjustment
  <2>. QED
    BY <2>1, <2>2, QuietStep
<1>3. CASE FindCamera(r)
  <2>1. /\ cams' = cams /\ overlapped' = overlapped /\ req[r].pc = "find"
        /\ refused' >= refused
    BY <1>3 DEF FindCamera, At, dbVars, requestVars, faultVars, TypeOK
  <2>2. /\ \A q \in Requests \ {r} : req'[q] = req[q]
        /\ req'[r].pc = "delete"
    BY <1>3 DEF FindCamera, TypeOK, HandlerState
  <2>. QED
    BY <2>1, <2>2, QuietStep
<1>4. CASE DeleteCamera(r) \/ DeleteAdjustment(r)
  <2>1. /\ cams' \subseteq cams /\ overlapped' = overlapped /\ req[r].pc # "idle"
        /\ refused' >= refused
    BY <1>4 DEF DeleteCamera, DeleteAdjustment, At, requestVars, faultVars, Succeed,
       Refuse, LoseAnswer, TypeOK
  <2>2. /\ \A q \in Requests \ {r} : req'[q] = req[q]
        /\ req'[r].pc \in {"unadjust", "signal", "idle"}
    BY <1>4, IdleType DEF DeleteCamera, DeleteAdjustment, Goto, Finish, TypeOK, HandlerState
  <2>. QED
    BY <2>1, <2>2, QuietStep
<1>. QED
  BY <1>1, <1>2, <1>3, <1>4 DEF RemoveHandler

(* The sequential invariant is inductive, given the types. *)
LEMMA NextSeqInv == TypeOK /\ TypeOK' /\ SeqInv /\ [Next]_vars => SeqInv'
<1> SUFFICES ASSUME TypeOK, TypeOK', SeqInv, [Next]_vars PROVE SeqInv'
  OBVIOUS
<1>1. QueryCameras \/ StoreCameras \/ Restart \/ UNCHANGED vars => SeqInv'
  BY IdleStep, IdleType
  DEF QueryCameras, StoreCameras, Restart, vars, dbVars, faultVars, requestVars
<1>. QED
  BY <1>1, LookupSeq, InsertSeq, ReceiveSeq, QuietSeq DEF Next, AddHandler

(* Addresses are unique as long as handlers do not overlap and no call is refused,
   whatever answers are lost and whenever the process ends. *)
THEOREM SequentiallyUnique == Spec => []UniqueUnlessRaced
<1>1. SeqInv => UniqueUnlessRaced
  BY DEF SeqInv
<1>. QED
  BY <1>1, InitSeqInv, NextSeqInv, TypeCorrect, PTL DEF Spec
-----------------------------------------------------------------------------
(* The flag is never cleared: what a query is about to store is followed by another. *)
QueryFollowed == querying => shouldUpdate

(* A handler commits on its way to the flag, unless the answer is lost. *)
LEMMA HandlerSignals ==
  ASSUME TypeOK, QueryFollowed, ChangeSignalled, NEW r \in Requests,
         AddHandler(r) \/ RemoveHandler(r) \/ WriteRefused(r)
  PROVE  QueryFollowed' /\ ChangeSignalled'
<1>1. UNCHANGED pollerVars
  BY DEF AddHandler, RemoveHandler, WriteRefused, LookupFound, LookupMissing, LookupAmbiguous,
     InsertAdjustment, InsertCamera, InsertConflict, FindCamera, FindNothing, DeleteCamera,
     DeleteAdjustment
<1>2. ASSUME lost' = 0, \A q \in Requests : req'[q].pc \notin {"unadjust", "signal"}
      PROVE  /\ cams' = cams /\ lost = 0
             /\ \A q \in Requests : req[q].pc \notin {"unadjust", "signal"}
  <2>1. \A q \in Requests \ {r} : req'[q] = req[q]
    <3>1. CASE LookupFound(r) \/ FindNothing(r) \/ InsertConflict(r) \/ WriteRefused(r)
      BY <3>1 DEF LookupFound, FindNothing, InsertConflict, WriteRefused, Finish, TypeOK
    <3>2. CASE LookupMissing(r) \/ DeleteAdjustment(r)
      BY <3>2 DEF LookupMissing, DeleteAdjustment, Goto, TypeOK
    <3>3. CASE InsertCamera(r) \/ DeleteCamera(r)
      BY <3>3 DEF InsertCamera, DeleteCamera, Goto, Finish, TypeOK
    <3>4. CASE LookupAmbiguous(r)
      BY <3>4 DEF LookupAmbiguous, TypeOK
    <3>5. CASE FindCamera(r)
      BY <3>5 DEF FindCamera, TypeOK
    <3>6. CASE InsertAdjustment(r)
      <4>1. \/ req' = [req EXCEPT ![r] = [@ EXCEPT !.pc = "insert", !.adj = nextAdj]]
            \/ req' = [req EXCEPT ![r] = Idle]
        BY <3>6 DEF InsertAdjustment, Finish
      <4>. QED
        BY <4>1 DEF TypeOK
    <3>. QED
      BY <3>1, <3>2, <3>3, <3>4, <3>5, <3>6 DEF AddHandler, RemoveHandler
  <2>2. CASE InsertCamera(r) \/ DeleteCamera(r) \/ DeleteAdjustment(r)
    BY <1>2, <2>2 DEF InsertCamera, DeleteCamera, DeleteAdjustment, Goto, LoseAnswer, TypeOK,
       HandlerState
  <2>3. CASE ~(InsertCamera(r) \/ DeleteCamera(r) \/ DeleteAdjustment(r))
    <3>1. cams' = cams /\ req[r].pc \notin {"unadjust", "signal"}
      BY <2>3 DEF AddHandler, RemoveHandler, WriteRefused, LookupFound, LookupMissing,
         LookupAmbiguous, InsertAdjustment, InsertConflict, FindCamera, FindNothing, At, dbVars
    <3>2. lost' = lost \/ lost' = lost + 1
      <4>1. CASE LookupFound(r) \/ LookupMissing(r) \/ LookupAmbiguous(r)
        BY <4>1 DEF LookupFound, LookupMissing, LookupAmbiguous, Succeed, Refuse, faultVars
      <4>2. CASE InsertAdjustment(r) \/ InsertConflict(r)
        BY <4>2 DEF InsertAdjustment, InsertConflict, Succeed, LoseAnswer, faultVars
      <4>3. CASE FindCamera(r) \/ FindNothing(r) \/ WriteRefused(r)
        BY <4>3 DEF FindCamera, FindNothing, WriteRefused, Succeed, Refuse, faultVars
      <4>. QED
        BY <2>3, <4>1, <4>2, <4>3 DEF AddHandler, RemoveHandler
    <3>3. lost = 0
      BY <1>2, <3>2 DEF TypeOK
    <3>. QED
      BY <1>2, <2>1, <3>1, <3>3
  <2>. QED
    BY <2>2, <2>3
<1>. QED
  BY <1>1, <1>2 DEF QueryFollowed, ChangeSignalled, pollerVars

LEMMA NextSignalled ==
  TypeOK /\ QueryFollowed /\ ChangeSignalled /\ [Next]_vars => QueryFollowed' /\ ChangeSignalled'
<1> SUFFICES ASSUME TypeOK, QueryFollowed, ChangeSignalled, [Next]_vars
             PROVE  QueryFollowed' /\ ChangeSignalled'
  OBVIOUS
<1>1. ASSUME NEW r \in Requests, Signal(r) PROVE QueryFollowed' /\ ChangeSignalled'
  BY <1>1 DEF Signal, QueryFollowed, ChangeSignalled
<1>2. ASSUME NEW r \in Requests, NEW ip \in IPs,
             Receive(r, "lookup", ip) \/ Receive(r, "find", ip)
      PROVE  QueryFollowed' /\ ChangeSignalled'
  <2>1. \A q \in Requests :
          req'[q].pc \notin {"unadjust", "signal"} => req[q].pc \notin {"unadjust", "signal"}
    BY <1>2 DEF Receive, At, TypeOK
  <2>. QED
    BY <1>2, <2>1 DEF Receive, dbVars, pollerVars, faultVars, QueryFollowed, ChangeSignalled
<1>3. CASE QueryCameras \/ StoreCameras
  BY <1>3 DEF QueryCameras, StoreCameras, dbVars, faultVars, QueryFollowed, ChangeSignalled
<1>4. CASE Restart
  BY <1>4 DEF Restart, dbVars, QueryFollowed, ChangeSignalled
<1>5. CASE UNCHANGED vars
  BY <1>5 DEF vars, dbVars, pollerVars, faultVars, QueryFollowed, ChangeSignalled
<1>. QED
  BY <1>1, <1>2, <1>3, <1>4, <1>5, HandlerSignals DEF Next

(* The poller's list is the table, or will be fetched again, whatever handlers overlap and
   whichever calls are refused, unless an answer was lost. *)
THEOREM ChangesAreSignalled == Spec => []ChangeSignalled
<1>1. Init => QueryFollowed /\ ChangeSignalled
  BY DEF Init, QueryFollowed, ChangeSignalled
<1>2. Spec => [](QueryFollowed /\ ChangeSignalled)
  BY <1>1, NextSignalled, TypeCorrect, PTL DEF Spec
<1>. QED
  BY <1>2, PTL
-----------------------------------------------------------------------------
(* Nothing has gone wrong yet. *)
Smooth == ~overlapped /\ refused = 0 /\ lost = 0 /\ restarts = 0

(* Then the keys of the sequence are new, every adjustment is a camera's or in the hands
   of the handler that will store it with one or remove it, and a remover's row is there. *)
Balanced ==
  Smooth =>
    /\ \A c \in cams : c.id < nextCam
    /\ \A r \in Requests : req[r].pc \in {"lookup", "adjust", "insert"} => req[r].id = 0
    /\ \A r \in Requests : req[r].pc = "delete" =>
         \E c \in cams : c.ip = req[r].ip /\ c.adj = req[r].adj
    /\ \A a \in adjs :
         \/ \E c \in cams : c.adj = a
         \/ \E r \in Requests : req[r].pc \in {"insert", "unadjust"} /\ req[r].adj = a

(* Faults are never forgotten within a process, nor its restarts. *)
LEMMA SmoothBack == TypeOK /\ [Next]_vars /\ Smooth' => Smooth
<1> SUFFICES ASSUME TypeOK, [Next]_vars, Smooth' PROVE Smooth
  OBVIOUS
<1>1. ASSUME Succeed \/ Refuse \/ LoseAnswer, overlapped' = overlapped PROVE Smooth
  BY <1>1 DEF Succeed, Refuse, LoseAnswer, faultVars, TypeOK, Smooth
<1>2. ASSUME NEW r \in Requests, AddHandler(r) PROVE Smooth
  <2>1. CASE LookupFound(r) \/ LookupMissing(r) \/ LookupAmbiguous(r)
    BY <1>1, <2>1 DEF LookupFound, LookupMissing, LookupAmbiguous, requestVars, Succeed
  <2>2. CASE InsertAdjustment(r) \/ InsertCamera(r) \/ InsertConflict(r)
    BY <1>1, <2>2 DEF InsertAdjustment, InsertCamera, InsertConflict, requestVars, Succeed
  <2>. QED
    BY <1>2, <2>1, <2>2 DEF AddHandler
<1>3. ASSUME NEW r \in Requests, RemoveHandler(r) PROVE Smooth
  BY <1>1, <1>3 DEF RemoveHandler, FindCamera, FindNothing, DeleteCamera, DeleteAdjustment,
     requestVars, Succeed
<1>4. ASSUME NEW r \in Requests, WriteRefused(r) \/ Signal(r) PROVE Smooth
  BY <1>1, <1>4 DEF WriteRefused, Signal, requestVars, Succeed
<1>5. ASSUME NEW r \in Requests, NEW ip \in IPs,
             Receive(r, "lookup", ip) \/ Receive(r, "find", ip)
      PROVE  Smooth
  BY <1>5 DEF Receive, faultVars, Smooth
<1>6. QueryCameras \/ StoreCameras \/ UNCHANGED vars => Smooth
  BY DEF QueryCameras, StoreCameras, vars, faultVars, requestVars, Smooth
<1>7. ~Restart
  BY DEF Restart, Smooth, TypeOK
<1>. QED
  BY <1>2, <1>3, <1>4, <1>5, <1>6, <1>7 DEF Next

(* A step by which handler r touches no table and neither takes nor drops an adjustment. *)
LEMMA BalancedStep ==
  ASSUME TypeOK, Balanced, Smooth, NEW r \in Requests,
         UNCHANGED <<cams, adjs, nextCam>>,
         \A q \in Requests \ {r} : req'[q] = req[q],
         req[r].pc \notin {"insert", "unadjust"},
         \/ req'[r].pc \in {"idle", "signal"}
         \/ req'[r].pc \in {"lookup", "find"} /\ req'[r].id = 0
         \/ req[r].pc = "lookup" /\ req'[r].pc = "adjust" /\ req'[r].id = req[r].id
  PROVE  Balanced'
BY DEF Balanced

(* The steps of the add handler. *)
LEMMA AddBalanced ==
  ASSUME IInv, IInv', SeqInv, Balanced, Smooth, Smooth', NEW r \in Requests, AddHandler(r)
  PROVE  Balanced'
<1>1. CASE LookupFound(r)
  BY <1>1, IdleType, BalancedStep DEF LookupFound, At, Finish, dbVars, IInv, TypeOK
<1>2. CASE LookupMissing(r)
  BY <1>2, BalancedStep DEF LookupMissing, At, Goto, dbVars, IInv, TypeOK, HandlerState
<1>3. CASE LookupAmbiguous(r)
  <2>1. PICK c \in Rows(req[r].ip) : TRUE
    BY <1>3 DEF LookupAmbiguous
  <2>2. Rows(req[r].ip) = {c}
    BY <2>1 DEF SeqInv, UniqueUnlessRaced, UniqueIp, Rows, Smooth
  <2>. QED
    BY <1>3, <2>2, FS_Singleton DEF LookupAmbiguous
<1>4. CASE InsertAdjustment(r)
  <2>1. req' = [req EXCEPT ![r] = [@ EXCEPT !.pc = "insert", !.adj = nextAdj]]
    BY <1>4 DEF InsertAdjustment, LoseAnswer, Smooth, IInv, TypeOK
  <2>2. /\ req'[r].pc = "insert" /\ req'[r].adj = nextAdj /\ req'[r].id = req[r].id
        /\ req[r].pc = "adjust"
        /\ \A q \in Requests \ {r} : req'[q] = req[q]
    BY <1>4, <2>1 DEF InsertAdjustment, At, IInv, TypeOK, HandlerState
  <2>3. cams' = cams /\ nextCam' = nextCam /\ adjs' = adjs \cup {nextAdj}
    BY <1>4 DEF InsertAdjustment
  <2>. QED
    BY <2>2, <2>3 DEF Balanced
<1>5. CASE InsertCamera(r)
  <2>1. req' = [req EXCEPT ![r].pc = "signal"]
    BY <1>5 DEF InsertCamera, Goto, LoseAnswer, Smooth, IInv, TypeOK
  <2>2. /\ req'[r].pc = "signal" /\ req[r].pc = "insert"
        /\ \A q \in Requests \ {r} : req'[q] = req[q]
    BY <1>5, <2>1 DEF InsertCamera, At, IInv, TypeOK, HandlerState
  <2>3. NewRow(r).id = nextCam /\ NewRow(r).adj = req[r].adj /\ nextCam' = nextCam + 1
    BY <1>5, <2>2 DEF InsertCamera, NewRow, Balanced
  <2>4. cams' = cams \cup {NewRow(r)} /\ adjs' = adjs
    BY <1>5 DEF InsertCamera
  <2>5. \A c \in cams' : c.id < nextCam'
    BY <2>3, <2>4 DEF Balanced, IInv, TypeOK, Camera, Key
  <2>6. \A q \in Requests : req'[q].pc = "delete" =>
          \E c \in cams' : c.ip = req'[q].ip /\ c.adj = req'[q].adj
    BY <2>2, <2>4 DEF Balanced
  <2>7. \A a \in adjs' :
          \/ \E c \in cams' : c.adj = a
          \/ \E q \in Requests : req'[q].pc \in {"insert", "unadjust"} /\ req'[q].adj = a
    BY <2>2, <2>3, <2>4 DEF Balanced
  <2>. QED
    BY <2>2, <2>5, <2>6, <2>7 DEF Balanced
<1>6. ~InsertConflict(r)
  <2>1. ASSUME req[r].pc = "insert" PROVE NewRow(r).id = nextCam
    BY <2>1 DEF NewRow, Balanced
  <2>. QED
    BY <2>1 DEF InsertConflict, At, Balanced, IInv, TypeOK, Camera, Key
<1>. QED
  BY <1>1, <1>2, <1>3, <1>4, <1>5, <1>6 DEF AddHandler

(* The steps of the remove handler. *)
LEMMA RemoveBalanced ==
  ASSUME IInv, IInv', SeqInv, Balanced, Smooth, Smooth', NEW r \in Requests, RemoveHandler(r)
  PROVE  Balanced'
<1>1. CASE FindNothing(r)
  BY <1>1, IdleType, BalancedStep DEF FindNothing, At, Finish, dbVars, IInv, TypeOK
<1>2. CASE FindCamera(r)
  <2>1. PICK c \in Rows(req[r].ip) :
          req' = [req EXCEPT ![r] = [@ EXCEPT !.pc = "delete", !.id = c.id, !.adj = c.adj]]
    BY <1>2 DEF FindCamera
  <2>2. /\ req'[r].pc = "delete" /\ req'[r].ip = req[r].ip /\ req'[r].adj = c.adj
        /\ req[r].pc = "find"
        /\ \A q \in Requests \ {r} : req'[q] = req[q]
    BY <1>2, <2>1 DEF FindCamera, At, IInv, TypeOK, HandlerState
  <2>3. c \in cams /\ c.ip = req[r].ip
    BY <2>1 DEF Rows
  <2>4. UNCHANGED <<cams, adjs, nextCam>>
    BY <1>2 DEF FindCamera, dbVars
  <2>. QED
    BY <2>2, <2>3, <2>4 DEF Balanced
<1>3. CASE DeleteCamera(r)
  <2>1. req' = [req EXCEPT ![r].pc = "unadjust"]
    BY <1>3 DEF DeleteCamera, Goto, LoseAnswer, Smooth, IInv, TypeOK
  <2>2. /\ req'[r].pc = "unadjust" /\ req'[r].adj = req[r].adj /\ req[r].pc = "delete"
        /\ \A q \in Requests \ {r} : req'[q] = req[q]
    BY <1>3, <2>1 DEF DeleteCamera, At, IInv, TypeOK, HandlerState
  <2>3. /\ cams' = cams \ Rows(req[r].ip)
        /\ UNCHANGED <<adjs, nextCam>>
    BY <1>3 DEF DeleteCamera
  <2>4. \A c \in Rows(req[r].ip) : c.adj = req[r].adj
    BY <2>2 DEF Balanced, SeqInv, UniqueUnlessRaced, UniqueIp, Rows, Smooth
  <2>5. \A q \in Requests \ {r} : req[q].pc = "idle"
    BY <2>2 DEF SeqInv, Alone, Smooth
  <2>6. \A c \in cams' : c.id < nextCam'
    BY <2>3 DEF Balanced
  <2>7. \A a \in adjs' :
          \/ \E c \in cams' : c.adj = a
          \/ \E q \in Requests : req'[q].pc \in {"insert", "unadjust"} /\ req'[q].adj = a
    BY <2>2, <2>3, <2>4, <2>5 DEF Balanced
  <2>. QED
    BY <2>2, <2>5, <2>6, <2>7 DEF Balanced
<1>4. CASE DeleteAdjustment(r)
  <2>1. adjs' = adjs \ {req[r].adj}
    BY <1>4 DEF DeleteAdjustment, Refuse, Smooth, IInv, TypeOK
  <2>2. /\ req'[r].pc = "signal" /\ req[r].pc = "unadjust"
        /\ \A q \in Requests \ {r} : req'[q] = req[q]
    BY <1>4 DEF DeleteAdjustment, At, Goto, IInv, TypeOK, HandlerState
  <2>3. cams' = cams /\ nextCam' = nextCam
    BY <1>4 DEF DeleteAdjustment
  <2>. QED
    BY <2>1, <2>2, <2>3 DEF Balanced
<1>. QED
  BY <1>1, <1>2, <1>3, <1>4 DEF RemoveHandler

LEMMA NextBalanced ==
  IInv /\ IInv' /\ SeqInv /\ Balanced /\ [Next]_vars => Balanced'
<1> SUFFICES ASSUME IInv, IInv', SeqInv, Balanced, [Next]_vars, Smooth'
             PROVE  Balanced'
  BY DEF Balanced
<1>1. Smooth
  BY SmoothBack DEF IInv
<1>2. ASSUME NEW r \in Requests, Signal(r) PROVE Balanced'
  BY <1>1, <1>2, IdleType, BalancedStep DEF Signal, At, Finish, dbVars, IInv, TypeOK
<1>3. ASSUME NEW r \in Requests, WriteRefused(r) PROVE FALSE
  BY <1>1, <1>3 DEF WriteRefused, Refuse, Smooth, IInv, TypeOK
<1>4. ASSUME NEW r \in Requests, NEW ip \in IPs,
             Receive(r, "lookup", ip) \/ Receive(r, "find", ip)
      PROVE  Balanced'
  BY <1>1, <1>4, BalancedStep DEF Receive, At, Handler, dbVars, IInv, TypeOK
<1>5. QueryCameras \/ StoreCameras \/ UNCHANGED vars => Balanced'
  BY <1>1 DEF QueryCameras, StoreCameras, vars, dbVars, Balanced
<1>6. ~Restart
  BY <1>1 DEF Restart, Smooth, IInv, TypeOK
<1>. QED
  BY <1>1, <1>2, <1>3, <1>4, <1>5, <1>6, AddBalanced, RemoveBalanced DEF Next

(* As long as nothing goes wrong, the adjustments between requests are the cameras',
   after any sequence of adds and removes. *)
THEOREM SequentiallyClean == Spec => []NoOrphans
<1>1. Init => Balanced
  BY IdleType DEF Init, Balanced
<1>2. IInv /\ Balanced => NoOrphans
  BY DEF IInv, OwnAdjustment, Balanced, Smooth, NoOrphans
<1>3. IInv => TypeOK
  BY DEF IInv
<1>. QED
  BY <1>1, <1>2, <1>3, Invariant, InitSeqInv, NextSeqInv, NextBalanced, PTL DEF Spec
-----------------------------------------------------------------------------
(* CameraSystem implements CameraRegistry.  An answered query is kept only in the
   middle of a refresh, and the list of a process that is down is the table. *)
QueryInRefresh == querying => pc = "refresh"
DownCurrent    == pc = "down" => loaded = cams

(* The poller's and the workers' own steps touch nothing of the handlers'. *)
LEMMA OwnSteps ==
  ASSUME \/ PollerMoves \/ CancelRoot \/ QueryFails
         \/ \E w \in Workers : WorkerMoves(w)
  PROVE  UNCHANGED vars
<1>1. UNCHANGED handlerVars /\ UNCHANGED <<cams, shouldUpdate, loaded>>
  <2>1. CASE CancelRoot \/ QueryFails
    BY <2>1 DEF CancelRoot, QueryFails, L!CancelRoot, L!RefreshFails, L!dbVars, L!pollerVars
  <2>2. ASSUME NEW w \in Workers, WorkerMoves(w)
        PROVE  UNCHANGED handlerVars /\ UNCHANGED <<cams, shouldUpdate, loaded>>
    BY <2>2 DEF WorkerMoves, L!PollStep, L!DialFails, L!Connect, L!Terminate,
       L!DeadlineExceeded, L!ReadFrame, L!FrameDone, L!Exit, L!Move, L!dbVars, L!pollerVars
  <2>3. CASE PollerMoves
    BY <2>3 DEF PollerMoves, L!Tick, L!StopPoller, L!CreateWorker, L!RestartWorker,
       L!SkipWorker, L!EnsureDone, L!KeepWorker, L!ReapWorker, L!ReapDone, L!dbVars
  <2>. QED
    BY <2>1, <2>2, <2>3
<1>. QED
  BY <1>1 DEF handlerVars, vars, dbVars, pollerVars

(* NewCameraPoller reads what the list of a process that is down already is. *)
LEMMA BootStep == ASSUME DownCurrent, Boot PROVE UNCHANGED vars
BY DEF DownCurrent, Boot, L!Boot, L!BootCameras, L!dbVars, handlerVars, vars, dbVars,
   pollerVars

(* Every step of the system is one of the registry, or none. *)
LEMMA SystemStep == ASSUME DownCurrent, [SysNext]_sysVars PROVE [Next]_vars
<1>1. ASSUME NEW r \in Requests, Commit(r) \/ Serve(r) \/ SetFlag(r) PROVE Next
  BY <1>1 DEF Commit, Serve, SetFlag, Next, AddHandler, RemoveHandler
<1>2. QueryAnswered \/ QueryStored \/ ProcessDies => Next
  BY DEF QueryAnswered, QueryStored, ProcessDies, Next
<1>3. UNCHANGED sysVars => UNCHANGED vars
  BY DEF sysVars
<1>. QED
  BY <1>1, <1>2, <1>3, OwnSteps, BootStep DEF SysNext

LEMMA NextDown ==
  ASSUME DownCurrent, [SysNext]_sysVars
  PROVE  DownCurrent'
<1>1. ASSUME NEW r \in Requests, Commit(r) \/ Serve(r) \/ SetFlag(r) PROVE pc' # "down"
  BY <1>1 DEF Commit, Serve, SetFlag, L!Up, ownVars
<1>2. QueryAnswered \/ QueryStored => pc' # "down"
  BY DEF QueryAnswered, QueryStored, ownVars
<1>3. ProcessDies => DownCurrent'
  BY DEF ProcessDies, Restart, dbVars, DownCurrent
<1>4. Boot => pc' # "down"
  BY DEF Boot, L!Boot
<1>5. QueryFails \/ CancelRoot \/ PollerMoves => pc' # "down"
  BY DEF QueryFails, CancelRoot, PollerMoves, L!RefreshFails, L!CancelRoot, L!Up, L!pollerVars,
     L!Tick, L!StopPoller, L!CreateWorker, L!RestartWorker, L!SkipWorker, L!EnsureDone,
     L!KeepWorker, L!ReapWorker, L!ReapDone
<1>6. ASSUME NEW w \in Workers, WorkerMoves(w) PROVE pc' = pc
  BY <1>6 DEF WorkerMoves, L!PollStep, L!DialFails, L!Connect, L!Terminate,
     L!DeadlineExceeded, L!ReadFrame, L!FrameDone, L!Exit, L!Move, L!pollerVars
<1>7. (\E w \in Workers : WorkerMoves(w)) => DownCurrent'
  BY <1>6, OwnSteps DEF vars, dbVars, pollerVars, DownCurrent
<1>8. UNCHANGED sysVars => DownCurrent'
  BY DEF sysVars, ownVars, vars, dbVars, pollerVars, DownCurrent
<1>. QED
  BY <1>1, <1>2, <1>3, <1>4, <1>5, <1>7, <1>8 DEF SysNext, DownCurrent

(* To the handlers and the table, the poller that CameraPoller describes does no more
   than the two steps CameraRegistry has of it. *)
THEOREM ImplementsRegistry == SysSpec => Spec
<1>1. SysInit => Init /\ DownCurrent
  BY DEF SysInit, Init, DownCurrent
<1>2. SysSpec => []DownCurrent
  BY <1>1, NextDown, PTL DEF SysSpec
<1>. QED
  BY <1>1, <1>2, SystemStep, PTL DEF SysSpec, Spec

(* What CameraRegistry shows of the table holds with the poller at work on it. *)
THEOREM SystemKeepsTable ==
  SysSpec => [](/\ OwnAdjustment /\ RemoveEffective /\ ChangeSignalled
                /\ UniqueUnlessRaced /\ NoOrphans)
<1>1. IInv => OwnAdjustment /\ RemoveEffective
  BY DEF IInv
<1>. QED
  BY <1>1, ImplementsRegistry, Invariant, ChangesAreSignalled, SequentiallyUnique,
     SequentiallyClean, PTL
-----------------------------------------------------------------------------
(* CameraSystem implements CameraPoller.  A handler on its way to the flag has a
   commit behind it that no other has. *)
Owing == {r \in Requests : req[r].pc \in {"unadjust", "signal"}}

FlagOwed == owed \in Nat /\ IsFiniteSet(Owing) /\ Cardinality(Owing) <= owed

SInv == QueryInRefresh /\ DownCurrent /\ FlagOwed

(* Fewer debtors owe no more. *)
LEMMA OwingShrinks ==
  ASSUME FlagOwed, Owing' \subseteq Owing, owed' = owed PROVE FlagOwed'
<1>1. IsFiniteSet(Owing') /\ Cardinality(Owing') <= Cardinality(Owing)
  BY FS_Subset DEF FlagOwed
<1>2. Cardinality(Owing') \in Nat /\ Cardinality(Owing) \in Nat
  BY <1>1, FS_CardinalityType DEF FlagOwed
<1>. QED
  BY <1>1, <1>2 DEF FlagOwed

(* A handler that answers without a commit or a flag does not start to owe one. *)
LEMMA ServeOwing == ASSUME TypeOK, NEW r \in Requests, Serve(r) PROVE Owing' \subseteq Owing
<1>1. CASE \E ip \in IPs : Receive(r, "lookup", ip) \/ Receive(r, "find", ip)
  BY <1>1 DEF Receive, Handler, TypeOK, Owing
<1>2. CASE LookupFound(r) \/ InsertConflict(r) \/ FindNothing(r) \/ WriteRefused(r)
  BY <1>2, IdleType
  DEF LookupFound, InsertConflict, FindNothing, WriteRefused, Finish, TypeOK, Owing
<1>3. CASE LookupMissing(r) \/ DeleteAdjustment(r)
  BY <1>3 DEF LookupMissing, DeleteAdjustment, At, Goto, TypeOK, HandlerState, Owing
<1>4. CASE LookupAmbiguous(r)
  BY <1>4 DEF LookupAmbiguous, TypeOK, HandlerState, Owing
<1>5. CASE FindCamera(r)
  BY <1>5 DEF FindCamera, TypeOK, HandlerState, Owing
<1>6. CASE InsertAdjustment(r)
  <2>1. \/ req' = [req EXCEPT ![r] = [@ EXCEPT !.pc = "insert", !.adj = nextAdj]]
        \/ req' = [req EXCEPT ![r] = Idle]
    BY <1>6 DEF InsertAdjustment, Finish
  <2>2. /\ req'[r].pc \in {"insert", "idle"}
        /\ \A q \in Requests \ {r} : req'[q] = req[q]
    BY <2>1, IdleType DEF TypeOK, HandlerState
  <2>. QED
    BY <2>2 DEF Owing
<1>. QED
  BY <1>1, <1>2, <1>3, <1>4, <1>5, <1>6 DEF Serve

(* A commit adds at most its own handler. *)
LEMMA CommitOwing == ASSUME TypeOK, FlagOwed, NEW r \in Requests, Commit(r) PROVE FlagOwed'
<1>1. Owing' \subseteq Owing \cup {r}
  BY IdleType
  DEF Commit, InsertCamera, DeleteCamera, Goto, Finish, TypeOK, HandlerState, Owing
<1>2. /\ IsFiniteSet(Owing \cup {r})
      /\ Cardinality(Owing \cup {r}) \in Nat
      /\ Cardinality(Owing \cup {r}) <= owed + 1
  <2>1. IsFiniteSet(Owing) /\ Cardinality(Owing) \in Nat
    BY FS_CardinalityType DEF FlagOwed
  <2>2. /\ IsFiniteSet(Owing \cup {r})
        /\ Cardinality(Owing \cup {r}) =
             IF r \in Owing THEN Cardinality(Owing) ELSE Cardinality(Owing) + 1
    BY <2>1, FS_AddElement
  <2>. QED
    BY <2>1, <2>2 DEF FlagOwed
<1>3. IsFiniteSet(Owing') /\ Cardinality(Owing') <= Cardinality(Owing \cup {r})
  BY <1>1, <1>2, FS_Subset
<1>4. Cardinality(Owing') \in Nat
  BY <1>3, FS_CardinalityType
<1>. QED
  BY <1>2, <1>3, <1>4 DEF FlagOwed, Commit

(* A handler that sets the flag owes nothing any more. *)
LEMMA SetFlagOwing ==
  ASSUME TypeOK, FlagOwed, NEW r \in Requests, SetFlag(r)
  PROVE  owed > 0 /\ FlagOwed'
<1>1. r \in Owing /\ Owing' = Owing \ {r}
  BY IdleType DEF SetFlag, Signal, At, Finish, TypeOK, HandlerState, Owing
<1>2. /\ IsFiniteSet(Owing \ {r})
      /\ Cardinality(Owing \ {r}) = Cardinality(Owing) - 1
      /\ Cardinality(Owing \ {r}) \in Nat /\ Cardinality(Owing) \in Nat
  BY <1>1, FS_RemoveElement, FS_CardinalityType DEF FlagOwed
<1>. QED
  BY <1>1, <1>2 DEF FlagOwed, SetFlag

LEMMA NextOwed == ASSUME TypeOK, FlagOwed, DownCurrent, [SysNext]_sysVars PROVE FlagOwed'
<1>1. ASSUME NEW r \in Requests, Serve(r) PROVE FlagOwed'
  BY <1>1, ServeOwing, OwingShrinks DEF Serve, ownVars, commitVars
<1>2. ASSUME UNCHANGED vars, owed' = owed PROVE FlagOwed'
  BY <1>2, OwingShrinks DEF vars, Owing
<1>3. UNCHANGED sysVars => FlagOwed'
  BY <1>2 DEF sysVars, ownVars, commitVars
<1>4. ASSUME NEW w \in Workers, WorkerMoves(w) PROVE owed' = owed
  BY <1>4 DEF WorkerMoves, L!PollStep, L!DialFails, L!Connect, L!Terminate,
     L!DeadlineExceeded, L!ReadFrame, L!FrameDone, L!Exit, L!Move, L!dbVars
<1>5. PollerMoves \/ CancelRoot \/ QueryFails \/ Boot => owed' = owed
  BY DEF PollerMoves, CancelRoot, QueryFails, Boot, L!Boot, L!CancelRoot, L!RefreshFails,
     L!Tick, L!StopPoller, L!CreateWorker, L!RestartWorker, L!SkipWorker, L!EnsureDone,
     L!KeepWorker, L!ReapWorker, L!ReapDone, L!dbVars
<1>6. PollerMoves \/ CancelRoot \/ QueryFails \/ Boot \/ (\E w \in Workers : WorkerMoves(w))
        => FlagOwed'
  BY <1>2, <1>4, <1>5, OwnSteps, BootStep
<1>7. QueryAnswered \/ QueryStored => FlagOwed'
  <2>1. QueryAnswered \/ QueryStored => req' = req /\ owed' = owed
    BY DEF QueryAnswered, QueryStored, QueryCameras, StoreCameras, ownVars, commitVars
  <2>. QED
    BY <2>1, OwingShrinks DEF Owing
<1>8. ASSUME ProcessDies PROVE FlagOwed'
  <2>1. Owing' = {} /\ owed' = 0
    BY <1>8, IdleType DEF ProcessDies, Restart, Owing
  <2>. QED
    BY <2>1, FS_EmptySet DEF FlagOwed
<1>. QED
  BY <1>1, <1>3, <1>6, <1>7, <1>8, CommitOwing, SetFlagOwing DEF SysNext

LEMMA NextQuery == ASSUME QueryInRefresh, [SysNext]_sysVars PROVE QueryInRefresh'
<1>1. ASSUME NEW r \in Requests, Commit(r) \/ Serve(r) \/ SetFlag(r)
      PROVE  UNCHANGED <<querying, pc>>
  <2>1. UNCHANGED pc
    BY <1>1 DEF Commit, Serve, SetFlag, ownVars
  <2>2. UNCHANGED querying
    BY <1>1 DEF Commit, Serve, SetFlag, pollerVars, Receive, LookupFound, LookupMissing,
       LookupAmbiguous, InsertAdjustment, InsertConflict, FindCamera, FindNothing,
       DeleteAdjustment, WriteRefused, InsertCamera, DeleteCamera, Signal
  <2>. QED
    BY <2>1, <2>2
<1>2. QueryAnswered => QueryInRefresh'
  BY DEF QueryAnswered, ownVars, QueryInRefresh
<1>3. QueryStored \/ ProcessDies => ~querying'
  BY DEF QueryStored, StoreCameras, ProcessDies, Restart
<1>4. QueryFails \/ PollerMoves \/ Boot => ~querying'
  BY DEF QueryFails, PollerMoves, Boot, handlerVars, L!Boot, L!Tick, L!StopPoller,
     L!CreateWorker, L!RestartWorker, L!SkipWorker, L!EnsureDone, L!KeepWorker, L!ReapWorker,
     L!ReapDone, QueryInRefresh
<1>5. ASSUME NEW w \in Workers, WorkerMoves(w) PROVE UNCHANGED <<querying, pc>>
  BY <1>5 DEF WorkerMoves, handlerVars, L!PollStep, L!DialFails, L!Connect, L!Terminate,
     L!DeadlineExceeded, L!ReadFrame, L!FrameDone, L!Exit, L!Move, L!pollerVars
<1>6. CancelRoot \/ UNCHANGED sysVars => UNCHANGED <<querying, pc>>
  BY DEF CancelRoot, handlerVars, L!CancelRoot, L!pollerVars, sysVars, ownVars, vars, pollerVars
<1>. QED
  BY <1>1, <1>2, <1>3, <1>4, <1>5, <1>6 DEF SysNext, QueryInRefresh

(* A commit is a change of the table, whatever else it finds or leaves. *)
LEMMA CommitStep ==
  ASSUME ActiveIp, NEW r \in Requests, Commit(r)
  PROVE  \/ \E e \in Entry : P!AddEntry(e)
         \/ \E ip \in IPs : P!RemoveEntries(ip)
<1> USE DEF Commit, L!Up, P!Up, P!procVars, P!pollerVars, P!workerVars, procVars, workVars,
        pollerVars
<1>1. P!Up
  OBVIOUS
<1>2. CASE InsertCamera(r) /\ NewRow(r) \in Entry
  <2>1. NewRow(r) \notin cams /\ cams' = cams \cup {NewRow(r)} /\ UNCHANGED pollerVars
    BY <1>2 DEF InsertCamera
  <2>2. P!AddEntry(NewRow(r))
    BY <1>1, <2>1 DEF P!AddEntry
  <2>. QED
    BY <1>2, <2>2
<1>3. CASE DeleteCamera(r)
  <2>1. req[r].ip \in IPs
    BY <1>3 DEF DeleteCamera, At, ActiveIp
  <2>2. cams' = {c \in cams : c.ip # req[r].ip} /\ UNCHANGED pollerVars
    BY <1>3 DEF DeleteCamera, Rows
  <2>3. P!RemoveEntries(req[r].ip)
    BY <1>1, <2>2 DEF P!RemoveEntries
  <2>. QED
    BY <2>1, <2>3
<1>. QED
  BY <1>2, <1>3

(* The rest of a request is nothing to the poller, until the flag. *)
LEMMA ServeStep == ASSUME NEW r \in Requests, Serve(r) PROVE UNCHANGED P!vars
<1>1. UNCHANGED cams /\ UNCHANGED pollerVars
  BY DEF Serve, Receive, LookupFound, LookupMissing, LookupAmbiguous, InsertAdjustment,
     InsertConflict, FindCamera, FindNothing, DeleteAdjustment, WriteRefused, dbVars
<1>. QED
  BY <1>1 DEF Serve, pollerVars, ownVars, commitVars, procVars, workVars, P!vars, P!dbVars,
     P!procVars, P!pollerVars, P!workerVars

LEMMA SetFlagStep ==
  ASSUME TypeOK, FlagOwed, NEW r \in Requests, SetFlag(r) PROVE P!SignalPoller
BY SetFlagOwing DEF SetFlag, Signal, dbVars, procVars, workVars, P!SignalPoller, P!procVars,
   P!workerVars

(* The list is the poller's as soon as the query is answered. *)
LEMMA QueryStep ==
  ASSUME QueryInRefresh, QueryAnswered \/ QueryStored \/ QueryFails
  PROVE  [P!Refresh \/ P!RefreshFails]_(P!vars)
<1>1. QueryAnswered => P!Refresh
  BY DEF QueryAnswered, QueryCameras, dbVars, ownVars, commitVars, procVars, workVars,
     P!Refresh, P!dbVars, P!procVars, P!workerVars
<1>2. QueryStored => UNCHANGED P!vars
  BY DEF QueryStored, StoreCameras, dbVars, commitVars, procVars, workVars, P!vars, P!dbVars,
     P!procVars, P!pollerVars, P!workerVars
<1>3. QueryFails => P!RefreshFails
  BY DEF QueryFails, handlerVars, L!RefreshFails, P!RefreshFails, P!dbVars, P!procVars,
     P!workerVars, L!dbVars, L!procVars, L!workerVars
<1>. QED
  BY <1>1, <1>2, <1>3

(* Outside a refresh, what the poller does is what CameraPoller has it do. *)
LEMMA PollerStep ==
  ASSUME QueryInRefresh, PollerMoves PROVE P!PollerStep \/ P!StopPoller
<1> USE DEF PollerMoves, handlerVars, QueryInRefresh, P!dbVars, P!procVars, P!workerVars,
        L!dbVars, L!procVars, L!workerVars
<1>1. L!Tick \/ L!StopPoller => P!Tick \/ P!StopPoller
  BY DEF L!Tick, L!StopPoller, P!Tick, P!StopPoller
<1>2. ASSUME NEW r \in todo, NEW w \in Workers, L!CreateWorker(r, w)
      PROVE  pc = "ensure" /\ P!CreateWorker(r, w)
  BY <1>2 DEF L!CreateWorker, P!CreateWorker, L!Free, P!Free, L!Registered, P!Registered,
     L!NoPoll, P!NoPoll, L!PollPoint, P!PollPoint
<1>3. ASSUME NEW r \in todo, L!RestartWorker(r) \/ L!SkipWorker(r)
      PROVE  pc = "ensure" /\ (P!RestartWorker(r) \/ P!SkipWorker(r))
  BY <1>3 DEF L!RestartWorker, P!RestartWorker, L!SkipWorker, P!SkipWorker
<1>4. L!EnsureDone => P!EnsureDone
  BY DEF L!EnsureDone, P!EnsureDone, L!Tracked, P!Tracked
<1>5. ASSUME NEW ip \in keys, L!KeepWorker(ip) \/ L!ReapWorker(ip)
      PROVE  P!KeepWorker(ip) \/ P!ReapWorker(ip)
  BY <1>5 DEF L!KeepWorker, P!KeepWorker, L!ReapWorker, P!ReapWorker, L!IPsOf, P!IPsOf
<1>6. L!ReapDone => P!ReapDone
  BY DEF L!ReapDone, P!ReapDone
<1>. QED
  BY <1>1, <1>2, <1>3, <1>4, <1>5, <1>6 DEF P!PollerStep

LEMMA WorkerStep ==
  ASSUME NEW w \in Workers, WorkerMoves(w) PROVE P!PollStep(w)
<1> USE DEF WorkerMoves, handlerVars, P!dbVars, P!procVars, P!pollerVars, L!dbVars, L!procVars,
        L!pollerVars
<1>1. ASSUME NEW p, L!Exit(w, p) PROVE P!Exit(w, p)
  BY <1>1 DEF L!Exit, P!Exit
<1>2. ASSUME NEW p, NEW q, L!Move(w, p, q) PROVE P!Move(w, p, q)
  BY <1>2 DEF L!Move, P!Move
<1>. QED
  BY <1>1, <1>2 DEF L!PollStep, L!DialFails, L!Connect, L!Terminate, L!DeadlineExceeded,
     L!ReadFrame, L!FrameDone, L!Cancelled, P!PollStep, P!DialFails, P!Connect, P!Terminate,
     P!DeadlineExceeded, P!ReadFrame, P!FrameDone, P!Cancelled

(* The process starts, is told to end, and ends. *)
LEMMA ProcessStep ==
  ASSUME QueryInRefresh, DownCurrent, Boot \/ CancelRoot \/ ProcessDies
  PROVE  P!Boot \/ P!CancelRoot \/ P!ProcessDies
<1> USE DEF QueryInRefresh, P!dbVars, P!workerVars, L!dbVars, L!workerVars
<1>1. Boot => P!Boot
  BY DEF Boot, handlerVars, L!Boot, P!Boot, L!BootCameras, P!BootCameras
<1>2. CancelRoot => P!CancelRoot
  BY DEF CancelRoot, handlerVars, L!CancelRoot, P!CancelRoot, L!Up, P!Up, L!pollerVars,
     P!pollerVars
<1>3. ProcessDies => P!ProcessDies
  BY DEF ProcessDies, Restart, dbVars, P!ProcessDies, L!Up, P!Up, L!Forget, P!Forget, L!Nil,
     P!Nil, L!NoPoll, P!NoPoll, L!PollPoint, P!PollPoint
<1>. QED
  BY <1>1, <1>2, <1>3

LEMMA SystemPollerStep ==
  ASSUME TypeOK, ActiveIp, SInv, [SysNext]_sysVars
  PROVE  [P!Next]_(P!vars)
<1> USE DEF SInv
<1>1. ASSUME NEW r \in Requests, Commit(r) \/ Serve(r) \/ SetFlag(r)
      PROVE  [P!Next]_(P!vars)
  BY <1>1, CommitStep, ServeStep, SetFlagStep DEF P!Next, P!Environment
<1>2. QueryAnswered \/ QueryStored \/ QueryFails => [P!Next]_(P!vars)
  BY QueryStep DEF P!Next, P!PollerStep
<1>3. PollerMoves => P!Next
  BY PollerStep DEF P!Next
<1>4. Boot \/ CancelRoot \/ ProcessDies => P!Next
  BY ProcessStep DEF P!Next, P!Environment
<1>5. ASSUME NEW w \in Workers, WorkerMoves(w) PROVE P!Next
  BY <1>5, WorkerStep DEF P!Next
<1>6. UNCHANGED sysVars => UNCHANGED P!vars
  BY DEF sysVars, vars, dbVars, pollerVars, ownVars, commitVars, procVars, workVars, P!vars,
     P!dbVars, P!procVars, P!pollerVars, P!workerVars
<1>. QED
  BY <1>1, <1>2, <1>3, <1>4, <1>5, <1>6 DEF SysNext

LEMMA InitSystem == SysInit => SInv /\ P!Init
<1> SUFFICES ASSUME SysInit PROVE SInv /\ P!Init
  OBVIOUS
<1>1. Owing = {} /\ owed = 0
  BY IdleType DEF SysInit, Init, L!Init, Owing
<1>2. FlagOwed
  BY <1>1, FS_EmptySet DEF FlagOwed
<1>3. QueryInRefresh /\ DownCurrent
  BY DEF SysInit, Init, QueryInRefresh, DownCurrent
<1>4. P!Init
  BY DEF SysInit, Init, L!Init, P!Init, L!Nil, P!Nil, L!NoPoll, P!NoPoll, L!PollPoint,
     P!PollPoint
<1>. QED
  BY <1>2, <1>3, <1>4 DEF SInv

(* Whatever the handlers do, and whenever, the table and the flag change under the poller
   as CameraPoller says, and the poller does with them what it says. *)
THEOREM ImplementsPoller == SysSpec => PollerImplemented
<1>1. SInv /\ TypeOK /\ [SysNext]_sysVars => SInv'
  BY NextQuery, NextDown, NextOwed DEF SInv
<1>2. IInv => TypeOK /\ ActiveIp
  BY DEF IInv
<1>. QED
  BY <1>1, <1>2, InitSystem, SystemPollerStep, ImplementsRegistry, Invariant, PTL
  DEF SysSpec, PollerImplemented, P!Spec
-----------------------------------------------------------------------------
(* The theorems of CameraPollerProofs, about the poller in the system. *)
PP == INSTANCE CameraPollerProofs WITH
        rows        <- cams,
        unsignalled <- owed,
        cameras     <- IF pc = "down" THEN {} ELSE IF querying THEN fetched ELSE loaded,
        pc          <- IF querying THEN "ensure" ELSE pc,
        todo        <- IF querying THEN fetched ELSE todo

LEMMA PollerConstantsHold == P!PollerConstants /\ PP!PollerConstants
BY SystemConstants DEF P!PollerConstants, PP!PollerConstants

(* PP extends the module P is an instance of, by the same substitution. *)
LEMMA SamePoller == P!Spec => PP!Spec
BY DEF P!Spec, PP!Spec, P!dbVars, PP!dbVars, P!procVars, PP!procVars, P!pollerVars,
   PP!pollerVars, P!workerVars, PP!workerVars, P!vars, PP!vars, P!NoPoll, PP!NoPoll,
   P!IPsOf, PP!IPsOf, P!Tracked, PP!Tracked, P!Registered, PP!Registered, P!Up, PP!Up,
   P!Free, PP!Free, P!Nil, PP!Nil, P!Init, PP!Init, P!BootCameras, PP!BootCameras, P!Boot,
   PP!Boot, P!CancelRoot, PP!CancelRoot, P!Forget, PP!Forget, P!ProcessDies, PP!ProcessDies,
   P!AddEntry, PP!AddEntry, P!RemoveEntries, PP!RemoveEntries, P!SignalPoller,
   PP!SignalPoller, P!StopPoller, PP!StopPoller, P!Tick, PP!Tick, P!Refresh, PP!Refresh,
   P!RefreshFails, PP!RefreshFails, P!CreateWorker, PP!CreateWorker, P!RestartWorker,
   PP!RestartWorker, P!SkipWorker, PP!SkipWorker, P!EnsureDone, PP!EnsureDone, P!KeepWorker,
   PP!KeepWorker, P!ReapWorker, PP!ReapWorker, P!ReapDone, PP!ReapDone, P!Exit, PP!Exit,
   P!Move, PP!Move, P!DialFails, PP!DialFails, P!Connect, PP!Connect, P!Cancelled,
   PP!Cancelled, P!Terminate, PP!Terminate, P!DeadlineExceeded, PP!DeadlineExceeded,
   P!ReadFrame, PP!ReadFrame, P!FrameDone, PP!FrameDone, P!Environment, PP!Environment,
   P!PollerStep, PP!PollerStep, P!PollStep, PP!PollStep, P!Next, PP!Next, P!PollPoint,
   PP!PollPoint

(* In the system, whatever its handlers do: the poller's two maps agree, a worker has one
   goroutine exactly while IsRunning is set, none streams that the poller has lost sight
   of, and the workers between ticks are those of its list. *)
THEOREM SystemPollsSafely ==
  SysSpec => [](/\ L!CancelFuncsInSync /\ L!OnePoll
                /\ L!NoLeakedWorker /\ L!TickApplied)
<1>1. PP!Spec => [](PP!CancelFuncsInSync /\ PP!OnePoll /\ PP!NoLeakedWorker /\ PP!TickApplied)
  BY PollerConstantsHold, PP!CancelFuncsSynced, PP!SinglePoll, PP!NoLeak, PP!TickSound, PTL
<1>2. SysSpec => []QueryInRefresh
  <2>1. SysInit => QueryInRefresh
    BY InitSystem DEF SInv
  <2>. QED
    BY <2>1, NextQuery, PTL DEF SysSpec
<1>3. /\ QueryInRefresh
      /\ PP!CancelFuncsInSync /\ PP!OnePoll /\ PP!NoLeakedWorker /\ PP!TickApplied
      => /\ L!CancelFuncsInSync /\ L!OnePoll
         /\ L!NoLeakedWorker /\ L!TickApplied
  BY DEF QueryInRefresh, L!CancelFuncsInSync, PP!CancelFuncsInSync, L!OnePoll, PP!OnePoll,
     L!Polls, PP!Polls, L!NoLeakedWorker, PP!NoLeakedWorker, L!Registered, PP!Registered,
     L!TickApplied, PP!TickApplied, L!Tracked, PP!Tracked, L!IPsOf, PP!IPsOf
<1>. QED
  BY <1>1, <1>2, <1>3, ImplementsPoller, SamePoller, PTL DEF PollerImplemented
=============================================================================
