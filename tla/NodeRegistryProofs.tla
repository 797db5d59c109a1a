------------------------- MODULE NodeRegistryProofs -------------------------
(***************************************************************************)
(* Theorems about NodeRegistry, for every number of handlers, certificates, *)
(* requests, restarts and failing calls: what the tables say about a sample *)
(* is never more than the handlers have done, nor attributed to another     *)
(* node.                                                                    *)
(***************************************************************************)
EXTENDS NodeRegistry, FiniteSetTheorems, TLAPS

(* A handler at work has the certificate of its connection. *)
ActiveCert == \A r \in Requests : req[r].pc # "idle" => req[r].cert \in Certs

(* A handler about to write a state, or to acknowledge it, has the id of a node
   with its certificate. *)
Identified ==
  \A r \in Requests :
    req[r].pc \in {"insertBarometer", "insertPower", "respond"} =>
      [id |-> req[r].node, cert |-> req[r].cert] \in nodes

(* A handler past the barometer state has stored it; one about to acknowledge
   has stored everything. *)
StoredSoFar ==
  \A r \in Requests :
    /\ req[r].pc \in {"insertPower", "respond"} /\ "barometer" \in req[r].parts
         => Stored(barometers, SampleOf(req[r]))
    /\ req[r].pc = "respond" /\ "power" \in req[r].parts
         => Stored(powers, SampleOf(req[r]))

IInv ==
  /\ TypeOK
  /\ ActiveCert
  /\ Identified
  /\ StoredSoFar
  /\ StatesOfSender
  /\ AckedStatesStored
  /\ NoPowerWithoutBarometer
-----------------------------------------------------------------------------
(* The state of a handler that serves no request. *)
LEMMA IdleType == Idle \in HandlerState /\ Idle.pc = "idle"
BY DEF Idle, HandlerState, HandlerPC

(* However a call goes, the counters of what has gone wrong stay counters. *)
LEMMA FaultTypes ==
  ASSUME TypeOK, Succeed \/ Refuse \/ LoseAnswer, UNCHANGED requestVars
  PROVE  /\ refused' \in Nat /\ lost' \in Nat /\ restarts' \in Nat
         /\ overlapped' \in BOOLEAN /\ served' \in Nat
BY DEF TypeOK, Succeed, Refuse, LoseAnswer, faultVars, requestVars

(* Initially the tables are empty and no handler runs. *)
LEMMA InitIInv == Init => IInv
<1> SUFFICES ASSUME Init PROVE IInv
  OBVIOUS
<1>1. /\ req \in [Requests -> HandlerState]
      /\ \A r \in Requests : req[r].pc = "idle"
  BY IdleType DEF Init
<1>2. TypeOK
  <2>1. /\ nodes = {} /\ barometers = {} /\ powers = {}
        /\ registered = {} /\ acked = {}
        /\ nextNode = 1 /\ overlapped = FALSE
        /\ refused = 0 /\ lost = 0 /\ restarts = 0 /\ served = 0
    BY DEF Init
  <2>2. /\ nextNode \in Key
        /\ refused \in Nat /\ lost \in Nat /\ restarts \in Nat /\ served \in Nat
    BY <2>1 DEF Key
  <2>3. /\ nodes \in SUBSET Node
        /\ barometers \in SUBSET Row /\ powers \in SUBSET Row
        /\ registered \in SUBSET Certs /\ acked \in SUBSET Sample
        /\ overlapped \in BOOLEAN
    BY <2>1
  <2>. QED
    BY <1>1, <2>2, <2>3 DEF TypeOK
<1>3. ActiveCert /\ Identified /\ StoredSoFar
  BY <1>1 DEF ActiveCert, Identified, StoredSoFar
<1>4. StatesOfSender /\ AckedStatesStored /\ NoPowerWithoutBarometer
  BY DEF Init, StatesOfSender, AckedStatesStored, NoPowerWithoutBarometer
<1>. QED
  BY <1>2, <1>3, <1>4 DEF IInv

(* What is needed of handler r after its step; the others keep what they have
   as long as the tables only grow. *)
LEMMA HandlerStep ==
  ASSUME IInv, NEW r \in Requests, TypeOK',
         nodes \subseteq nodes', barometers \subseteq barometers',
         powers \subseteq powers',
         \A q \in Requests \ {r} : req'[q] = req[q],
         req'[r].pc # "idle" => req'[r].cert \in Certs,
         req'[r].pc \in {"insertBarometer", "insertPower", "respond"} =>
           [id |-> req'[r].node, cert |-> req'[r].cert] \in nodes',
         req'[r].pc \in {"insertPower", "respond"}
           /\ "barometer" \in req'[r].parts
             => Stored(barometers', SampleOf(req'[r])),
         req'[r].pc = "respond" /\ "power" \in req'[r].parts
             => Stored(powers', SampleOf(req'[r]))
  PROVE  ActiveCert' /\ Identified' /\ StoredSoFar'
<1>1. ActiveCert'
  BY DEF IInv, ActiveCert
<1>2. Identified'
  BY DEF IInv, Identified
<1>3. StoredSoFar'
  <2> SUFFICES ASSUME NEW q \in Requests
               PROVE  /\ req'[q].pc \in {"insertPower", "respond"}
                         /\ "barometer" \in req'[q].parts
                           => Stored(barometers', SampleOf(req'[q]))
                      /\ req'[q].pc = "respond" /\ "power" \in req'[q].parts
                           => Stored(powers', SampleOf(req'[q]))
    BY DEF StoredSoFar
  <2>1. CASE q = r
    BY <2>1
  <2>2. CASE q # r
    BY <2>2 DEF IInv, StoredSoFar, Stored
  <2>. QED
    BY <2>1, <2>2
<1>. QED
  BY <1>1, <1>2, <1>3

(* A step that leaves the tables of states and the acknowledgements alone. *)
LEMMA TablesKept ==
  ASSUME IInv, nodes \subseteq nodes', UNCHANGED <<barometers, powers, acked>>
  PROVE  StatesOfSender' /\ AckedStatesStored' /\ NoPowerWithoutBarometer'
BY DEF IInv, StatesOfSender, AckedStatesStored, NoPowerWithoutBarometer

(* A handler that ends without having written in this step. *)
LEMMA FinishStep ==
  ASSUME IInv, NEW r \in Requests, Finish(r), nodes \subseteq nodes',
         UNCHANGED <<barometers, powers, acked>>, TypeOK'
  PROVE  IInv'
<1>1. req'[r] = Idle /\ \A q \in Requests \ {r} : req'[q] = req[q]
  BY DEF Finish, IInv, TypeOK
<1>. QED
  BY <1>1, IdleType, HandlerStep, TablesKept DEF IInv

(* A handler that only moves, to a place before its first write. *)
LEMMA GotoStep ==
  ASSUME IInv, NEW r \in Requests, NEW label \in {"insertNode", "select"},
         ~At(r, "idle"), Goto(r, label), Succeed \/ Refuse,
         UNCHANGED <<dbVars, clientVars, requestVars>>
  PROVE  IInv'
<1>1. /\ req'[r] = [req[r] EXCEPT !.pc = label]
      /\ \A q \in Requests \ {r} : req'[q] = req[q]
  BY DEF Goto, IInv, TypeOK
<1>2. TypeOK'
  BY FaultTypes DEF Goto, IInv, TypeOK, HandlerState, HandlerPC, dbVars, clientVars
<1>3. req'[r].pc = label /\ req'[r].cert = req[r].cert
  BY <1>1 DEF IInv, TypeOK, HandlerState
<1>4. req'[r].cert \in Certs
  BY <1>3 DEF At, IInv, ActiveCert
<1>. QED
  BY <1>1, <1>2, <1>3, <1>4, HandlerStep, TablesKept DEF dbVars, clientVars, IInv

(* A request arrives. *)
LEMMA ReceiveIInv ==
  ASSUME IInv, NEW r \in Requests, ReceiveAny(r)
  PROVE  IInv'
<1>1. PICK label \in {"getNode", "postNode", "postState", "getState"},
           c \in Certs, parts \in SUBSET Part, limit \in BOOLEAN :
        Receive(r, label, c, parts, limit)
  BY DEF ReceiveAny
<1>2. TypeOK'
  BY <1>1 DEF Receive, IInv, TypeOK, HandlerState, HandlerPC, dbVars, clientVars, faultVars
<1>3. /\ req'[r].pc = label /\ req'[r].cert = c
      /\ \A q \in Requests \ {r} : req'[q] = req[q]
  BY <1>1 DEF Receive, IInv, TypeOK
<1>. QED
  BY <1>1, <1>2, <1>3, HandlerStep, TablesKept
  DEF Receive, dbVars, clientVars, IInv

(* The handlers of /node. *)
LEMMA NodeIInv ==
  ASSUME IInv, NEW r \in Requests, NodeHandler(r)
  PROVE  IInv'
<1>t. TypeOK /\ req[r] \in HandlerState
  BY DEF IInv, TypeOK
<1>1. CASE GetNode(r)
  <2>1. TypeOK'
    BY <1>1, <1>t, IdleType, FaultTypes DEF GetNode, Finish, TypeOK, dbVars, clientVars, Succeed
  <2>. QED
    BY <1>1, <2>1, FinishStep DEF GetNode, dbVars, clientVars
<1>2. CASE NodeExists(r)
  <2>1. req[r].cert \in Certs
    BY <1>2 DEF NodeExists, At, IInv, ActiveCert
  <2>2. TypeOK'
    BY <1>2, <1>t, <2>1, IdleType, FaultTypes DEF NodeExists, Finish, TypeOK, dbVars, Succeed
  <2>. QED
    BY <1>2, <2>2, FinishStep DEF NodeExists, dbVars
<1>3. CASE NodeMissing(r)
  BY <1>3, GotoStep DEF NodeMissing, Missing, At
<1>4. CASE InsertNode(r)
  <2>1. req[r].cert \in Certs
    BY <1>4 DEF InsertNode, At, IInv, ActiveCert
  <2>2. nodes' \in SUBSET Node /\ nextNode' \in Key
    BY <1>4, <1>t, <2>1 DEF InsertNode, TypeOK, Node, Key
  <2>3. registered' \in SUBSET Certs
    BY <1>4, <1>t, <2>1 DEF InsertNode, TypeOK
  <2>4. TypeOK'
    BY <1>4, <1>t, <2>2, <2>3, IdleType, FaultTypes DEF InsertNode, Finish, TypeOK
  <2>. QED
    BY <1>4, <2>4, FinishStep DEF InsertNode
<1>. QED
  BY <1>1, <1>2, <1>3, <1>4 DEF NodeHandler
-----------------------------------------------------------------------------
(* The sender of a state is looked up: the next write has its node. *)
LEMMA IdentifyIInv ==
  ASSUME IInv, NEW r \in Requests, IdentifySender(r)
  PROVE  IInv'
<1>t. TypeOK /\ req[r] \in HandlerState
  BY DEF IInv, TypeOK
<1>1. PICK n \in NodesOf(req[r].cert) :
        req' = [req EXCEPT ![r] =
                  [@ EXCEPT !.pc = FirstWrite(req[r].parts), !.node = n.id]]
  BY DEF IdentifySender
<1>2. n \in nodes /\ n.cert = req[r].cert /\ n.id \in Key
  BY <1>t DEF NodesOf, TypeOK, Node
<1>3. n = [id |-> n.id, cert |-> req[r].cert]
  BY <1>2, <1>t DEF TypeOK, Node
<1>4. req[r].parts \in SUBSET Part /\ req[r].parts # {}
  BY <1>t DEF HandlerState, IdentifySender
<1>5. /\ FirstWrite(req[r].parts) \in {"insertBarometer", "insertPower", "respond"}
      /\ FirstWrite(req[r].parts) # "respond"
      /\ "barometer" \in req[r].parts => FirstWrite(req[r].parts) = "insertBarometer"
  BY <1>4 DEF FirstWrite, PowerOrRespond, Part
<1>6. /\ req'[r] = [req[r] EXCEPT !.pc = FirstWrite(req[r].parts), !.node = n.id]
      /\ \A q \in Requests \ {r} : req'[q] = req[q]
  BY <1>1, <1>t DEF TypeOK
<1>7. /\ req'[r].pc = FirstWrite(req[r].parts) /\ req'[r].node = n.id
      /\ req'[r].cert = req[r].cert /\ req'[r].parts = req[r].parts
  BY <1>6, <1>t DEF HandlerState
<1>8. req'[r] \in HandlerState
  BY <1>6, <1>5, <1>2, <1>t DEF HandlerState, HandlerPC, Key
<1>9. TypeOK'
  BY <1>t, <1>1, <1>8, FaultTypes
  DEF IdentifySender, TypeOK, dbVars, clientVars, Succeed
<1>10. req[r].cert \in Certs
  BY DEF IdentifySender, At, IInv, ActiveCert
<1>11. ActiveCert' /\ Identified' /\ StoredSoFar'
  BY <1>2, <1>3, <1>5, <1>6, <1>7, <1>9, <1>10, HandlerStep
  DEF IdentifySender, dbVars
<1>. QED
  BY <1>9, <1>11, TablesKept DEF IdentifySender, dbVars, clientVars, IInv

(* A row stored by a handler that has identified its sender. *)
LEMMA NewRowType ==
  ASSUME IInv, NEW r \in Requests, req[r].pc \in {"insertBarometer", "insertPower"}
  PROVE  /\ NewRow(r) \in Row
         /\ NewRow(r).node = req[r].node
         /\ NewRow(r).sample = SampleOf(req[r])
         /\ SampleOf(req[r]).of = req[r].cert
         /\ SampleOf(req[r]).parts = req[r].parts
         /\ [id |-> req[r].node, cert |-> req[r].cert] \in nodes
<1>1. req[r] \in HandlerState /\ req[r].cert \in Certs
  BY DEF IInv, TypeOK, ActiveCert
<1>2. [id |-> req[r].node, cert |-> req[r].cert] \in nodes
  BY DEF IInv, Identified
<1>3. req[r].node \in Key
  BY <1>2 DEF IInv, TypeOK, Node
<1>4. SampleOf(req[r]) \in Sample
  BY <1>1 DEF SampleOf, Sample, HandlerState
<1>. QED
  BY <1>1, <1>2, <1>3, <1>4 DEF NewRow, Row, SampleOf

(* The barometer state is inserted. *)
LEMMA BarometerIInv ==
  ASSUME IInv, NEW r \in Requests, InsertBarometer(r)
  PROVE  IInv'
<1>t. TypeOK /\ req[r] \in HandlerState /\ At(r, "insertBarometer")
  BY DEF IInv, TypeOK, InsertBarometer
<1>r. /\ NewRow(r) \in Row
      /\ NewRow(r).node = req[r].node
      /\ NewRow(r).sample = SampleOf(req[r])
      /\ SampleOf(req[r]).of = req[r].cert
      /\ [id |-> req[r].node, cert |-> req[r].cert] \in nodes
  BY <1>t, NewRowType DEF At
<1>b. barometers' = barometers \cup {NewRow(r)}
  BY DEF InsertBarometer
<1>1. StatesOfSender' /\ AckedStatesStored' /\ NoPowerWithoutBarometer'
  BY <1>r, <1>b DEF InsertBarometer, clientVars, IInv, StatesOfSender,
     AckedStatesStored, NoPowerWithoutBarometer, Stored
<1>2. CASE Goto(r, PowerOrRespond(req[r].parts))
  <2>1. PowerOrRespond(req[r].parts) \in {"insertPower", "respond"}
    BY DEF PowerOrRespond
  <2>2. /\ req'[r] = [req[r] EXCEPT !.pc = PowerOrRespond(req[r].parts)]
        /\ \A q \in Requests \ {r} : req'[q] = req[q]
    BY <1>2, <1>t DEF Goto, TypeOK
  <2>3. /\ req'[r].pc = PowerOrRespond(req[r].parts)
        /\ req'[r].node = req[r].node /\ req'[r].cert = req[r].cert
        /\ req'[r].parts = req[r].parts
        /\ SampleOf(req'[r]) = SampleOf(req[r])
    BY <2>2, <1>t DEF HandlerState, SampleOf
  <2>4. TypeOK'
    BY <1>t, <1>r, <1>b, <1>2, <2>1, FaultTypes
    DEF InsertBarometer, Goto, TypeOK, HandlerState, HandlerPC, clientVars
  <2>5. Stored(barometers', SampleOf(req'[r]))
    BY <1>r, <1>b, <2>3 DEF Stored
  <2>6. req'[r].pc = "respond" => "power" \notin req'[r].parts
    BY <2>3 DEF PowerOrRespond
  <2>7. req'[r].cert \in Certs
    BY <2>3, <1>t DEF At, IInv, ActiveCert
  <2>8. ActiveCert' /\ Identified' /\ StoredSoFar'
    BY <1>r, <1>b, <2>2, <2>3, <2>4, <2>5, <2>6, <2>7, HandlerStep
    DEF InsertBarometer
  <2>. QED
    BY <1>1, <2>4, <2>8 DEF IInv
<1>3. CASE Finish(r)
  <2>1. TypeOK'
    BY <1>t, <1>r, <1>b, <1>3, IdleType, FaultTypes
    DEF InsertBarometer, Finish, TypeOK, clientVars
  <2>2. req'[r] = Idle /\ \A q \in Requests \ {r} : req'[q] = req[q]
    BY <1>3, <1>t DEF Finish, TypeOK
  <2>3. ActiveCert' /\ Identified' /\ StoredSoFar'
    BY <1>b, <2>1, <2>2, IdleType, HandlerStep DEF InsertBarometer
  <2>. QED
    BY <1>1, <2>1, <2>3 DEF IInv
<1>. QED
  BY <1>2, <1>3 DEF InsertBarometer

(* The power state is inserted, after the barometer state if there is one. *)
LEMMA PowerIInv ==
  ASSUME IInv, NEW r \in Requests, InsertPower(r)
  PROVE  IInv'
<1>t. TypeOK /\ req[r] \in HandlerState /\ At(r, "insertPower")
  BY DEF IInv, TypeOK, InsertPower
<1>r. /\ NewRow(r) \in Row
      /\ NewRow(r).node = req[r].node
      /\ NewRow(r).sample = SampleOf(req[r])
      /\ SampleOf(req[r]).of = req[r].cert
      /\ SampleOf(req[r]).parts = req[r].parts
      /\ [id |-> req[r].node, cert |-> req[r].cert] \in nodes
  BY <1>t, NewRowType DEF At
<1>b. powers' = powers \cup {NewRow(r)}
  BY DEF InsertPower
<1>s. "barometer" \in req[r].parts => Stored(barometers, SampleOf(req[r]))
  BY <1>t DEF At, IInv, StoredSoFar
<1>1. StatesOfSender' /\ AckedStatesStored'
  BY <1>r, <1>b DEF InsertPower, clientVars, IInv, StatesOfSender,
     AckedStatesStored, Stored
<1>n. NoPowerWithoutBarometer'
  BY <1>r, <1>b, <1>s DEF InsertPower, IInv, NoPowerWithoutBarometer
<1>2. CASE Goto(r, "respond")
  <2>2. /\ req'[r] = [req[r] EXCEPT !.pc = "respond"]
        /\ \A q \in Requests \ {r} : req'[q] = req[q]
    BY <1>2, <1>t DEF Goto, TypeOK
  <2>3. /\ req'[r].node = req[r].node /\ req'[r].cert = req[r].cert
        /\ req'[r].parts = req[r].parts
        /\ SampleOf(req'[r]) = SampleOf(req[r])
    BY <2>2, <1>t DEF HandlerState, SampleOf
  <2>4. TypeOK'
    BY <1>t, <1>r, <1>b, <1>2, FaultTypes
    DEF InsertPower, Goto, TypeOK, HandlerState, HandlerPC, clientVars
  <2>5. Stored(powers', SampleOf(req'[r]))
    BY <1>r, <1>b, <2>3 DEF Stored
  <2>6. "barometer" \in req'[r].parts => Stored(barometers', SampleOf(req'[r]))
    BY <1>s, <2>3 DEF InsertPower
  <2>7. req'[r].cert \in Certs
    BY <2>3, <1>t DEF At, IInv, ActiveCert
  <2>8. ActiveCert' /\ Identified' /\ StoredSoFar'
    BY <1>r, <1>b, <2>2, <2>3, <2>4, <2>5, <2>6, <2>7, HandlerStep
    DEF InsertPower
  <2>. QED
    BY <1>1, <1>n, <2>4, <2>8 DEF IInv
<1>3. CASE Finish(r)
  <2>1. TypeOK'
    BY <1>t, <1>r, <1>b, <1>3, IdleType, FaultTypes
    DEF InsertPower, Finish, TypeOK, clientVars
  <2>2. req'[r] = Idle /\ \A q \in Requests \ {r} : req'[q] = req[q]
    BY <1>3, <1>t DEF Finish, TypeOK
  <2>3. ActiveCert' /\ Identified' /\ StoredSoFar'
    BY <1>b, <2>1, <2>2, IdleType, HandlerStep DEF InsertPower
  <2>. QED
    BY <1>1, <1>n, <2>1, <2>3 DEF IInv
<1>. QED
  BY <1>2, <1>3 DEF InsertPower

(* The states are acknowledged: all of them are stored by now. *)
LEMMA RespondIInv ==
  ASSUME IInv, NEW r \in Requests, RespondState(r)
  PROVE  IInv'
<1>t. TypeOK /\ req[r] \in HandlerState /\ At(r, "respond")
  BY DEF IInv, TypeOK, RespondState
<1>1. SampleOf(req[r]) \in Sample /\ SampleOf(req[r]).parts = req[r].parts
  BY <1>t DEF At, IInv, ActiveCert, SampleOf, Sample, HandlerState
<1>2. TypeOK'
  BY <1>t, <1>1, IdleType, FaultTypes DEF RespondState, Finish, TypeOK, dbVars, Succeed
<1>3. /\ "barometer" \in req[r].parts => Stored(barometers, SampleOf(req[r]))
      /\ "power" \in req[r].parts => Stored(powers, SampleOf(req[r]))
  BY <1>t DEF At, IInv, StoredSoFar
<1>4. StatesOfSender' /\ AckedStatesStored' /\ NoPowerWithoutBarometer'
  BY <1>1, <1>3 DEF RespondState, dbVars, IInv, StatesOfSender,
     AckedStatesStored, NoPowerWithoutBarometer
<1>5. req'[r] = Idle /\ \A q \in Requests \ {r} : req'[q] = req[q]
  BY <1>t DEF RespondState, Finish, TypeOK
<1>6. ActiveCert' /\ Identified' /\ StoredSoFar'
  BY <1>2, <1>5, IdleType, HandlerStep DEF RespondState, dbVars
<1>. QED
  BY <1>2, <1>4, <1>6 DEF IInv

(* The steps of the handlers that only end, or only read. *)
LEMMA QuietIInv ==
  ASSUME IInv, NEW r \in Requests,
         \/ RejectState(r) \/ GetStateLookup(r) \/ GetStateDefault(r)
         \/ RejectGetState(r) \/ SelectStates(r) \/ WriteRefused(r)
  PROVE  IInv'
<1>t. TypeOK
  BY DEF IInv
<1>1. CASE GetStateLookup(r)
  BY <1>1, GotoStep DEF GetStateLookup, Succeed, At
<1>2. CASE Finish(r) /\ (Succeed \/ Refuse) /\ UNCHANGED <<dbVars, clientVars, requestVars>>
  <2>1. TypeOK'
    BY <1>2, <1>t, IdleType, FaultTypes DEF Finish, TypeOK, dbVars, clientVars
  <2>. QED
    BY <1>2, <2>1, FinishStep DEF dbVars, clientVars
<1>. QED
  BY <1>1, <1>2
  DEF RejectState, GetStateDefault, RejectGetState, SelectStates, WriteRefused, Missing, Succeed

(* The process ends: only the handlers go. *)
LEMMA RestartIInv ==
  ASSUME IInv, Restart
  PROVE  IInv'
<1>1. /\ req' \in [Requests -> HandlerState]
      /\ \A r \in Requests : req'[r].pc = "idle"
  BY IdleType DEF Restart
<1>2. TypeOK'
  BY <1>1 DEF Restart, IInv, TypeOK, dbVars, clientVars, requestVars
<1>3. ActiveCert' /\ Identified' /\ StoredSoFar'
  BY <1>1 DEF ActiveCert, Identified, StoredSoFar
<1>. QED
  BY <1>2, <1>3, TablesKept DEF Restart, dbVars, clientVars, IInv

(* The invariant is inductive. *)
LEMMA NextIInv == IInv /\ [Next]_vars => IInv'
<1> SUFFICES ASSUME IInv, [Next]_vars PROVE IInv'
  OBVIOUS
<1>1. ASSUME NEW r \in Requests, ReceiveAny(r) PROVE IInv'
  BY <1>1, ReceiveIInv
<1>2. ASSUME NEW r \in Requests, NodeHandler(r) PROVE IInv'
  BY <1>2, NodeIInv
<1>3. ASSUME NEW r \in Requests, StateHandler(r) \/ WriteRefused(r) PROVE IInv'
  BY <1>3, IdentifyIInv, BarometerIInv, PowerIInv, RespondIInv, QuietIInv
  DEF StateHandler
<1>4. CASE Restart
  BY <1>4, RestartIInv
<1>5. CASE UNCHANGED vars
  <2>1. UNCHANGED <<req, nodes, nextNode, barometers, powers, registered, acked,
                    refused, lost, restarts, overlapped, served>>
    BY <1>5 DEF vars, dbVars, clientVars, faultVars, requestVars
  <2>2. TypeOK' /\ ActiveCert' /\ Identified' /\ StoredSoFar'
    BY <2>1 DEF IInv, TypeOK, ActiveCert, Identified, StoredSoFar
  <2>. QED
    BY <2>1, <2>2, TablesKept DEF IInv
<1>. QED
  BY <1>1, <1>2, <1>3, <1>4, <1>5 DEF Next

(* The inductive invariant holds in every reachable state. *)
THEOREM Invariant == Spec => []IInv
BY InitIInv, NextIInv, PTL DEF Spec
-----------------------------------------------------------------------------
(* Every variable keeps its type; in particular no state row has the node id 0
   of a handler that never identified its sender. *)
THEOREM TypeCorrect == Spec => []TypeOK
<1>1. IInv => TypeOK
  BY DEF IInv
<1>. QED
  BY <1>1, Invariant, PTL

(* However handlers overlap, calls fail and fingerprints are duplicated, a stored
   state belongs to an existing node of the client that sent it. *)
THEOREM StatesBelongToSenders == Spec => []StatesOfSender
<1>1. IInv => StatesOfSender
  BY DEF IInv
<1>. QED
  BY <1>1, Invariant, PTL

(* An answer of 200 to POST /node/state is only given for what is stored, and
   stays true across restarts. *)
THEOREM AckedStatesAreStored == Spec => []AckedStatesStored
<1>1. IInv => AckedStatesStored
  BY DEF IInv
<1>. QED
  BY <1>1, Invariant, PTL

(* The two inserts of a POST /node/state fail in one way only. *)
THEOREM PartialFailureOrder == Spec => []NoPowerWithoutBarometer
<1>1. IInv => NoPowerWithoutBarometer
  BY DEF IInv
<1>. QED
  BY <1>1, Invariant, PTL
-----------------------------------------------------------------------------
(* What handlers that do not overlap guarantee in addition. *)

(* One handler at a time. *)
Alone ==
  ~overlapped =>
    \A q, r \in Requests : req[q].pc # "idle" /\ req[r].pc # "idle" => q = r

(* What the lookup of POST /node did not find is still not there. *)
LookupCurrent ==
  ~overlapped /\ refused = 0 =>
    \A r \in Requests : req[r].pc = "insertNode" => NodesOf(req[r].cert) = {}

OnePerCert ==
  ~overlapped /\ refused = 0 => \A m, n \in nodes : m.cert = n.cert => m = n

(* Whatever happens, a client that was told of its node has one. *)
RegisteredStored == \A c \in registered : NodesOf(c) # {}

SeqInv == Alone /\ LookupCurrent /\ OnePerCert /\ RegisteredStored

(* Initially there is nothing. *)
LEMMA InitSeqInv == Init => SeqInv
BY IdleType DEF Init, SeqInv, Alone, LookupCurrent, OnePerCert, RegisteredStored

(* Unique and present is exactly one. *)
LEMMA SeqFound == SeqInv => RegisteredIsFound
<1> SUFFICES ASSUME SeqInv, ~overlapped, refused = 0, NEW c \in registered
             PROVE  Cardinality(NodesOf(c)) = 1
  BY DEF RegisteredIsFound
<1>1. PICK n \in NodesOf(c) : TRUE
  BY DEF SeqInv, RegisteredStored
<1>2. NodesOf(c) = {n}
  BY <1>1 DEF SeqInv, OnePerCert, NodesOf
<1>. QED
  BY <1>2, FS_Singleton

(* A step by which handler r adds no node, tells nobody of one, and comes to no
   insert. *)
LEMMA QuietSeq ==
  ASSUME TypeOK, TypeOK', SeqInv, NEW r \in Requests, req[r].pc # "idle",
         UNCHANGED <<nodes, registered, overlapped>>, refused' >= refused,
         \A q \in Requests \ {r} : req'[q] = req[q],
         req'[r].pc # "insertNode"
  PROVE  SeqInv'
<1>1. refused' = 0 => refused = 0
  BY DEF TypeOK
<1>2. Alone'
  BY DEF SeqInv, Alone
<1>3. LookupCurrent' /\ OnePerCert' /\ RegisteredStored'
  BY <1>1 DEF SeqInv, LookupCurrent, OnePerCert, RegisteredStored, NodesOf
<1>. QED
  BY <1>2, <1>3 DEF SeqInv

(* The same for a step that no handler takes. *)
LEMMA IdleSeq ==
  ASSUME SeqInv, UNCHANGED <<nodes, registered, overlapped, refused>>,
         req' = req \/ (\A r \in Requests : req'[r].pc = "idle")
  PROVE  SeqInv'
BY DEF SeqInv, Alone, LookupCurrent, OnePerCert, RegisteredStored, NodesOf

(* A handler that starts alone is the only one. *)
LEMMA ReceiveSeq ==
  ASSUME TypeOK, SeqInv, NEW r \in Requests, ReceiveAny(r)
  PROVE  SeqInv'
<1>1. PICK label \in {"getNode", "postNode", "postState", "getState"},
           c \in Certs, parts \in SUBSET Part, limit \in BOOLEAN :
        Receive(r, label, c, parts, limit)
  BY DEF ReceiveAny
<1>2. /\ \A q \in Requests \ {r} : req'[q] = req[q]
      /\ req'[r].pc = label
      /\ UNCHANGED <<nodes, registered, refused>>
  BY <1>1 DEF Receive, TypeOK, dbVars, clientVars, faultVars
<1>3. ~overlapped' => ~overlapped /\ \A q \in Requests : req[q].pc = "idle"
  BY <1>1, Zenon DEF Receive, At
<1>4. Alone'
  BY <1>2, <1>3 DEF Alone
<1>5. LookupCurrent' /\ OnePerCert' /\ RegisteredStored'
  BY <1>2, <1>3 DEF SeqInv, LookupCurrent, OnePerCert, RegisteredStored, NodesOf
<1>. QED
  BY <1>4, <1>5 DEF SeqInv

(* The steps of POST /node. *)
LEMMA PostNodeSeq ==
  ASSUME TypeOK, TypeOK', SeqInv, NEW r \in Requests,
         NodeExists(r) \/ NodeMissing(r) \/ InsertNode(r)
  PROVE  SeqInv'
<1>t. req[r].pc # "idle" /\ \A q \in Requests \ {r} : req'[q] = req[q]
  BY IdleType DEF NodeExists, NodeMissing, InsertNode, At, Goto, Finish, TypeOK
<1>a. Alone'
  BY <1>t DEF NodeExists, NodeMissing, InsertNode, requestVars, SeqInv, Alone
<1>1. CASE NodeExists(r)
  <2>1. /\ UNCHANGED <<nodes, overlapped, refused>> /\ req'[r].pc = "idle"
        /\ registered' = registered \cup {req[r].cert}
    BY <1>1, IdleType
    DEF NodeExists, Finish, dbVars, faultVars, requestVars, TypeOK
  <2>2. NodesOf(req[r].cert) # {}
    BY <1>1, FS_EmptySet DEF NodeExists, Found
  <2>3. RegisteredStored'
    BY <2>1, <2>2 DEF SeqInv, RegisteredStored, NodesOf
  <2>4. LookupCurrent' /\ OnePerCert'
    BY <2>1, <1>t DEF SeqInv, LookupCurrent, OnePerCert, NodesOf
  <2>. QED
    BY <1>a, <2>3, <2>4 DEF SeqInv
<1>2. CASE NodeMissing(r)
  <2>1. /\ UNCHANGED <<nodes, registered, overlapped>>
        /\ req'[r].pc = "insertNode" /\ req'[r].cert = req[r].cert
    BY <1>2 DEF NodeMissing, Goto, dbVars, clientVars, requestVars, TypeOK, HandlerState
  <2>2. /\ refused' = 0 => refused = 0
        /\ refused' = 0 => Cardinality(NodesOf(req[r].cert)) # 1
    BY <1>2 DEF NodeMissing, Missing, Found, Succeed, Refuse, faultVars, TypeOK
  <2>3. ASSUME ~overlapped, refused' = 0, NEW n \in NodesOf(req[r].cert)
        PROVE  FALSE
    <3>1. NodesOf(req[r].cert) = {n}
      BY <2>2, <2>3 DEF SeqInv, OnePerCert, NodesOf
    <3>. QED
      BY <2>2, <2>3, <3>1, FS_Singleton
  <2>4. LookupCurrent'
    BY <2>1, <2>2, <2>3, <1>t DEF SeqInv, LookupCurrent, NodesOf
  <2>5. OnePerCert' /\ RegisteredStored'
    BY <2>1, <2>2 DEF SeqInv, OnePerCert, RegisteredStored, NodesOf
  <2>. QED
    BY <1>a, <2>4, <2>5 DEF SeqInv
<1>3. CASE InsertNode(r)
  <2>1. /\ nodes' = nodes \cup {[id |-> nextNode, cert |-> req[r].cert]}
        /\ registered' \subseteq registered \cup {req[r].cert}
        /\ req[r].pc = "insertNode" /\ req'[r].pc = "idle"
    BY <1>3, IdleType DEF InsertNode, Finish, At, TypeOK
  <2>2. overlapped' = overlapped /\ refused' = refused
    BY <1>3 DEF InsertNode, Succeed, LoseAnswer, faultVars, requestVars
  <2>3. RegisteredStored'
    BY <2>1 DEF SeqInv, RegisteredStored, NodesOf
  <2>4. OnePerCert'
    BY <2>1, <2>2 DEF SeqInv, OnePerCert, LookupCurrent, NodesOf
  <2>5. LookupCurrent'
    BY <2>1, <2>2, <1>t DEF SeqInv, Alone, LookupCurrent
  <2>. QED
    BY <1>a, <2>3, <2>4, <2>5 DEF SeqInv
<1>. QED
  BY <1>1, <1>2, <1>3

(* The other steps of the handlers. *)
LEMMA OtherSeq ==
  ASSUME TypeOK, TypeOK', SeqInv, NEW r \in Requests,
         GetNode(r) \/ StateHandler(r) \/ WriteRefused(r)
  PROVE  SeqInv'
<1>1. /\ UNCHANGED <<nodes, registered, overlapped>> /\ req[r].pc # "idle"
  BY DEF GetNode, StateHandler, WriteRefused, IdentifySender, RejectState,
     InsertBarometer, InsertPower, RespondState, GetStateLookup, GetStateDefault,
     RejectGetState, SelectStates, At, dbVars, clientVars, requestVars
<1>2. refused' >= refused
  <2>1. UNCHANGED faultVars \/ Refuse \/ LoseAnswer
    BY DEF GetNode, StateHandler, WriteRefused, IdentifySender, RejectState,
       InsertBarometer, InsertPower, RespondState, GetStateLookup, GetStateDefault,
       RejectGetState, SelectStates, Missing, Succeed
  <2>. QED
    BY <2>1 DEF Refuse, LoseAnswer, faultVars, TypeOK
<1>3. CASE Finish(r)
  <2>1. req'[r].pc = "idle" /\ \A q \in Requests \ {r} : req'[q] = req[q]
    BY <1>3, IdleType DEF Finish, TypeOK
  <2>. QED
    BY <1>1, <1>2, <2>1, QuietSeq
<1>4. CASE IdentifySender(r)
  <2>1. FirstWrite(req[r].parts) # "insertNode"
    BY DEF FirstWrite, PowerOrRespond
  <2>2. /\ req'[r].pc = FirstWrite(req[r].parts)
        /\ \A q \in Requests \ {r} : req'[q] = req[q]
    BY <1>4 DEF IdentifySender, TypeOK, HandlerState
  <2>. QED
    BY <1>1, <1>2, <2>1, <2>2, QuietSeq
<1>5. ASSUME NEW label \in {"insertPower", "respond", "select"}, Goto(r, label)
      PROVE  SeqInv'
  <2>1. req'[r].pc = label /\ \A q \in Requests \ {r} : req'[q] = req[q]
    BY <1>5 DEF Goto, TypeOK, HandlerState
  <2>. QED
    BY <1>1, <1>2, <2>1, QuietSeq
<1>6. PowerOrRespond(req[r].parts) \in {"insertPower", "respond"}
  BY DEF PowerOrRespond
<1>. QED
  BY <1>3, <1>4, <1>5, <1>6
  DEF GetNode, StateHandler, WriteRefused, RejectState,
     InsertBarometer, InsertPower, RespondState, GetStateLookup, GetStateDefault,
     RejectGetState, SelectStates

(* The sequential invariant is inductive, given the types. *)
LEMMA NextSeqInv == TypeOK /\ TypeOK' /\ SeqInv /\ [Next]_vars => SeqInv'
<1> SUFFICES ASSUME TypeOK, TypeOK', SeqInv, [Next]_vars PROVE SeqInv'
  OBVIOUS
<1>1. Restart \/ UNCHANGED vars => SeqInv'
  BY IdleSeq, IdleType DEF Restart, vars, dbVars, clientVars, faultVars, requestVars
<1>. QED
  BY <1>1, ReceiveSeq, PostNodeSeq, OtherSeq DEF Next, NodeHandler

(* A client that was told of its node is found, as long as handlers do not overlap
   and no call is refused, whatever answers are lost and whenever the process
   ends. *)
THEOREM SequentiallyFound == Spec => []RegisteredIsFound
BY InitSeqInv, NextSeqInv, SeqFound, TypeCorrect, PTL DEF Spec
=============================================================================
