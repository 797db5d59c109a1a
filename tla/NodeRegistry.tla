---------------------------- MODULE NodeRegistry ----------------------------
(***************************************************************************)
(* The nodes and the states they report: the handlers of /node and          *)
(* /node/state (server/route/node), which know a client by the fingerprint  *)
(* of its certificate. Each is a sequence of database calls without a       *)
(* transaction; nothing in the schema makes a fingerprint unique, or ties a *)
(* state to a node that exists.                                             *)
(*                                                                         *)
(* The database is modelled as in CameraRegistry: one call is atomic, keys  *)
(* come from a sequence, Select into a struct needs exactly one row.        *)
(***************************************************************************)
EXTENDS Naturals, FiniteSets

CONSTANTS
  Certs,         \* client certificates, by fingerprint
  None,          \* no certificate: a handler that serves no request
  Requests,      \* handler goroutines in flight at a time
  MaxFaults,     \* bound on the database calls that fail
  MaxRequests,   \* bound on the requests served
  MaxRestarts    \* bound on the restarts of the server process

ASSUME NodeConstants ==
  /\ None \notin Certs
  /\ MaxFaults \in Nat /\ MaxRequests \in Nat /\ MaxRestarts \in Nat

VARIABLES
  \* The database.
  nodes,        \* nodes: rows [id, cert]
  nextNode,     \* sequence of nodes.id
  barometers,   \* node_barometer_states: rows [node, sample]
  powers,       \* node_power_states: rows [node, sample]
  \* The process.
  req,          \* the local state of each handler
  \* What clients have been told.
  registered,   \* certificates whose POST /node was answered 200 or 409
  acked,        \* samples whose POST /node/state was answered 200
  \* What has gone wrong so far.
  refused,      \* calls that failed and had no effect
  lost,         \* calls that had their effect and seemed to fail
  restarts,     \* restarts of the process
  overlapped,   \* two handlers have been under way at a time
  \* The requests so far, which are numbered.
  served

dbVars      == <<nodes, nextNode, barometers, powers>>
clientVars  == <<registered, acked>>
faultVars   == <<refused, lost, restarts>>
requestVars == <<overlapped, served>>
vars        == <<dbVars, req, clientVars, faultVars, requestVars>>

(* Sequences start at 1. *)
Key  == Nat \ {0}
Node == [id : Key, cert : Certs]

(* What a client sends in one POST /node/state; the number tells requests with
   the same readings apart. *)
Part   == {"barometer", "power"}
Sample == [of : Certs, number : Nat, parts : SUBSET Part]
Row    == [node : Key, sample : Sample]

(* The database call a handler is about to make; "idle" before a request and
   after its response. *)
HandlerPC == {"idle", "getNode", "postNode", "insertNode",
              "postState", "insertBarometer", "insertPower", "respond",
              "getState", "select"}

(* limit: the body of a GET /node/state has a Limit. node: node.Id. *)
HandlerState ==
  [pc : HandlerPC, cert : Certs \cup {None}, number : Nat,
   parts : SUBSET Part, limit : BOOLEAN, node : Nat]

Idle == [pc |-> "idle", cert |-> None, number |-> 0,
         parts |-> {}, limit |-> FALSE, node |-> 0]

TypeOK ==
  /\ nodes \in SUBSET Node /\ nextNode \in Key
  /\ barometers \in SUBSET Row /\ powers \in SUBSET Row
  /\ req \in [Requests -> HandlerState]
  /\ registered \in SUBSET Certs /\ acked \in SUBSET Sample
  /\ refused \in Nat /\ lost \in Nat /\ restarts \in Nat
  /\ overlapped \in BOOLEAN /\ served \in Nat

Init ==
  /\ nodes = {} /\ nextNode = 1 /\ barometers = {} /\ powers = {}
  /\ req = [r \in Requests |-> Idle]
  /\ registered = {} /\ acked = {}
  /\ refused = 0 /\ lost = 0 /\ restarts = 0
  /\ overlapped = FALSE /\ served = 0
-----------------------------------------------------------------------------
NodesOf(c) == {n \in nodes : n.cert = c}

(* How a call may go: well; it fails and has no effect; it has its effect and the
   connection is lost before the answer. *)
Succeed == UNCHANGED faultVars

Refuse ==
  /\ refused + lost < MaxFaults /\ refused' = refused + 1
  /\ UNCHANGED <<lost, restarts>>

LoseAnswer ==
  /\ refused + lost < MaxFaults /\ lost' = lost + 1
  /\ UNCHANGED <<refused, restarts>>

At(r, label)   == req[r].pc = label
Goto(r, label) == req' = [req EXCEPT ![r].pc = label]
Finish(r)      == req' = [req EXCEPT ![r] = Idle]

SampleOf(h) == [of |-> h.cert, number |-> h.number, parts |-> h.parts]

(* GetNodeByFingerprint: exactly one row, or an error, whatever its cause. *)
Found(r)   == Cardinality(NodesOf(req[r].cert)) = 1
Missing(r) == (~Found(r) /\ Succeed) \/ Refuse

(* A request whose body parses starts its handler. *)
Receive(r, label, c, parts, limit) ==
  /\ At(r, "idle") /\ served < MaxRequests
  /\ served' = served + 1
  /\ overlapped' = (overlapped \/ \E q \in Requests : ~At(q, "idle"))
  /\ req' = [req EXCEPT ![r] = [pc |-> label, cert |-> c, number |-> served,
                                parts |-> parts, limit |-> limit, node |-> 0]]
  /\ UNCHANGED <<dbVars, clientVars, faultVars>>
-----------------------------------------------------------------------------
(* nodeGetHandler: 200 or 404, followed by "null" for want of a return. *)
GetNode(r) ==
  /\ At(r, "getNode")
  /\ Finish(r)
  /\ UNCHANGED <<dbVars, clientVars, faultVars, requestVars>>

(* nodePostHandler: 409. *)
NodeExists(r) ==
  /\ At(r, "postNode") /\ Found(r)
  /\ registered' = registered \cup {req[r].cert}
  /\ Finish(r)
  /\ UNCHANGED <<dbVars, acked, faultVars, requestVars>>

(* Mutant of NodeMissing: the fingerprint is not looked up. *)
NodeMissingUnchecked(r) ==
  /\ At(r, "postNode")
  /\ Goto(r, "insertNode")
  /\ UNCHANGED <<dbVars, clientVars, faultVars, requestVars>>

NodeMissing(r) ==
  /\ At(r, "postNode") /\ Missing(r)
  /\ Goto(r, "insertNode")
  /\ UNCHANGED <<dbVars, clientVars, requestVars>>

InsertNode(r) ==
  /\ At(r, "insertNode")
  /\ nodes' = nodes \cup {[id |-> nextNode, cert |-> req[r].cert]}
  /\ nextNode' = nextNode + 1
  /\ \/ registered' = registered \cup {req[r].cert} /\ Succeed
     \/ registered' = registered /\ LoseAnswer
  /\ Finish(r)
  /\ UNCHANGED <<barometers, powers, acked, requestVars>>
-----------------------------------------------------------------------------
(* nodeStatePostHandler. *)

(* The next write, once the barometer state is dealt with, and from the start. *)
PowerOrRespond(parts) == IF "power" \in parts THEN "insertPower" ELSE "respond"
FirstWrite(parts) ==
  IF "barometer" \in parts THEN "insertBarometer" ELSE PowerOrRespond(parts)

(* Mutant of IdentifySender: any row of the nodes table is taken for the sender's. *)
IdentifyAnyone(r) ==
  /\ At(r, "postState") /\ req[r].parts # {}
  /\ \E n \in nodes :
       req' = [req EXCEPT ![r] =
                 [@ EXCEPT !.pc = FirstWrite(req[r].parts), !.node = n.id]]
  /\ UNCHANGED <<dbVars, clientVars, faultVars, requestVars>>

IdentifySender(r) ==
  /\ At(r, "postState") /\ req[r].parts # {}
  /\ Found(r)
  /\ \E n \in NodesOf(req[r].cert) :
       req' = [req EXCEPT ![r] =
                 [@ EXCEPT !.pc = FirstWrite(req[r].parts), !.node = n.id]]
  /\ UNCHANGED <<dbVars, clientVars, faultVars, requestVars>>

(* 400 without a state, 401 without a node: nothing is written. *)
RejectState(r) ==
  /\ At(r, "postState")
  /\ (req[r].parts = {} /\ Succeed) \/ Missing(r)
  /\ Finish(r)
  /\ UNCHANGED <<dbVars, clientVars, requestVars>>

NewRow(r) == [node |-> req[r].node, sample |-> SampleOf(req[r])]

InsertBarometer(r) ==
  /\ At(r, "insertBarometer")
  /\ barometers' = barometers \cup {NewRow(r)}
  /\ \/ Goto(r, PowerOrRespond(req[r].parts)) /\ Succeed
     \/ Finish(r) /\ LoseAnswer
  /\ UNCHANGED <<nodes, nextNode, powers, clientVars, requestVars>>

InsertPower(r) ==
  /\ At(r, "insertPower")
  /\ powers' = powers \cup {NewRow(r)}
  /\ (Goto(r, "respond") /\ Succeed) \/ (Finish(r) /\ LoseAnswer)
  /\ UNCHANGED <<nodes, nextNode, barometers, clientVars, requestVars>>

RespondState(r) ==
  /\ At(r, "respond")
  /\ acked' = acked \cup {SampleOf(req[r])}
  /\ Finish(r)
  /\ UNCHANGED <<dbVars, registered, faultVars, requestVars>>

(* Mutant of WriteRefused: the error is logged and the handler goes on. *)
WriteRefusedIgnored(r) ==
  /\ req[r].pc \in {"insertNode", "insertBarometer", "insertPower"}
  /\ Refuse
  /\ CASE At(r, "insertNode")      -> Finish(r)
       [] At(r, "insertBarometer") -> Goto(r, PowerOrRespond(req[r].parts))
       [] At(r, "insertPower")     -> Goto(r, "respond")
  /\ UNCHANGED <<dbVars, clientVars, requestVars>>

(* A write that is refused ends the request: 500 or 400. What the handler has
   written before stays. *)
WriteRefused(r) ==
  /\ req[r].pc \in {"insertNode", "insertBarometer", "insertPower"}
  /\ Refuse
  /\ Finish(r)
  /\ UNCHANGED <<dbVars, clientVars, requestVars>>
-----------------------------------------------------------------------------
(* nodeStateGetHandler. *)

GetStateLookup(r) ==
  /\ At(r, "getState") /\ Found(r) /\ req[r].limit
  /\ Goto(r, "select")
  /\ UNCHANGED <<dbVars, clientVars, faultVars, requestVars>>

(* The default is stored through the nil pointer: net/http recovers the panic
   and drops the connection. *)
GetStateDefault(r) ==
  /\ At(r, "getState") /\ Found(r) /\ ~req[r].limit
  /\ Finish(r)
  /\ UNCHANGED <<dbVars, clientVars, faultVars, requestVars>>

RejectGetState(r) ==
  /\ At(r, "getState") /\ Missing(r)
  /\ Finish(r)
  /\ UNCHANGED <<dbVars, clientVars, requestVars>>

(* The rows, an error of the query, or 400 for an unknown type. *)
SelectStates(r) ==
  /\ At(r, "select")
  /\ Finish(r)
  /\ UNCHANGED <<dbVars, clientVars, faultVars, requestVars>>
-----------------------------------------------------------------------------
(* The process ends at any point and is started again. *)
Restart ==
  /\ restarts < MaxRestarts
  /\ restarts' = restarts + 1
  /\ req' = [r \in Requests |-> Idle]
  /\ UNCHANGED <<dbVars, clientVars, refused, lost, requestVars>>

ReceiveAny(r) ==
  \E c \in Certs :
    \/ Receive(r, "getNode", c, {}, FALSE)
    \/ Receive(r, "postNode", c, {}, FALSE)
    \/ \E parts \in SUBSET Part : Receive(r, "postState", c, parts, FALSE)
    \/ \E limit \in BOOLEAN : Receive(r, "getState", c, {}, limit)

NodeHandler(r) ==
  GetNode(r) \/ NodeExists(r) \/ NodeMissing(r) \/ InsertNode(r)

StateHandler(r) ==
  \/ IdentifySender(r) \/ RejectState(r)
  \/ InsertBarometer(r) \/ InsertPower(r) \/ RespondState(r)
  \/ GetStateLookup(r) \/ GetStateDefault(r) \/ RejectGetState(r)
  \/ SelectStates(r)

Next ==
  \/ \E r \in Requests :
       ReceiveAny(r) \/ NodeHandler(r) \/ StateHandler(r) \/ WriteRefused(r)
  \/ Restart

Spec == Init /\ [][Next]_vars
-----------------------------------------------------------------------------
(* Every stored state belongs to a node that exists, and to the one whose
   certificate sent it, although two nodes may have the same fingerprint and
   the schema has no foreign key. *)
StatesOfSender ==
  \A s \in barometers \cup powers :
    [id |-> s.node, cert |-> s.sample.of] \in nodes

Stored(rows, sample) == \E s \in rows : s.sample = sample

(* What was answered with 200 has been stored, in all its parts, and outlives
   the process. *)
AckedStatesStored ==
  \A sample \in acked :
    /\ "barometer" \in sample.parts => Stored(barometers, sample)
    /\ "power" \in sample.parts => Stored(powers, sample)

(* When a write fails half-way, it is the power state that is missing: a power
   state is never stored without the barometer state it came with. *)
NoPowerWithoutBarometer ==
  \A s \in powers :
    "barometer" \in s.sample.parts => Stored(barometers, s.sample)

(* A client that has been told its node exists finds exactly one, whatever answers
   were lost and whenever the process ended: its next GET is not a 404, its next
   state not a 401. For handlers that overlap, or after a lookup that failed, it
   need not be so. *)
RegisteredIsFound ==
  ~overlapped /\ refused = 0 =>
    \A c \in registered : Cardinality(NodesOf(c)) = 1
=============================================================================
