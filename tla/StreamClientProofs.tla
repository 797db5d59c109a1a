------------------------- MODULE StreamClientProofs -------------------------
(***************************************************************************)
(* Theorems about StreamClient, for any framing and any number of parts on  *)
(* the way: what the wait group counts follows from where the two           *)
(* goroutines are.                                                          *)
(***************************************************************************)
EXTENDS StreamClient, TLAPS

(* 1 once wg.Add has been called, once wg.Done has been called. *)
Added     == IF main \in {"gtk", "wait", "post"} THEN 1 ELSE 0
Withdrawn == IF viewer \in {"body", "close", "returned"} THEN 1 ELSE 0

(* The wait group counts the goroutine; a process that goes on has not panicked. *)
Counted == Alive => wg = Added - Withdrawn /\ wg >= 0

(* The goroutine is started after everything the main one does before wg.Add. *)
StartedLate == main \in {"setup", "open", "box"} => viewer = "off"

(* wg.Wait has been passed. *)
Passed == main = "post" => wg = 0

IInv == TypeOK /\ Counted /\ StartedLate /\ Passed
-----------------------------------------------------------------------------
(* No goroutine, nothing counted. *)
LEMMA InitIInv == Init => IInv
<1>1. 0 \in 0..Capacity
  BY StreamConstants
<1>2. Init => TypeOK
  BY <1>1 DEF Init, TypeOK, MainPC, ViewerPC, Connection, HandlerPC, Response
<1>. QED
  BY <1>2 DEF Init, IInv, Counted, StartedLate, Passed, Added, Withdrawn, Alive

(* The main goroutine counts once, and passes wg.Wait when nobody is counted. *)
LEMMA MainIInv ==
  ASSUME IInv, Main \/ UserCloses \/ Interrupt
  PROVE  IInv'
<1> USE DEF IInv, TypeOK, Counted, StartedLate, Passed, Added, Withdrawn, Alive, MainPC,
        ViewerPC, Connection, HandlerPC, mainVars, streamVars, serverVars, Exit
<1>1. SetUp => IInv'
  BY DEF SetUp, ClientContext
<1>2. OpenStream => IInv'
  BY DEF OpenStream
<1>3. StartViewer => IInv'
  BY DEF StartViewer
<1>4. Count => IInv'
  BY DEF Count
<1>5. CloseEvent \/ UserCloses => IInv'
  BY DEF CloseEvent, UserCloses
<1>6. WaitOver => IInv'
  BY DEF WaitOver
<1>7. Return => IInv'
  BY DEF Return
<1>8. Interrupt => IInv'
  BY DEF Interrupt
<1>. QED
  BY <1>1, <1>2, <1>3, <1>4, <1>5, <1>6, <1>7, <1>8 DEF Main

(* The goroutine withdraws once, or ends the process. *)
LEMMA ViewerIInv == ASSUME IInv, Viewer PROVE IInv'
<1> USE DEF IInv, TypeOK, Counted, StartedLate, Passed, Added, Withdrawn, Alive, MainPC,
        ViewerPC, Connection, HandlerPC, mainVars, streamVars, serverVars, Exit
<1>1. Terminate \/ Continue => IInv'
  BY DEF Terminate, Continue
<1>2. ASSUME Decode PROVE IInv'
  <2>1. wire' \in 0..Capacity
    BY <1>2, StreamConstants DEF Decode
  <2>. QED
    BY <1>2, <2>1 DEF Decode
<1>3. DecodeFails => IInv'
  BY DEF DecodeFails
<1>4. ASSUME Uncount PROVE IInv'
  <2>1. wg = 0 \/ wg = 1
    BY <1>4 DEF Uncount
  <2>2. CASE wg = 0
    BY <1>4, <2>2 DEF Uncount
  <2>3. CASE wg = 1
    BY <1>4, <2>3 DEF Uncount
  <2>. QED
    BY <2>1, <2>2, <2>3
<1>5. CloseBody => IInv'
  BY DEF CloseBody
<1>6. CloseWindow => IInv'
  BY DEF CloseWindow
<1>. QED
  BY <1>1, <1>2, <1>3, <1>4, <1>5, <1>6 DEF Viewer

(* The server and the network count nothing. *)
LEMMA ServerIInv == ASSUME IInv, Server \/ LoseConnection PROVE IInv'
<1> USE DEF IInv, TypeOK, Counted, StartedLate, Passed, Added, Withdrawn, Alive, Connection,
        HandlerPC, Response, mainVars, streamVars, serverVars, clientVars
<1>1. ASSUME WritePart PROVE IInv'
  <2>1. wire' \in 0..Capacity
    BY <1>1, StreamConstants DEF WritePart
  <2>. QED
    BY <1>1, <2>1 DEF WritePart
<1>2. Tick \/ CreatePart \/ WriteLost => IInv'
  BY DEF Tick, CreatePart, WriteLost
<1>3. WriteFails => IInv'
  BY DEF WriteFails
<1>4. NoticeDeparture \/ Unsubscribe \/ Expire \/ Shutdown \/ LoseConnection => IInv'
  BY DEF NoticeDeparture, Unsubscribe, Expire, Shutdown, LoseConnection
<1>. QED
  BY <1>1, <1>2, <1>3, <1>4 DEF Server

LEMMA NextIInv == IInv /\ [Next]_vars => IInv'
<1> SUFFICES ASSUME IInv, [Next]_vars PROVE IInv'
  OBVIOUS
<1>1. CASE UNCHANGED vars
  BY <1>1 DEF vars, mainVars, streamVars, serverVars, IInv, TypeOK, Counted, StartedLate, Passed, Added,
     Withdrawn, Alive
<1>. QED
  BY <1>1, MainIInv, ViewerIInv, ServerIInv DEF Next

(* The inductive invariant of the command and its stream. *)
THEOREM Invariant == Spec => []IInv
BY InitIInv, NextIInv, PTL DEF Spec

(* Every variable keeps its type. *)
THEOREM TypeCorrect == Spec => []TypeOK
<1>1. IInv => TypeOK
  BY DEF IInv
<1>. QED
  BY <1>1, Invariant, PTL

(* The command returns only when its goroutine has withdrawn from the wait group. *)
THEOREM CommandWaits == Spec => []WaitsForViewer
<1>1. IInv => WaitsForViewer
  BY DEF IInv, Counted, Passed, Alive, Added, Withdrawn, WaitsForViewer
<1>. QED
  BY <1>1, Invariant, PTL

(* The wait group panics only in the gap before wg.Add. *)
THEOREM PanicOnlyInTheGap == Spec => PanicsOnlyUncounted
<1>1. IInv /\ [Next]_vars => [panicked' # panicked => main = "add"]_vars
  <2> SUFFICES ASSUME IInv, Next, panicked' # panicked PROVE main = "add"
    BY DEF vars, mainVars
  <2>1. Uncount /\ wg = 0
    BY DEF Next, Main, Viewer, SetUp, OpenStream, StartViewer, Count, CloseEvent, WaitOver,
       Return, UserCloses, Interrupt, Terminate, Continue, Decode, DecodeFails, Uncount,
       CloseBody, CloseWindow, Server, Tick, CreatePart, WritePart, WriteLost, WriteFails,
       NoticeDeparture, Unsubscribe, Expire, Shutdown, LoseConnection, clientVars, mainVars
  <2>. QED
    BY <2>1 DEF Uncount, IInv, TypeOK, MainPC, Counted, StartedLate, Alive, Added, Withdrawn
<1>. QED
  BY <1>1, Invariant, PTL DEF Spec, PanicsOnlyUncounted
=============================================================================
