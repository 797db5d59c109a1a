---------------------------- MODULE StreamClient ----------------------------
(***************************************************************************)
(* The command "camera stream" of the client (client/cmd/stream_cameras.go) *)
(* and the handler of /camera/subscribe that serves it. In the client run   *)
(* the main goroutine, which becomes the GTK loop, the goroutine that       *)
(* decodes the stream, and the one that waits for SIGINT; they end one      *)
(* another by a wait group, three channels and the queue of GTK events.     *)
(*                                                                         *)
(* A part is what the handler sends per tick; the pictures in it are not    *)
(* told apart. The decoder expects a stream of JSON values, the handler     *)
(* sends multipart/form-data. Of net/http the handler sees three things: a  *)
(* write that fails once makes all later ones fail, and cancels the         *)
(* request's context; so does a client that is found to be gone; and the    *)
(* timeouts of the server count from the request on.                        *)
(***************************************************************************)
EXTENDS Integers

CONSTANTS
  Framings,   \* the framings of the streams the client may be given
  Capacity    \* parts that fit between handler and decoder

ASSUME StreamConstants ==
  /\ Framings \subseteq {"json", "multipart"}
  /\ Capacity \in Nat \ {0}

VARIABLES
  \* The client process.
  main,        \* where the main goroutine is
  viewer,      \* where the goroutine of streamCamera is
  wg,          \* the counter of the wait group
  sigTerm,     \* sigTerm is closed
  signalled,   \* SIGINT has been handled
  window,      \* the GTK window; winTermSig is closed by its destruction
  panicked,    \* the wait group has stopped the process
  \* The stream.
  conn,        \* the connection
  framing,     \* how its parts are framed
  wire,        \* parts sent and not decoded
  \* The server.
  handler,     \* where getSubscribeCameraHandler is
  reqDone,     \* the request's context is done
  response,    \* whether a write has failed, as the response's buffers know it
  expired      \* ReadTimeout and WriteTimeout have passed

mainVars   == <<main, wg, signalled, panicked>>
streamVars == <<conn, framing, wire>>
serverVars == <<handler, reqDone, response, expired>>
vars       == <<mainVars, viewer, sigTerm, window, streamVars, serverVars>>

(* Before setupClient, NewStream, BoxNew, wg.Add; in gtk.Main, wg.Wait and the
   post-run hook; the process has ended. *)
MainPC == {"setup", "open", "box", "add", "gtk", "wait", "post", "ended"}

(* Not started; at the select; in Decode; the three steps of cleanup; returned. *)
ViewerPC == {"off", "select", "decode", "done", "body", "close", "returned"}

(* lost: the peer has gone without a word. *)
Connection == {"none", "open", "closed", "lost"}

(* Not called; at the select; in sendState, before CreatePart and before the write of
   the part, which may block; returned. *)
HandlerPC == {"none", "select", "part", "write", "ended"}

(* failing: the connection's buffer has met the error, the response's has not yet. *)
Response == {"sound", "failing", "broken"}

TypeOK ==
  /\ main \in MainPC /\ viewer \in ViewerPC /\ wg \in {-1, 0, 1}
  /\ sigTerm \in BOOLEAN /\ signalled \in BOOLEAN /\ panicked \in BOOLEAN
  /\ window \in {"none", "shown", "closing", "destroyed"}
  /\ conn \in Connection /\ framing \in Framings /\ wire \in 0..Capacity
  /\ handler \in HandlerPC /\ response \in Response
  /\ reqDone \in BOOLEAN /\ expired \in BOOLEAN

Init ==
  /\ main = "setup" /\ viewer = "off" /\ wg = 0
  /\ sigTerm = FALSE /\ signalled = FALSE /\ panicked = FALSE
  /\ window = "none"
  /\ conn = "none" /\ framing \in Framings /\ wire = 0
  /\ handler = "none" /\ reqDone = FALSE /\ response = "sound" /\ expired = FALSE

Alive == main # "ended"

(* The root context is done. *)
Cancelled == signalled \/ main = "post"

(* The system closes the connection of a process that ends. *)
Exit == main' = "ended" /\ conn' = (IF conn = "open" THEN "closed" ELSE conn)
-----------------------------------------------------------------------------
(* The main goroutine. An error it returns ends the process without the post-run
   hook. *)

(* NewClientContext, or with the three files NewClientContextWithTLS. *)
ClientContext == main' = "open" /\ conn' = conn

(* setupClient. *)
SetUp ==
  /\ main = "setup"
  /\ ClientContext \/ Exit
  /\ UNCHANGED <<wg, signalled, panicked, viewer, sigTerm, window, framing, wire, serverVars>>

(* NewStream returns a stream, or an error, before or after the handler has begun. The
   answer's head comes with the handler's first part, which is under way. *)
OpenStream ==
  /\ main = "open"
  /\ \/ main' = "box" /\ conn' = "open" /\ handler' = "write"
     \/ main' = "ended" /\ conn' = "closed" /\ handler' = "write"
     \/ Exit /\ handler' = handler
  /\ UNCHANGED <<wg, signalled, panicked, viewer, sigTerm, window, framing, wire,
                 reqDone, response, expired>>

(* The window is shown and the goroutine started. *)
StartViewer ==
  /\ main = "box"
  /\ \/ main' = "add" /\ viewer' = "select" /\ window' = "shown" /\ conn' = conn
     \/ Exit /\ UNCHANGED <<viewer, window>>
  /\ UNCHANGED <<wg, signalled, panicked, sigTerm, framing, wire, serverVars>>

(* Mutant of Count: the goroutine is not counted. *)
CountSkipped ==
  /\ main = "add"
  /\ main' = "gtk"
  /\ UNCHANGED <<wg, signalled, panicked, viewer, sigTerm, window, streamVars, serverVars>>

(* wg.Add(1), once streamCamera has returned. *)
Count ==
  /\ main = "add"
  /\ wg' = wg + 1 /\ main' = "gtk"
  /\ UNCHANGED <<signalled, panicked, viewer, sigTerm, window, streamVars, serverVars>>

(* The user closes the window; the close event that cleanup has queued. *)
UserCloses ==
  /\ main = "gtk" /\ window = "shown"
  /\ window' = "destroyed" /\ main' = "wait"
  /\ UNCHANGED <<wg, signalled, panicked, viewer, sigTerm, streamVars, serverVars>>

CloseEvent ==
  /\ main = "gtk" /\ window = "closing"
  /\ window' = "destroyed" /\ main' = "wait"
  /\ UNCHANGED <<wg, signalled, panicked, viewer, sigTerm, streamVars, serverVars>>

WaitOver ==
  /\ main = "wait" /\ wg = 0
  /\ main' = "post"
  /\ UNCHANGED <<wg, signalled, panicked, viewer, sigTerm, window, streamVars, serverVars>>

(* One second after the cancellation, by the hook or by the goroutine of SIGINT. *)
Return ==
  /\ Alive /\ Cancelled
  /\ Exit
  /\ UNCHANGED <<wg, signalled, panicked, viewer, sigTerm, window, framing, wire, serverVars>>

Interrupt ==
  /\ Alive /\ ~signalled
  /\ signalled' = TRUE
  /\ UNCHANGED <<main, wg, panicked, viewer, sigTerm, window, streamVars, serverVars>>
-----------------------------------------------------------------------------
(* The goroutine of streamCamera. *)

(* Mutant of Terminate: the window's channel is not selected on. *)
TerminateUnheard ==
  /\ Alive /\ viewer = "select"
  /\ Cancelled \/ sigTerm
  /\ viewer' = "done"
  /\ UNCHANGED <<mainVars, sigTerm, window, streamVars, serverVars>>

(* One of the three channels is ready. *)
Terminate ==
  /\ Alive /\ viewer = "select"
  /\ Cancelled \/ sigTerm \/ window = "destroyed"
  /\ viewer' = "done"
  /\ UNCHANGED <<mainVars, sigTerm, window, streamVars, serverVars>>

Continue ==
  /\ Alive /\ viewer = "select"
  /\ ~(Cancelled \/ sigTerm \/ window = "destroyed")
  /\ viewer' = "decode"
  /\ UNCHANGED <<mainVars, sigTerm, window, streamVars, serverVars>>

(* A part is decoded and its pictures are shown, those that can be. *)
Decode ==
  /\ Alive /\ viewer = "decode"
  /\ wire > 0 /\ framing = "json"
  /\ wire' = wire - 1 /\ viewer' = "select"
  /\ UNCHANGED <<mainVars, sigTerm, window, conn, framing, serverVars>>

(* A boundary is not JSON; the end of the stream; an error of the connection, which
   TCP's keep-alive makes of a silent one. *)
DecodeFails ==
  /\ Alive /\ viewer = "decode"
  /\ \/ wire > 0 /\ framing = "multipart"
     \/ wire = 0 /\ handler = "ended"
     \/ conn \in {"closed", "lost"}
  /\ sigTerm' = TRUE /\ viewer' = "select"
  /\ UNCHANGED <<mainVars, window, streamVars, serverVars>>

(* cleanup: wg.Done, which panics below zero; Body.Close; win.Close, which queues an
   event if there is a window still. *)
Uncount ==
  /\ Alive /\ viewer = "done"
  /\ wg' = wg - 1
  /\ IF wg = 0
       THEN Exit /\ panicked' = TRUE /\ viewer' = viewer
       ELSE UNCHANGED <<main, conn, panicked>> /\ viewer' = "body"
  /\ UNCHANGED <<signalled, sigTerm, window, framing, wire, serverVars>>

CloseBody ==
  /\ Alive /\ viewer = "body"
  /\ conn' = IF conn = "open" THEN "closed" ELSE conn
  /\ viewer' = "close"
  /\ UNCHANGED <<mainVars, sigTerm, window, framing, wire, serverVars>>

(* Mutant of CloseWindow: the loop goes on after cleanup. *)
CloseWindowContinues ==
  /\ Alive /\ viewer = "close"
  /\ window' = IF window = "shown" THEN "closing" ELSE window
  /\ viewer' = "select"
  /\ UNCHANGED <<mainVars, sigTerm, streamVars, serverVars>>

CloseWindow ==
  /\ Alive /\ viewer = "close"
  /\ window' = IF window = "shown" THEN "closing" ELSE window
  /\ viewer' = "returned"
  /\ UNCHANGED <<mainVars, sigTerm, streamVars, serverVars>>
-----------------------------------------------------------------------------
(* getSubscribeCameraHandler and, under it, net/http. *)

clientVars == <<mainVars, viewer, sigTerm, window, framing>>

(* The select takes any case that is ready, so a done context need not be noticed at
   the first tick. *)
Tick ==
  /\ handler = "select"
  /\ handler' = "part"
  /\ UNCHANGED <<clientVars, conn, wire, reqDone, response, expired>>

(* CreatePart writes into the response's buffer and has the one error that ends the
   loop; a first part meets no error, so that the dropped result of the first sendState
   is none. *)
CreatePart ==
  /\ handler = "part"
  /\ handler' = IF response = "broken" THEN "ended" ELSE "write"
  /\ UNCHANGED <<clientVars, conn, wire, reqDone, response, expired>>

(* The part and the flush; blocked while the client does not read. *)
WritePart ==
  /\ handler = "write" /\ response = "sound" /\ ~expired
  /\ conn = "open" /\ wire < Capacity
  /\ wire' = wire + 1 /\ handler' = "select"
  /\ UNCHANGED <<clientVars, conn, reqDone, response, expired>>

(* Into the buffer of a socket whose peer is gone, as long as it has room. *)
WriteLost ==
  /\ handler = "write" /\ response = "sound" /\ ~expired
  /\ conn # "open"
  /\ handler' = "select"
  /\ UNCHANGED <<clientVars, conn, wire, reqDone, response, expired>>

(* Write's error is logged, Flush's is not even returned; the loop goes on. A part that
   overflows the response's buffer closes the connection with it. *)
WriteFails ==
  /\ handler = "write"
  /\ expired \/ conn # "open" \/ response # "sound"
  /\ response' \in IF response = "sound" THEN {"failing", "broken"} ELSE {"broken"}
  /\ conn' = IF response' = "broken" /\ conn = "open" THEN "closed" ELSE conn
  /\ reqDone' = TRUE /\ handler' = "select"
  /\ UNCHANGED <<clientVars, wire, expired>>

(* The connection's background read ends. *)
NoticeDeparture ==
  /\ handler \notin {"none", "ended"} /\ ~reqDone
  /\ conn # "open" \/ expired
  /\ reqDone' = TRUE
  /\ UNCHANGED <<clientVars, conn, wire, handler, response, expired>>

Unsubscribe ==
  /\ handler = "select" /\ reqDone
  /\ handler' = "ended"
  /\ UNCHANGED <<clientVars, conn, wire, reqDone, response, expired>>

(* Mutant of Expire: the server has no timeouts. *)
ExpireNever == FALSE /\ UNCHANGED vars

(* Five minutes after the request, whether the stream is in use or not. *)
Expire ==
  /\ handler \notin {"none", "ended"} /\ ~expired
  /\ expired' = TRUE
  /\ UNCHANGED <<clientVars, conn, wire, handler, reqDone, response>>

(* The server's process ends. *)
Shutdown ==
  /\ handler \notin {"none", "ended"}
  /\ handler' = "ended"
  /\ conn' = IF conn = "open" THEN "closed" ELSE conn
  /\ UNCHANGED <<clientVars, wire, reqDone, response, expired>>

LoseConnection ==
  /\ conn = "open"
  /\ conn' = "lost"
  /\ UNCHANGED <<clientVars, wire, serverVars>>
-----------------------------------------------------------------------------
Main ==
  \/ SetUp \/ OpenStream \/ StartViewer \/ Count \/ CloseEvent \/ WaitOver \/ Return

Viewer ==
  \/ Terminate \/ Continue \/ Decode \/ DecodeFails
  \/ Uncount \/ CloseBody \/ CloseWindow

(* What the handler does by itself. A write is answered if there is room, past its
   deadline, and after an error, which the buffers repeat; other writes may block. *)
Handler ==
  \/ Tick \/ CreatePart \/ WritePart
  \/ (expired \/ response # "sound") /\ WriteFails

Server ==
  \/ Tick \/ CreatePart \/ WritePart \/ WriteLost \/ WriteFails \/ NoticeDeparture
  \/ Unsubscribe \/ Expire \/ Shutdown

Next ==
  \/ Main \/ UserCloses \/ Interrupt
  \/ Viewer
  \/ Server \/ LoseConnection

Spec == Init /\ [][Next]_vars

(* The client's goroutines and the handler's keep running; nobody has to close the
   window or to interrupt the client. That a departure is noticed, that a write to a
   client that is gone fails, or that the select ever takes the context's case is not
   assumed; that the server's timeouts pass is, but only once the client is gone, so
   that the command does not count on them. *)
FairSpec ==
  /\ Spec
  /\ WF_vars(Main) /\ WF_vars(Return) /\ WF_vars(Viewer)
  /\ WF_vars(Handler) /\ WF_vars(conn # "open" /\ Expire)
-----------------------------------------------------------------------------
(* The counter of the wait group falls below zero only if a stream ends between the
   start of its goroutine and wg.Add(1): whichever of the three channels end the loop,
   together or in any order, cleanup runs once. *)
PanicsOnlyUncounted == [][panicked' # panicked => main = "add"]_vars

(* The command returns only after its goroutine has begun to clean up, whoever started
   it: nobody is left decoding into a window that is gone. *)
WaitsForViewer == main = "post" => viewer \in {"body", "close", "returned"}

(* A window that is closed, a stream that breaks and an interruption each end the whole
   process: decoder, GTK loop and wait group do not wait for one another for ever,
   although the decoder looks at the channels only between two parts. *)
CommandEnds ==
  (window = "destroyed" \/ sigTerm \/ Cancelled) ~> ~Alive

(* A subscriber that is gone does not hold its handler for good, although the handler
   may be blocked in a write to it, logs the error of a write and goes on, and may find
   its ticker ready whenever the context is done: the write past its deadline fails, and
   some part after it cannot be created. *)
SubscriberReleased == (conn \in {"closed", "lost"}) ~> (handler = "ended")

(* "We expect responses to be JSON": what ends a stream as broken is its end or an error
   of the connection. *)
EndsOnlyWhenBroken == sigTerm => handler = "ended" \/ conn \in {"lost", "closed"}
=============================================================================
