----------------------------- MODULE TelegramBot -----------------------------
(***************************************************************************)
(* The two users of the Telegram service (server/route/telegram): the bot,  *)
(* a goroutine that telegram.Init starts before the database and the camera *)
(* poller exist, and the handlers of POST /telegram/message.                *)
(*                                                                         *)
(* The bot library's goroutine behind GetUpdatesChan asks the service for   *)
(* updates from an offset on, which confirms those before it, and hands     *)
(* them over a buffered channel. The offset lives in the process: a new one *)
(* starts with what has not been confirmed.                                 *)
(***************************************************************************)
EXTENDS Naturals, Sequences, FiniteSets

CONSTANTS
  Requests,    \* requests of POST /telegram/message
  Kinds,       \* what users send to the bot
  Buffer,      \* capacity of the updates channel
  MaxUpdates,  \* bound on the messages users send to the bot
  MaxBoots,    \* bound on the starts of the server
  MaxFaults    \* bound on the calls of the service that fail

Kind == {"help", "parking", "snap", "unknown", "text"}

ASSUME TelegramConstants ==
  /\ Kinds \subseteq Kind
  /\ Buffer \in Nat \ {0}
  /\ MaxUpdates \in Nat /\ MaxBoots \in Nat /\ MaxFaults \in Nat

VARIABLES
  \* The Telegram service.
  updates,    \* what users sent to the bot; update n is updates[n]
  confirmed,  \* updates up to this one are not delivered again
  posted,     \* what the bot posted
  delivered,  \* what the message handlers posted: [of, what]
  faults,     \* calls that failed so far
  \* The process.
  phase,      \* how far handleServerCmd is
  boots,      \* starts so far
  fetched,    \* the last update that GetUpdates returned
  offset,     \* the last update handed to the channel
  current,    \* the last update StartBot received
  bot,        \* where StartBot is
  req,        \* the local state of each message handler
  \* The updates that StartBot is done with.
  handled

service     == <<updates, confirmed, posted, delivered, faults>>
botVars     == <<fetched, offset, current, bot, handled>>
processVars == <<phase, boots>>
vars        == <<service, processVars, botVars, req>>

Phase  == {"off", "bot", "database", "serving"}
Answer == {0, 200, 400, 500}

(* Waiting at the channel; before the handler of a command; before the last of its
   two messages. *)
BotPC == {"receive", "dispatch", "last"}

(* Image: none, one that is base64, one that is not. *)
Image        == {"none", "good", "bad"}
HandlerPC    == {"idle", "text", "decode", "photo", "done"}
HandlerState == [pc : HandlerPC, image : Image, answer : Answer]
Post         == [boot : Nat, of : Nat, part : {1, 2}]

TypeOK ==
  /\ updates \in Seq(Kind) /\ confirmed \in Nat /\ posted \in Seq(Post)
  /\ delivered \subseteq Requests \X {"text", "photo"}
  /\ faults \in Nat /\ boots \in Nat /\ phase \in Phase
  /\ fetched \in Nat /\ offset \in Nat /\ current \in Nat
  /\ bot \in BotPC /\ handled \subseteq 1..Len(updates)
  /\ req \in [Requests -> HandlerState]

Init ==
  /\ updates = <<>> /\ confirmed = 0 /\ posted = <<>> /\ delivered = {} /\ faults = 0
  /\ phase = "off" /\ boots = 0
  /\ fetched = 0 /\ offset = 0 /\ current = 0 /\ bot = "receive" /\ handled = {}
  /\ req = [r \in Requests |-> [pc |-> "idle", image |-> "none", answer |-> 0]]

Up == phase # "off"
-----------------------------------------------------------------------------
(* handleServerCmd. *)

(* telegram.Init; with a failing one the process ends as it began. *)
Boot ==
  /\ ~Up /\ boots < MaxBoots
  /\ phase' = "bot" /\ boots' = boots + 1
  /\ fetched' = confirmed /\ offset' = confirmed /\ current' = confirmed
  /\ bot' = "receive"
  /\ UNCHANGED <<service, handled, req>>

Connect ==
  /\ phase = "bot" /\ phase' = "database"
  /\ UNCHANGED <<service, boots, botVars, req>>

CreatePoller ==
  /\ phase = "database" /\ phase' = "serving"
  /\ UNCHANGED <<service, boots, botVars, req>>

(* The end of the process takes the channel and the handlers with it. *)
Die ==
  /\ Up /\ phase' = "off"
  /\ req' = [r \in Requests |->
               IF req[r].pc = "idle" THEN req[r] ELSE [req[r] EXCEPT !.pc = "done"]]
  /\ UNCHANGED <<service, boots, botVars>>

(* An error of NewConnection or Run, a signal, a fatal error elsewhere. *)
Abort == Die
-----------------------------------------------------------------------------
(* The service, and the goroutine of GetUpdatesChan. *)

UserSends(kind) ==
  /\ Len(updates) < MaxUpdates
  /\ updates' = Append(updates, kind)
  /\ UNCHANGED <<confirmed, posted, delivered, faults, processVars, botVars, req>>

(* Mutant of GetUpdates: the next offset is that of the answer, received or not. *)
GetUpdatesEager ==
  /\ Up /\ offset = fetched
  /\ confirmed' = Len(updates)
  /\ \/ fetched' = Len(updates) /\ faults' = faults
     \/ fetched' = fetched /\ faults < MaxFaults /\ faults' = faults + 1
  /\ UNCHANGED <<updates, posted, delivered, processVars, offset, current, bot, handled, req>>

GetUpdates ==
  /\ Up /\ offset = fetched
  /\ \/ fetched' = Len(updates) /\ confirmed' = offset /\ faults' = faults
     \/ /\ fetched' = fetched /\ confirmed' \in {confirmed, offset}
        /\ faults < MaxFaults /\ faults' = faults + 1
  /\ UNCHANGED <<updates, posted, delivered, processVars, offset, current, bot, handled, req>>

Deliver ==
  /\ Up /\ offset < fetched /\ offset - current < Buffer
  /\ offset' = offset + 1
  /\ UNCHANGED <<service, processVars, fetched, current, bot, handled, req>>
-----------------------------------------------------------------------------
(* StartBot. *)

Command == updates[current]

(* BOT.Send: the message is posted, or not, or it is and the answer is lost. *)
Posts(part) == Append(posted, [boot |-> boots, of |-> current, part |-> part])
Fail        == faults < MaxFaults /\ faults' = faults + 1

Send(part) ==
  \/ posted' = Posts(part) /\ UNCHANGED faults
  \/ posted' \in {posted, Posts(part)} /\ Fail

(* Mutant of Receive: the bot waits for the server to be complete. *)
ReceiveServing ==
  /\ phase = "serving" /\ bot = "receive" /\ current < offset
  /\ current' = current + 1
  /\ bot' = "dispatch"
  /\ UNCHANGED <<service, processVars, fetched, offset, handled, req>>

Receive ==
  /\ Up /\ bot = "receive" /\ current < offset
  /\ current' = current + 1
  /\ bot' = "dispatch"
  /\ UNCHANGED <<service, processVars, fetched, offset, handled, req>>

Done == bot' = "receive" /\ handled' = handled \cup {current}

(* DbInstance and CameraPollerInstance are nil until the main goroutine is there. *)
Ready(command) ==
  CASE command = "parking" -> phase \in {"database", "serving"}
    [] command = "snap"    -> phase = "serving"
    [] OTHER               -> TRUE

(* No command, no answer. *)
IgnoreText ==
  /\ Up /\ bot = "dispatch" /\ Command = "text"
  /\ Done
  /\ UNCHANGED <<service, processVars, fetched, offset, current, req>>

(* Nobody recovers the bot's panic. *)
TooEarly ==
  /\ Up /\ bot = "dispatch" /\ ~Ready(Command)
  /\ Die

(* /parking answers an error as well. *)
Reply ==
  /\ Up /\ bot = "dispatch" /\ Command \in {"help", "parking"} /\ Ready(Command)
  /\ Send(1) /\ Done
  /\ UNCHANGED <<updates, confirmed, delivered, processVars, fetched, offset, current, req>>

(* The images of /snap; what is said of an unknown command, before the help. *)
FirstReply ==
  /\ Up /\ bot = "dispatch" /\ Command \in {"unknown", "snap"} /\ Ready(Command)
  /\ Send(1) /\ bot' = "last"
  /\ UNCHANGED <<updates, confirmed, delivered, processVars, fetched, offset, current,
                 handled, req>>

(* Mutant of LastReply: a message that seems not to be sent is sent again. *)
LastReplyRetries ==
  /\ Up /\ bot = "last"
  /\ Send(2)
  /\ IF faults' = faults THEN Done ELSE UNCHANGED <<bot, handled>>
  /\ UNCHANGED <<updates, confirmed, delivered, processVars, fetched, offset, current, req>>

(* Nobody looks at the errors of these. *)
LastReply ==
  /\ Up /\ bot = "last"
  /\ Send(2) /\ Done
  /\ UNCHANGED <<updates, confirmed, delivered, processVars, fetched, offset, current, req>>
-----------------------------------------------------------------------------
(* messageHandler, of a server that listens. *)

At(r, label) == Up /\ req[r].pc = label

Move(r, label) ==
  /\ req' = [req EXCEPT ![r].pc = label]
  /\ UNCHANGED <<updates, confirmed, posted, processVars, botVars>>

Finish(r, answer) ==
  /\ req' = [req EXCEPT ![r] = [pc |-> "done", image |-> @.image, answer |-> answer]]
  /\ UNCHANGED <<updates, confirmed, posted, processVars, botVars>>

(* A body with a message and a chat. *)
Begin(r, image) ==
  /\ phase = "serving" /\ req[r].pc = "idle"
  /\ req' = [req EXCEPT ![r] = [pc |-> "text", image |-> image, answer |-> 0]]
  /\ UNCHANGED <<service, processVars, botVars>>

(* A body that cannot be read; one that does not parse, or lacks one of them. *)
Reject(r, answer) ==
  /\ phase = "serving" /\ req[r].pc = "idle"
  /\ Finish(r, answer) /\ UNCHANGED <<delivered, faults>>

(* BOT.Send, for the handlers. *)
Sent(r, what) == delivered' = delivered \cup {<<r, what>>} /\ UNCHANGED faults
Unsent(r, what) ==
  Fail /\ delivered' \in {delivered, delivered \cup {<<r, what>>}}

SendText(r) ==
  /\ At(r, "text")
  /\ \/ /\ Sent(r, "text")
        /\ IF req[r].image = "none" THEN Finish(r, 200) ELSE Move(r, "decode")
     \/ Unsent(r, "text") /\ Finish(r, 400)

Decode(r) ==
  /\ At(r, "decode")
  /\ IF req[r].image = "good" THEN Move(r, "photo") ELSE Finish(r, 400)
  /\ UNCHANGED <<delivered, faults>>

(* Mutant of SendPhoto: the second send's error is ignored as the bot ignores it. *)
SendPhotoUnchecked(r) ==
  /\ At(r, "photo")
  /\ Sent(r, "photo") \/ Unsent(r, "photo")
  /\ Finish(r, 200)

SendPhoto(r) ==
  /\ At(r, "photo")
  /\ \/ Sent(r, "photo") /\ Finish(r, 200)
     \/ Unsent(r, "photo") /\ Finish(r, 400)
-----------------------------------------------------------------------------
StartBot == Receive \/ IgnoreText \/ TooEarly \/ Reply \/ FirstReply \/ LastReply

MessageHandler(r) ==
  \/ \E image \in Image : Begin(r, image)
  \/ \E answer \in {400, 500} : Reject(r, answer)
  \/ SendText(r) \/ Decode(r) \/ SendPhoto(r)

Next ==
  \/ Boot \/ Connect \/ CreatePoller \/ Abort
  \/ \E kind \in Kinds : UserSends(kind)
  \/ GetUpdates \/ Deliver \/ StartBot
  \/ \E r \in Requests : MessageHandler(r)

Spec == Init /\ [][Next]_vars

(* The library's goroutine and the bot's keep running, whatever becomes of the main
   one; nobody has to send anything or to start the server. *)
BotFairness == WF_vars(GetUpdates) /\ WF_vars(Deliver) /\ WF_vars(StartBot)

FairSpec == Spec /\ BotFairness
-----------------------------------------------------------------------------
(* The bot's answers come in the order of the messages they answer, each at most once
   in the life of a process: no error of a send, which may hide a success, and no
   answer of the service that is lost makes it repeat itself. A later process repeats
   what the service has not taken for confirmed. *)
Before(p, q) ==
  \/ p.boot < q.boot
  \/ p.boot = q.boot /\ p.of < q.of
  \/ p.boot = q.boot /\ p.of = q.of /\ p.part < q.part

RepliesInOrder ==
  \A i \in 1..Len(posted) : \A k \in 1..(i - 1) : Before(posted[k], posted[i])

(* A death of the process loses what was confirmed before it was handled: at most what
   fits into the channel, and what the bot had in hand. *)
LossBounded == Cardinality((1..confirmed) \ handled) <= boots * (Buffer + 1)

(* Whatever the service still keeps for the bot, the process that runs deals with, or it
   ends: a failing send, a call of the service that fails, or a main goroutine that
   hangs in NewConnection does not keep the bot from the next message. *)
CommandHandled ==
  \A n \in 1..MaxUpdates :
    (Up /\ n \in (confirmed + 1)..Len(updates)) ~> (n \in handled \/ ~Up)

(* A request answered with 200 is in the chat, with its image if it had one, although
   it takes two calls of the service that fail separately. *)
OkMeansDelivered ==
  \A r \in Requests :
    req[r].answer = 200 =>
      /\ <<r, "text">> \in delivered
      /\ req[r].image # "none" => <<r, "photo">> \in delivered

(* An image is never in the chat without the message it came with; the other half of a
   request that fails may be missing. *)
PhotoFollowsText ==
  \A r \in Requests : <<r, "photo">> \in delivered => <<r, "text">> \in delivered
=============================================================================
