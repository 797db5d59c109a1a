-------------------------- MODULE TelegramBotProofs --------------------------
(***************************************************************************)
(* Theorems about TelegramBot, for any number of messages, faults, starts   *)
(* of the server, message handlers and any capacity of the channel.         *)
(***************************************************************************)
EXTENDS TelegramBot, FiniteSetTheorems, TLAPS

(* The offsets of a running process: what is confirmed has been handed over, and what
   has not been received fits into the channel. *)
Offsets ==
  /\ confirmed <= Len(updates)
  /\ Up => /\ boots >= 1
           /\ confirmed <= offset /\ offset <= fetched /\ fetched <= Len(updates)
           /\ current <= offset /\ offset - current <= Buffer
           /\ bot # "receive" => current >= 1

(* What has been posted is of earlier starts, of earlier messages, or the first answer
   to the message in hand. *)
PostsPast ==
  \A i \in 1..Len(posted) :
    /\ posted[i].boot <= boots
    /\ Up /\ posted[i].boot = boots =>
         /\ posted[i].of <= current
         /\ posted[i].of = current /\ bot = "dispatch" => FALSE
         /\ posted[i].of = current /\ bot = "last" => posted[i].part = 1

(* What each program counter of a message handler says of what is in the chat. *)
PostedSoFar ==
  \A r \in Requests :
    /\ req[r].answer # 0 => req[r].pc = "done"
    /\ req[r].pc \in {"idle", "text", "decode", "photo"} => <<r, "photo">> \notin delivered
    /\ req[r].pc \in {"decode", "photo"} => <<r, "text">> \in delivered

HandlerInv == PostedSoFar /\ OkMeansDelivered /\ PhotoFollowsText

(* The last message the bot is done with, and those up to it that nobody handled. *)
Edge   == IF bot = "receive" THEN current ELSE current - 1
Missed == (1..Edge) \ handled

(* All of them were lost by deaths of earlier processes. *)
MissedEarlier ==
  Up => Cardinality(Missed) <= (boots - 1) * (Buffer + 1)

BotInv == TypeOK /\ Offsets
-----------------------------------------------------------------------------
LEMMA InitBotInv == Init => BotInv
BY DEF Init, BotInv, TypeOK, Offsets, Up, Phase, Answer, BotPC, Image, HandlerPC, HandlerState, Kind

LEMMA InitHandlerInv == Init => HandlerInv
BY DEF Init, HandlerInv, PostedSoFar, OkMeansDelivered, PhotoFollowsText

LEMMA InitPosts == Init => PostsPast /\ RepliesInOrder
BY DEF Init, PostsPast, RepliesInOrder
-----------------------------------------------------------------------------
(* What is posted is of the right type. *)
LEMMA SendType ==
  ASSUME TypeOK, NEW part \in {1, 2}, Send(part)
  PROVE  posted' \in Seq(Post) /\ faults' \in Nat
<1>1. [boot |-> boots, of |-> current, part |-> part] \in Post
  BY DEF TypeOK, Post
<1>2. posted \in Seq(Post) /\ Posts(part) \in Seq(Post) /\ faults \in Nat
  BY <1>1 DEF TypeOK, Posts
<1>. QED
  BY <1>2 DEF Send, Fail

(* The main goroutine and the death of the process. *)
LEMMA ProcessBotInv ==
  ASSUME BotInv, Boot \/ Connect \/ CreatePoller \/ Die
  PROVE  BotInv'
<1> USE DEF BotInv, TypeOK, Offsets, Up, Phase, BotPC, service, botVars
<1>1. Boot => BotInv'
  BY TelegramConstants DEF Boot
<1>2. Connect \/ CreatePoller => BotInv'
  BY DEF Connect, CreatePoller
<1>3. ASSUME Die PROVE BotInv'
  <2>1. req' \in [Requests -> HandlerState]
    BY <1>3 DEF Die, HandlerState, HandlerPC
  <2>. QED
    BY <1>3, <2>1 DEF Die
<1>. QED
  BY <1>1, <1>2, <1>3

(* The service and the library's goroutine. *)
LEMMA ServiceBotInv ==
  ASSUME BotInv, GetUpdates \/ Deliver \/ \E kind \in Kinds : UserSends(kind)
  PROVE  BotInv'
<1> USE DEF BotInv, TypeOK, Offsets, Up, service, botVars, processVars
<1>1. GetUpdates => BotInv'
  BY DEF GetUpdates
<1>2. Deliver => BotInv'
  BY TelegramConstants DEF Deliver
<1>3. ASSUME NEW kind \in Kinds, UserSends(kind) PROVE BotInv'
  <2>1. updates' \in Seq(Kind) /\ Len(updates') = Len(updates) + 1
    BY <1>3, TelegramConstants DEF UserSends
  <2>2. Len(updates) \in Nat
    OBVIOUS
  <2>. QED
    BY <1>3, <2>1, <2>2 DEF UserSends
<1>. QED
  BY <1>1, <1>2, <1>3

(* The bot's loop. *)
LEMMA StartBotInv == ASSUME BotInv, StartBot PROVE BotInv'
<1> USE DEF BotInv, TypeOK, Offsets, Up, BotPC, service, processVars
<1>1. Receive => BotInv'
  BY TelegramConstants DEF Receive
<1>2. Up /\ bot # "receive" => current \in 1..Len(updates)
  OBVIOUS
<1>3. IgnoreText => BotInv'
  BY <1>2 DEF IgnoreText, Done
<1>4. TooEarly => BotInv'
  BY ProcessBotInv DEF TooEarly
<1>5. Reply => BotInv'
  BY <1>2, SendType DEF Reply, Done
<1>6. FirstReply => BotInv'
  BY SendType DEF FirstReply
<1>7. LastReply => BotInv'
  BY <1>2, SendType DEF LastReply, Done
<1>. QED
  BY <1>1, <1>3, <1>4, <1>5, <1>6, <1>7 DEF StartBot

(* A message handler leaves the bot alone. *)
LEMMA MessageStep ==
  ASSUME TypeOK, NEW r \in Requests, MessageHandler(r)
  PROVE  /\ UNCHANGED <<updates, confirmed, posted, processVars, botVars>>
         /\ faults' \in Nat /\ delivered' \subseteq Requests \X {"text", "photo"}
         /\ req' \in [Requests -> HandlerState]
<1> USE DEF TypeOK, HandlerState, HandlerPC, service
<1>1. ASSUME NEW image \in Image, Begin(r, image)
      PROVE  req' \in [Requests -> HandlerState] /\ UNCHANGED <<service, processVars, botVars>>
  BY <1>1 DEF Begin, Answer
<1>2. ASSUME NEW answer \in {200, 400, 500}, Finish(r, answer)
      PROVE  /\ req' \in [Requests -> HandlerState]
             /\ UNCHANGED <<updates, confirmed, posted, processVars, botVars>>
  BY <1>2 DEF Finish, Answer
<1>3. ASSUME NEW label \in HandlerPC, Move(r, label)
      PROVE  /\ req' \in [Requests -> HandlerState]
             /\ UNCHANGED <<updates, confirmed, posted, processVars, botVars>>
  BY <1>3 DEF Move
<1>4. ASSUME NEW what \in {"text", "photo"}, Sent(r, what) \/ Unsent(r, what)
      PROVE  faults' \in Nat /\ delivered' \subseteq Requests \X {"text", "photo"}
  BY <1>4 DEF Sent, Unsent, Fail
<1>. QED
  BY <1>1, <1>2, <1>3, <1>4 DEF MessageHandler, Reject, SendText, Decode, SendPhoto

LEMMA NextBotInv == BotInv /\ [Next]_vars => BotInv'
<1> SUFFICES ASSUME BotInv, [Next]_vars PROVE BotInv'
  OBVIOUS
<1>1. ASSUME NEW r \in Requests, MessageHandler(r) PROVE BotInv'
  BY <1>1, MessageStep DEF BotInv, TypeOK, Offsets, Up, processVars, botVars
<1>2. CASE UNCHANGED vars
  BY <1>2 DEF vars, service, processVars, botVars, BotInv, TypeOK, Offsets, Up
<1>. QED
  BY <1>1, <1>2, ProcessBotInv, ServiceBotInv, StartBotInv DEF Next, Abort

(* The types and offsets of the bot, whatever fails and whenever the process ends. *)
THEOREM BotInvariant == Spec => []BotInv
BY InitBotInv, NextBotInv, PTL DEF Spec

(* Every variable keeps its type. *)
THEOREM TypeCorrect == Spec => []TypeOK
<1>1. BotInv => TypeOK
  BY DEF BotInv
<1>. QED
  BY <1>1, BotInvariant, PTL
-----------------------------------------------------------------------------
(* Only a message handler puts its own messages into the chat, and in order. *)
LEMMA MessageHandlerInv ==
  ASSUME TypeOK, HandlerInv, NEW r \in Requests, MessageHandler(r)
  PROVE  HandlerInv'
<1> USE DEF TypeOK, HandlerState, HandlerInv, PostedSoFar, OkMeansDelivered, PhotoFollowsText,
        At, Move, Finish, Sent, Unsent
<1>1. ASSUME NEW image \in Image, Begin(r, image) PROVE HandlerInv'
  BY <1>1 DEF Begin, service
<1>2. ASSUME NEW answer \in {400, 500}, Reject(r, answer) PROVE HandlerInv'
  BY <1>2 DEF Reject
<1>3. SendText(r) => HandlerInv'
  BY DEF SendText
<1>4. ASSUME Decode(r) PROVE HandlerInv'
  <2>1. CASE Move(r, "photo")
    BY <1>4, <2>1 DEF Decode
  <2>2. CASE Finish(r, 400)
    BY <1>4, <2>2 DEF Decode
  <2>. QED
    BY <1>4, <2>1, <2>2 DEF Decode
<1>5. SendPhoto(r) => HandlerInv'
  BY DEF SendPhoto
<1>. QED
  BY <1>1, <1>2, <1>3, <1>4, <1>5 DEF MessageHandler

LEMMA NextHandlerInv == TypeOK /\ HandlerInv /\ [Next]_vars => HandlerInv'
<1> SUFFICES ASSUME TypeOK, HandlerInv, [Next]_vars PROVE HandlerInv'
  OBVIOUS
<1>1. ASSUME UNCHANGED <<req, delivered>> PROVE HandlerInv'
  BY <1>1 DEF HandlerInv, PostedSoFar, OkMeansDelivered, PhotoFollowsText
<1>2. ASSUME Die PROVE HandlerInv'
  BY <1>2 DEF Die, service, TypeOK, HandlerState, HandlerInv, PostedSoFar, OkMeansDelivered,
     PhotoFollowsText
<1>3. CASE UNCHANGED vars
  BY <1>1, <1>3 DEF vars, service
<1>4. CASE Boot \/ Connect \/ CreatePoller \/ GetUpdates \/ Deliver
  BY <1>1, <1>4 DEF Boot, Connect, CreatePoller, GetUpdates, Deliver, service
<1>5. CASE \E kind \in Kinds : UserSends(kind)
  BY <1>1, <1>5 DEF UserSends
<1>6. CASE StartBot
  BY <1>1, <1>2, <1>6 DEF StartBot, Receive, IgnoreText, TooEarly, Reply, FirstReply,
     LastReply, service
<1>. QED
  BY <1>2, <1>3, <1>4, <1>5, <1>6, MessageHandlerInv DEF Next, Abort

LEMMA HandlerInvariant == Spec => []HandlerInv
BY InitHandlerInv, NextHandlerInv, TypeCorrect, PTL DEF Spec

(* What was answered with 200 is in the chat as a whole. *)
THEOREM OkIsDelivered == Spec => []OkMeansDelivered
<1>1. HandlerInv => OkMeansDelivered
  BY DEF HandlerInv
<1>. QED
  BY <1>1, HandlerInvariant, PTL

(* No image without its message. *)
THEOREM TextComesFirst == Spec => []PhotoFollowsText
<1>1. HandlerInv => PhotoFollowsText
  BY DEF HandlerInv
<1>. QED
  BY <1>1, HandlerInvariant, PTL
-----------------------------------------------------------------------------
(* The fields of what has been posted. *)
LEMMA PostType ==
  ASSUME TypeOK, NEW i \in 1..Len(posted)
  PROVE  posted[i].boot \in Nat /\ posted[i].of \in Nat /\ posted[i].part \in {1, 2}
<1>1. posted \in Seq(Post)
  BY DEF TypeOK
<1>2. posted[i] \in Post
  BY <1>1
<1>. QED
  BY <1>2 DEF Post

(* An answer to the message in hand comes after all that was posted before. *)
LEMMA SendInOrder ==
  ASSUME TypeOK, PostsPast, RepliesInOrder, NEW part \in {1, 2}, Send(part), Up,
         (part = 1 /\ bot = "dispatch") \/ (part = 2 /\ bot = "last")
  PROVE  /\ RepliesInOrder'
         /\ \A i \in 1..Len(posted') :
              \/ i \in 1..Len(posted) /\ posted'[i] = posted[i]
              \/ posted'[i] = [boot |-> boots, of |-> current, part |-> part]
<1> DEFINE post == [boot |-> boots, of |-> current, part |-> part]
<1>1. posted \in Seq(Post) /\ boots \in Nat /\ current \in Nat
  BY DEF TypeOK
<1>2. \A i \in 1..Len(posted) : Before(posted[i], post)
  BY <1>1, PostType DEF PostsPast, Before
<1>3. CASE posted' = posted
  BY <1>3 DEF RepliesInOrder
<1>4. CASE posted' = Append(posted, post)
  <2>1. /\ Len(posted') = Len(posted) + 1
        /\ \A i \in 1..Len(posted) : posted'[i] = posted[i]
        /\ posted'[Len(posted) + 1] = post
    BY <1>1, <1>4
  <2>. HIDE DEF post
  <2>2. Len(posted) \in Nat
    BY <1>1
  <2>3. RepliesInOrder'
    <3> SUFFICES ASSUME NEW i \in 1..Len(posted'), NEW k \in 1..(i - 1)
                 PROVE  Before(posted'[k], posted'[i])
      BY DEF RepliesInOrder, Before
    <3>1. CASE i = Len(posted) + 1
      BY <1>2, <2>1, <2>2, <3>1
    <3>2. CASE i \in 1..Len(posted)
      BY <2>1, <2>2, <3>2 DEF RepliesInOrder
    <3>. QED
      BY <2>1, <2>2, <3>1, <3>2
  <2>. QED
    BY <2>1, <2>2, <2>3 DEF post
<1>. QED
  BY <1>3, <1>4 DEF Send, Posts

LEMMA NextPosts ==
  BotInv /\ PostsPast /\ RepliesInOrder /\ [Next]_vars => PostsPast' /\ RepliesInOrder'
<1> SUFFICES ASSUME BotInv, PostsPast, RepliesInOrder, [Next]_vars
             PROVE  PostsPast' /\ RepliesInOrder'
  OBVIOUS
<1>t. /\ TypeOK /\ boots \in Nat /\ current \in Nat
      /\ \A i \in 1..Len(posted) : posted[i].boot \in Nat /\ posted[i].of \in Nat
  BY PostType DEF BotInv, TypeOK
<1>1. ASSUME UNCHANGED posted PROVE RepliesInOrder'
  BY <1>1 DEF RepliesInOrder
<1>2. ASSUME UNCHANGED <<posted, boots, current, bot>>, Up' => Up PROVE PostsPast'
  BY <1>2 DEF PostsPast
<1>3. ASSUME Boot PROVE PostsPast'
  BY <1>3, <1>t DEF Boot, PostsPast, service
<1>4. ASSUME Receive PROVE PostsPast'
  BY <1>4, <1>t DEF Receive, PostsPast, service, processVars, Up
<1>5. ASSUME IgnoreText PROVE PostsPast'
  BY <1>5, <1>t DEF IgnoreText, Done, PostsPast, service, processVars, Up
<1>6. ASSUME Reply \/ FirstReply PROVE PostsPast' /\ RepliesInOrder'
  BY <1>6, <1>t, SendInOrder DEF Reply, FirstReply, Done, PostsPast, processVars, Up
<1>7. ASSUME LastReply PROVE PostsPast' /\ RepliesInOrder'
  BY <1>7, <1>t, SendInOrder DEF LastReply, Done, PostsPast, processVars, Up
<1>8. ASSUME Die PROVE PostsPast' /\ RepliesInOrder'
  BY <1>1, <1>2, <1>8 DEF Die, service, botVars, Up
<1>9. CASE UNCHANGED vars
  BY <1>1, <1>2, <1>9 DEF vars, service, processVars, botVars, Up
<1>a. CASE Boot \/ Connect \/ CreatePoller \/ GetUpdates \/ Deliver
  BY <1>1, <1>2, <1>3, <1>a DEF Boot, Connect, CreatePoller, GetUpdates, Deliver, service,
     processVars, botVars, Up
<1>b. CASE \E kind \in Kinds : UserSends(kind)
  BY <1>1, <1>2, <1>b DEF UserSends, processVars, botVars, Up
<1>c. CASE StartBot
  BY <1>1, <1>4, <1>5, <1>6, <1>7, <1>8, <1>c DEF StartBot, Receive, IgnoreText, TooEarly,
     service
<1>d. ASSUME NEW r \in Requests, MessageHandler(r) PROVE PostsPast' /\ RepliesInOrder'
  BY <1>1, <1>2, <1>d, <1>t, MessageStep DEF processVars, botVars, Up
<1>. QED
  BY <1>8, <1>9, <1>a, <1>b, <1>c, <1>d DEF Next, Abort

(* The bot answers in order and does not repeat itself, in one life of the process. *)
THEOREM AnswersInOrder == Spec => []RepliesInOrder
<1>1. Spec => [](PostsPast /\ RepliesInOrder)
  BY InitPosts, NextPosts, BotInvariant, PTL DEF Spec
<1>. QED
  BY <1>1, PTL
-----------------------------------------------------------------------------
(* Everything up to a number is finite, whatever is taken away. *)
LEMMA UpToFinite ==
  ASSUME NEW n \in Nat, NEW S
  PROVE  IsFiniteSet((1..n) \ S) /\ Cardinality((1..n) \ S) \in Nat
BY FS_Interval, FS_Subset, FS_CardinalityType, (1..n) \ S \in SUBSET (1..n), n \in Int, 1 \in Int

(* The messages the bot has passed over do not become more while a process lives. *)
LEMMA MissedKept ==
  ASSUME BotInv, Up, Up', UNCHANGED boots, MissedEarlier,
         \/ UNCHANGED <<handled, current, bot>>
         \/ Receive
         \/ UNCHANGED <<handled, current>> /\ bot = "dispatch" /\ bot' = "last"
         \/ UNCHANGED current /\ bot # "receive" /\ Done
  PROVE  MissedEarlier'
<1>1. current \in Nat /\ (bot # "receive" => current >= 1)
  BY DEF BotInv, TypeOK, Offsets
<1>2. Missed' = Missed
  <2>1. CASE UNCHANGED <<handled, current, bot>>
    BY <2>1 DEF Missed, Edge
  <2>2. CASE Receive
    BY <1>1, <2>2 DEF Receive, Missed, Edge
  <2>3. CASE UNCHANGED <<handled, current>> /\ bot = "dispatch" /\ bot' = "last"
    BY <2>3 DEF Missed, Edge
  <2>4. CASE UNCHANGED current /\ bot # "receive" /\ Done
    BY <1>1, <2>4 DEF Done, Missed, Edge
  <2>. QED
    BY <2>1, <2>2, <2>3, <2>4
<1>. QED
  BY <1>2 DEF MissedEarlier

(* What a death loses: the messages missed before, and what is between the bot's hand
   and the last one confirmed. *)
LEMMA DeathLoses ==
  ASSUME BotInv, Up, MissedEarlier
  PROVE  LossBounded
<1> DEFINE Behind == (1..Edge) \ handled
           Ahead  == (Edge + 1)..confirmed
<1>1. /\ Edge \in Nat /\ confirmed \in Nat /\ boots \in Nat /\ boots >= 1 /\ Buffer \in Nat
      /\ confirmed - Edge <= Buffer + 1
  BY TelegramConstants DEF BotInv, TypeOK, Offsets, Edge
<1>2. IsFiniteSet(Behind) /\ Cardinality(Behind) \in Nat
  BY <1>1, UpToFinite
<1>3. IsFiniteSet(Ahead) /\ Cardinality(Ahead) \in Nat /\ Cardinality(Ahead) <= Buffer + 1
  <2>1. IsFiniteSet(Ahead)
        /\ Cardinality(Ahead) = IF Edge + 1 > confirmed THEN 0 ELSE confirmed - (Edge + 1) + 1
    BY <1>1, FS_Interval
  <2>. QED
    BY <1>1, <2>1
<1>4. /\ IsFiniteSet(Behind \cup Ahead)
      /\ Cardinality(Behind \cup Ahead) <= Cardinality(Behind) + Cardinality(Ahead)
  <2>1. IsFiniteSet(Behind \cap Ahead) /\ Cardinality(Behind \cap Ahead) \in Nat
    BY <1>2, FS_Subset, FS_CardinalityType
  <2>2. /\ IsFiniteSet(Behind \cup Ahead)
        /\ Cardinality(Behind \cup Ahead)
             = Cardinality(Behind) + Cardinality(Ahead) - Cardinality(Behind \cap Ahead)
    <3>. HIDE DEF Behind, Ahead
    <3>. QED
      BY <1>2, <1>3, FS_Union
  <2>. HIDE DEF Behind, Ahead
  <2>. QED
    BY <1>2, <1>3, <2>1, <2>2
<1>5. Cardinality((1..confirmed) \ handled) <= Cardinality(Behind \cup Ahead)
  <2>1. (1..confirmed) \ handled \subseteq Behind \cup Ahead
    BY <1>1
  <2>. QED
    BY <1>4, <2>1, FS_Subset
<1>6. Cardinality(Behind) <= (boots - 1) * (Buffer + 1)
  BY DEF MissedEarlier, Missed
<1>7. (boots - 1) * (Buffer + 1) + (Buffer + 1) = boots * (Buffer + 1)
  BY <1>1
<1>8. Cardinality((1..confirmed) \ handled) \in Nat
  BY <1>1, UpToFinite
<1>9. (boots - 1) * (Buffer + 1) \in Int /\ boots * (Buffer + 1) \in Int
  BY <1>1
<1>. HIDE DEF Behind, Ahead
<1>a. Cardinality(Behind \cup Ahead) \in Nat
  BY <1>4, FS_CardinalityType
<1>. QED
  BY <1>1, <1>2, <1>3, <1>4, <1>5, <1>6, <1>7, <1>8, <1>9, <1>a DEF LossBounded

LossInv == MissedEarlier /\ (~Up => LossBounded)

LEMMA NextLoss == BotInv /\ LossInv /\ [Next]_vars => LossInv'
<1> SUFFICES ASSUME BotInv, LossInv, [Next]_vars PROVE LossInv'
  OBVIOUS
<1>1. ASSUME UNCHANGED <<phase, boots, confirmed, handled, current, bot>> PROVE LossInv'
  BY <1>1 DEF LossInv, MissedEarlier, Missed, Edge, LossBounded, Up
<1>2. ASSUME Die PROVE LossInv'
  <2>1. LossBounded
    BY <1>2, DeathLoses DEF Die, LossInv
  <2>. QED
    BY <1>2, <2>1 DEF Die, LossInv, MissedEarlier, LossBounded, Up, service, botVars
<1>3. ASSUME Boot PROVE LossInv'
  <2>1. Missed' = (1..confirmed) \ handled /\ boots' - 1 = boots
    BY <1>3 DEF Boot, Missed, Edge, service, BotInv, TypeOK
  <2>. QED
    BY <1>3, <2>1 DEF Boot, LossInv, LossBounded, MissedEarlier, Up
<1>4. ASSUME Up, Up', UNCHANGED boots, MissedEarlier' PROVE LossInv'
  BY <1>4 DEF LossInv
<1>5. CASE Connect \/ CreatePoller \/ GetUpdates \/ Deliver
  BY <1>4, <1>5, MissedKept DEF Connect, CreatePoller, GetUpdates, Deliver, service,
     processVars, botVars, Up, LossInv
<1>6. CASE UNCHANGED vars
  BY <1>1, <1>6 DEF vars, service, processVars, botVars
<1>7. CASE \E kind \in Kinds : UserSends(kind)
  BY <1>1, <1>7 DEF UserSends, processVars, botVars
<1>8. ASSUME NEW r \in Requests, MessageHandler(r) PROVE LossInv'
  BY <1>1, <1>8, MessageStep DEF processVars, botVars, BotInv
<1>9. CASE StartBot
  <2>1. ASSUME Receive \/ IgnoreText \/ Reply \/ FirstReply \/ LastReply PROVE LossInv'
    <3>1. Up /\ Up' /\ UNCHANGED boots
      BY <2>1 DEF Receive, IgnoreText, Reply, FirstReply, LastReply, processVars, Up
    <3>2. \/ Receive
          \/ UNCHANGED <<handled, current>> /\ bot = "dispatch" /\ bot' = "last"
          \/ UNCHANGED current /\ bot # "receive" /\ Done
      BY <2>1 DEF IgnoreText, Reply, FirstReply, LastReply
    <3>. QED
      BY <1>4, <3>1, <3>2, MissedKept DEF LossInv
  <2>. QED
    BY <1>2, <1>9, <2>1 DEF StartBot, TooEarly
<1>. QED
  BY <1>2, <1>3, <1>5, <1>6, <1>7, <1>8, <1>9 DEF Next, Abort

(* However often the process ends, each time at most a channel and one message are lost. *)
THEOREM LossIsBounded == Spec => []LossBounded
<1>1. Init => LossInv
  <2>1. ASSUME Init PROVE (1..confirmed) \ handled = {}
    BY <2>1 DEF Init
  <2>. QED
    BY <2>1, FS_EmptySet, TelegramConstants DEF Init, LossInv, MissedEarlier, LossBounded, Up
<1>2. Spec => []LossInv
  BY <1>1, NextLoss, BotInvariant, PTL DEF Spec
<1>3. BotInv /\ LossInv => LossBounded
  BY DeathLoses DEF LossInv
<1>. QED
  BY <1>2, <1>3, BotInvariant, PTL
=============================================================================
