------------------------ MODULE CameraServiceProofs ------------------------
(***************************************************************************)
(* Theorems about CameraService, for any number of cameras, readers,        *)
(* workers and frames: what the loops over PollWorkers gather while the     *)
(* poller writes it.                                                        *)
(***************************************************************************)
EXTENDS CameraService, TLAPS

(* What is tracked has been tracked at some time of every response under way. *)
EverTracked(r) == reader[r].pc # "idle" => Tracked \subseteq reader[r].ever

(* A lookup has an address, only a subscriber waits, and a worker in hand is one that was
   asked for and tracked. *)
InHand(r) ==
  /\ reader[r].pc = "lookup" => reader[r].ip \in IPs
  /\ reader[r].pc = "wait" => Is(r, "subscribe")
  /\ reader[r].pc = "snapshot" =>
       reader[r].entry \in Worker /\ reader[r].entry[1] \in reader[r].ever \cap Wanted(r)

(* So is every camera that has been answered, and a handler answers it once. *)
ImagesAsked(r) ==
  /\ AnsweredIPs(r) \subseteq reader[r].ever \cap Wanted(r)
  /\ ~Is(r, "bot") => \A i, j \in reader[r].images : i.worker[1] = j.worker[1] => i = j

(* What the loop has met and was asked for is answered, or in hand; at its end that is
   all that has been there throughout. *)
VisitedAnswered(r) ==
  /\ reader[r].pc = "range" => reader[r].visited \cap Wanted(r) \subseteq AnsweredIPs(r)
  /\ reader[r].pc = "snapshot" =>
       reader[r].visited \cap Wanted(r) \subseteq AnsweredIPs(r) \cup {reader[r].entry[1]}
  /\ reader[r].pc = "respond" => reader[r].always \cap Wanted(r) \subseteq AnsweredIPs(r)

(* Frames are not older than those at the beginning of the response. *)
FramesFresh(r) ==
  /\ \A w \in Worker : latest[w] >= reader[r].before[w]
  /\ \A i \in reader[r].images : i.frame >= reader[r].before[i.worker]

Sound(r) ==
  EverTracked(r) /\ InHand(r) /\ ImagesAsked(r) /\ VisitedAnswered(r) /\ FramesFresh(r)

IInv == TypeOK /\ \A r \in Readers : Sound(r)
-----------------------------------------------------------------------------
(* The state of a reader without a request. *)
LEMMA IdleType ==
  /\ Idle \in ReaderState /\ Idle.pc = "idle" /\ Idle.images = {}
  /\ Idle.before = [w \in Worker |-> 0]
BY ServiceConstants DEF Idle, NoFrames, ReaderState, ReaderPC

LEMMA InitIInv == Init => IInv
<1> SUFFICES ASSUME Init PROVE IInv
  OBVIOUS
<1>1. TypeOK
  BY ServiceConstants, IdleType DEF Init, TypeOK, Phase, NoFrames
<1>2. ASSUME NEW r \in Readers PROVE Sound(r)
  <2>1. reader[r] = Idle /\ latest = [w \in Worker |-> 0]
    BY DEF Init, NoFrames
  <2>2. EverTracked(r) /\ InHand(r) /\ VisitedAnswered(r)
    BY <2>1, IdleType DEF EverTracked, InHand, VisitedAnswered
  <2>3. ImagesAsked(r)
    BY <2>1, IdleType DEF ImagesAsked, AnsweredIPs
  <2>4. FramesFresh(r)
    BY <2>1, IdleType DEF FramesFresh
  <2>. QED
    BY <2>2, <2>3, <2>4 DEF Sound
<1>. QED
  BY <1>1, <1>2 DEF IInv

(* A step of one reader that leaves the map and the frames alone. *)
LEMMA ReaderStepIInv ==
  ASSUME IInv, NEW r \in Readers, NEW s \in ReaderState,
         reader' = [reader EXCEPT ![r] = s],
         UNCHANGED <<phase, pollerVars>>,
         reader'[r] = s => Sound(r)'
  PROVE  IInv'
<1>1. reader'[r] = s /\ \A q \in Readers \ {r} : reader'[q] = reader[q]
  BY DEF IInv, TypeOK
<1>2. TypeOK'
  BY DEF IInv, TypeOK, pollerVars
<1>3. ASSUME NEW q \in Readers \ {r} PROVE Sound(q)'
  BY <1>1, <1>3 DEF IInv, Sound, EverTracked, InHand, ImagesAsked, VisitedAnswered,
     FramesFresh, Tracked, AnsweredIPs, Wanted, Is, pollerVars
<1>. QED
  BY <1>1, <1>2, <1>3 DEF IInv

(* A reader becomes idle. *)
LEMMA ToIdle ==
  ASSUME IInv, NEW r \in Readers, reader' = [reader EXCEPT ![r] = Idle],
         UNCHANGED <<phase, pollerVars>>
  PROVE  IInv'
<1>1. ASSUME reader'[r] = Idle PROVE Sound(r)'
  <2>1. EverTracked(r)' /\ InHand(r)' /\ VisitedAnswered(r)'
    BY <1>1, IdleType DEF EverTracked, InHand, VisitedAnswered
  <2>2. ImagesAsked(r)'
    BY <1>1, IdleType DEF ImagesAsked, AnsweredIPs
  <2>3. FramesFresh(r)'
    BY <1>1, IdleType DEF FramesFresh, IInv, TypeOK, pollerVars
  <2>. QED
    BY <2>1, <2>2, <2>3 DEF Sound
<1>. QED
  BY <1>1, IdleType, ReaderStepIInv

(* A reader begins a response. *)
LEMMA BeginIInv ==
  ASSUME IInv, NEW r \in Readers, NEW kind \in Kinds, NEW ip \in IPs \cup {All},
         NEW label \in {"range", "lookup"}, label = "lookup" => ip \in IPs,
         Begin(r, kind, label, ip), UNCHANGED <<phase, pollerVars>>
  PROVE  IInv'
<1> DEFINE s == [kind |-> kind, pc |-> label, ip |-> ip, visited |-> {}, entry |-> None,
                 images |-> {}, always |-> Tracked, ever |-> Tracked, before |-> latest]
<1>1. s \in ReaderState
  BY DEF IInv, TypeOK, ReaderState, ReaderPC, Tracked
<1>2. reader' = [reader EXCEPT ![r] = s]
  BY DEF Begin
<1>3. ASSUME reader'[r] = s PROVE Sound(r)'
  <2>1. EverTracked(r)' /\ InHand(r)'
    BY <1>3 DEF EverTracked, InHand, Tracked, pollerVars
  <2>2. AnsweredIPs(r)' = {}
    BY <1>3 DEF AnsweredIPs
  <2>3. ImagesAsked(r)' /\ VisitedAnswered(r)'
    BY <1>3, <2>2 DEF ImagesAsked, VisitedAnswered
  <2>4. FramesFresh(r)'
    BY <1>3 DEF FramesFresh, IInv, TypeOK, pollerVars
  <2>. QED
    BY <2>1, <2>3, <2>4 DEF Sound
<1>. QED
  BY <1>1, <1>2, <1>3, ReaderStepIInv

(* A reader takes a worker that is in the map, and was asked for, in hand. *)
LEMMA TakeIInv ==
  ASSUME IInv, NEW r \in Readers, NEW ip \in Tracked, ip \in Wanted(r),
         NEW seen \in SUBSET IPs, seen \subseteq reader[r].visited \cup {ip},
         reader[r].pc \in {"lookup", "range"},
         reader[r].pc = "lookup" => seen = {ip},
         reader' = [reader EXCEPT ![r] =
           [@ EXCEPT !.pc = "snapshot", !.visited = seen, !.entry = <<ip, workers[ip]>>]],
         UNCHANGED <<phase, pollerVars>>
  PROVE  IInv'
<1> DEFINE s == [reader[r] EXCEPT !.pc = "snapshot", !.visited = seen,
                                  !.entry = <<ip, workers[ip]>>]
<1>1. ip \in IPs /\ workers[ip] \in 1..MaxWorkers /\ <<ip, workers[ip]>> \in Worker
  BY ServiceConstants DEF Tracked, IInv, TypeOK, Worker
<1>2. reader[r] \in ReaderState
  BY DEF IInv, TypeOK
<1>3. s \in ReaderState
  BY <1>1, <1>2 DEF ReaderState, ReaderPC
<1>4. Sound(r)
  BY DEF IInv
<1>5. ASSUME reader'[r] = s PROVE Sound(r)'
  <2>1. /\ s.pc = "snapshot" /\ s.visited = seen /\ s.entry = <<ip, workers[ip]>>
        /\ s.kind = reader[r].kind /\ s.ip = reader[r].ip /\ s.images = reader[r].images
        /\ s.ever = reader[r].ever /\ s.before = reader[r].before
    BY <1>2 DEF ReaderState
  <2>2. /\ AnsweredIPs(r)' = AnsweredIPs(r) /\ Wanted(r)' = Wanted(r)
        /\ Is(r, "bot")' = Is(r, "bot")
    BY <1>5, <2>1 DEF AnsweredIPs, Wanted, Is
  <2>3. EverTracked(r)'
    BY <1>4, <1>5, <2>1 DEF Sound, EverTracked, Tracked, pollerVars
  <2>4. InHand(r)'
    BY <1>1, <1>4, <1>5, <2>1, <2>2 DEF Sound, EverTracked, InHand
  <2>5. ImagesAsked(r)'
    BY <1>4, <1>5, <2>1, <2>2 DEF Sound, ImagesAsked
  <2>6. VisitedAnswered(r)'
    BY <1>4, <1>5, <2>1, <2>2 DEF Sound, VisitedAnswered
  <2>7. FramesFresh(r)'
    BY <1>4, <1>5, <2>1 DEF Sound, FramesFresh, pollerVars
  <2>. QED
    BY <2>3, <2>4, <2>5, <2>6, <2>7 DEF Sound
<1>. QED
  BY <1>3, <1>5, ReaderStepIInv

(* A reader moves on, with nothing in hand; what it has met may grow by a key it was not
   asked for. *)
LEMMA MoveIInv ==
  ASSUME IInv, NEW r \in Readers, NEW label \in {"range", "respond", "wait"},
         NEW seen \in SUBSET IPs, seen \cap Wanted(r) \subseteq reader[r].visited,
         label = "range" => reader[r].pc = "range",
         label = "respond" =>
           reader[r].pc = "range" /\ reader[r].always \subseteq reader[r].visited,
         label = "wait" => Is(r, "subscribe"),
         reader[r].pc # "idle",
         reader' = [reader EXCEPT ![r] = [@ EXCEPT !.pc = label, !.visited = seen]],
         UNCHANGED <<phase, pollerVars>>
  PROVE  IInv'
<1> DEFINE s == [reader[r] EXCEPT !.pc = label, !.visited = seen]
<1>1. reader[r] \in ReaderState
  BY DEF IInv, TypeOK
<1>2. s \in ReaderState
  BY <1>1 DEF ReaderState, ReaderPC
<1>3. Sound(r)
  BY DEF IInv
<1>4. ASSUME reader'[r] = s PROVE Sound(r)'
  <2>1. /\ s.pc = label /\ s.visited = seen
        /\ s.kind = reader[r].kind /\ s.ip = reader[r].ip /\ s.images = reader[r].images
        /\ s.always = reader[r].always
        /\ s.ever = reader[r].ever /\ s.before = reader[r].before
    BY <1>1 DEF ReaderState
  <2>2. /\ AnsweredIPs(r)' = AnsweredIPs(r) /\ Wanted(r)' = Wanted(r)
        /\ Is(r, "bot")' = Is(r, "bot")
    BY <1>4, <2>1 DEF AnsweredIPs, Wanted, Is
  <2>3. EverTracked(r)' /\ InHand(r)'
    BY <1>3, <1>4, <2>1 DEF Sound, EverTracked, InHand, Tracked, Is, pollerVars
  <2>4. ImagesAsked(r)'
    BY <1>3, <1>4, <2>1, <2>2 DEF Sound, ImagesAsked
  <2>5. VisitedAnswered(r)'
    BY <1>3, <1>4, <2>1, <2>2 DEF Sound, VisitedAnswered
  <2>6. FramesFresh(r)'
    BY <1>3, <1>4, <2>1 DEF Sound, FramesFresh, pollerVars
  <2>. QED
    BY <2>3, <2>4, <2>5, <2>6 DEF Sound
<1>. QED
  BY <1>2, <1>4, ReaderStepIInv
-----------------------------------------------------------------------------
(* The frame joins the images, in place of an older one of its camera. *)
LEMMA GetSnapshotIInv == ASSUME IInv, NEW r \in Readers, GetSnapshot(r) PROVE IInv'
<1> DEFINE w == reader[r].entry
           image == [worker |-> w, frame |-> latest[w]]
           kept == {i \in reader[r].images : Is(r, "bot") \/ i.worker[1] # w[1]}
           s == [reader[r] EXCEPT
                   !.pc = IF Is(r, "snap") /\ reader[r].ip # All THEN "respond" ELSE "range",
                   !.entry = None, !.images = kept \cup {image}]
<1>1. /\ reader[r] \in ReaderState /\ reader[r].pc = "snapshot" /\ Sound(r)
      /\ reader' = [reader EXCEPT ![r] = s] /\ UNCHANGED <<phase, pollerVars>>
  BY DEF GetSnapshot, At, IInv, TypeOK
<1>2. w \in Worker /\ w[1] \in IPs /\ w[1] \in reader[r].ever \cap Wanted(r)
  BY <1>1 DEF Sound, InHand, Worker
<1>3. image \in Image
  BY <1>2 DEF Image, IInv, TypeOK
<1>4. s \in ReaderState
  BY <1>1, <1>3 DEF ReaderState, ReaderPC
<1>5. ASSUME reader'[r] = s PROVE Sound(r)'
  <2>1. /\ s.pc = (IF Is(r, "snap") /\ reader[r].ip # All THEN "respond" ELSE "range")
        /\ s.visited = reader[r].visited /\ s.images = kept \cup {image}
        /\ s.kind = reader[r].kind /\ s.ip = reader[r].ip
        /\ s.always = reader[r].always
        /\ s.ever = reader[r].ever /\ s.before = reader[r].before
    BY <1>1 DEF ReaderState
  <2>2. Wanted(r)' = Wanted(r) /\ Is(r, "bot")' = Is(r, "bot")
    BY <1>5, <2>1 DEF Wanted, Is
  <2>3. AnsweredIPs(r)' = AnsweredIPs(r) \cup {w[1]}
    <3>1. AnsweredIPs(r)' = {i.worker[1] : i \in kept} \cup {w[1]}
      <4>1. reader'[r].images = kept \cup {image} /\ image.worker = w
        BY <1>5, <2>1
      <4> HIDE DEF kept, image, s, w
      <4>. QED
        BY <4>1 DEF AnsweredIPs
    <3>2. AnsweredIPs(r) \subseteq {i.worker[1] : i \in kept} \cup {w[1]}
      BY DEF AnsweredIPs
    <3>3. {i.worker[1] : i \in kept} \subseteq AnsweredIPs(r)
      BY DEF AnsweredIPs
    <3>. QED
      BY <3>1, <3>2, <3>3
  <2>4. EverTracked(r)' /\ InHand(r)'
    <3>1. s.pc \in {"range", "respond"}
      BY <2>1
    <3> HIDE DEF s
    <3>. QED
      BY <1>1, <1>5, <2>1, <3>1 DEF Sound, EverTracked, InHand, Tracked, pollerVars
  <2>5. ImagesAsked(r)'
    <3>1. AnsweredIPs(r)' \subseteq reader'[r].ever \cap Wanted(r)'
      BY <1>1, <1>2, <1>5, <2>1, <2>2, <2>3 DEF Sound, ImagesAsked
    <3>2. ASSUME ~Is(r, "bot")
          PROVE  \A i, j \in kept \cup {image} : i.worker[1] = j.worker[1] => i = j
      BY <1>1, <3>2 DEF Sound, ImagesAsked
    <3>. QED
      BY <1>5, <2>1, <2>2, <3>1, <3>2 DEF ImagesAsked
  <2>6. VisitedAnswered(r)'
    <3>1. reader[r].ip # All => Wanted(r) \subseteq {w[1]}
      BY <1>2 DEF Wanted
    <3>. QED
      BY <1>1, <1>5, <2>1, <2>2, <2>3, <3>1 DEF Sound, VisitedAnswered
  <2>7. FramesFresh(r)'
    BY <1>1, <1>2, <1>5, <2>1 DEF Sound, FramesFresh, pollerVars
  <2>. QED
    BY <2>4, <2>5, <2>6, <2>7 DEF Sound
<1>. QED
  BY <1>1, <1>4, <1>5, ReaderStepIInv

(* The steps of a request. *)
LEMMA RequestIInv == ASSUME IInv, NEW r \in Readers, NewRequest(r) PROVE IInv'
<1>1. ASSUME NEW ip \in IPs \cup {All}, Snap(r, ip) PROVE IInv'
  BY <1>1, BeginIInv DEF Snap
<1>2. ASSUME NEW ip \in IPs \cup {All}, Subscribe(r, ip) PROVE IInv'
  BY <1>2, BeginIInv DEF Subscribe
<1>3. CASE BotSnap(r)
  BY <1>3, BeginIInv DEF BotSnap, BotIdle
<1>. QED
  BY <1>1, <1>2, <1>3 DEF NewRequest

LEMMA ReaderIInv ==
  ASSUME IInv, NEW r \in Readers, ReaderStep(r) \/ Unsubscribe(r)
  PROVE  IInv'
<1> USE DEF At
<1>1. reader[r] \in ReaderState /\ Sound(r)
  BY DEF IInv, TypeOK
<1>2. CASE LookupFound(r)
  <2>1. PICK ip \in Tracked : ip = reader[r].ip
    BY <1>1, <1>2 DEF LookupFound, Sound, InHand, Tracked
  <2>2. /\ reader[r].pc = "lookup" /\ UNCHANGED <<phase, pollerVars>>
        /\ reader' = [reader EXCEPT ![r] =
             [@ EXCEPT !.pc = "snapshot", !.visited = {ip}, !.entry = <<ip, workers[ip]>>]]
    BY <1>2, <2>1 DEF LookupFound
  <2>3. {ip} \in SUBSET IPs /\ ip \in Wanted(r)
    BY <2>1 DEF Tracked, Wanted
  <2>. QED
    BY <2>2, <2>3, TakeIInv
<1>3. ASSUME NEW ip \in IPs, NextWorker(r, ip) PROVE IInv'
  <2>1. ip \in Tracked /\ ip \in Wanted(r)
    BY <1>3 DEF NextWorker, Wanted
  <2>2. reader[r].visited \cup {ip} \in SUBSET IPs
    BY <1>1 DEF ReaderState
  <2>3. reader' = [reader EXCEPT ![r] =
          [@ EXCEPT !.pc = "snapshot", !.visited = reader[r].visited \cup {ip},
                    !.entry = <<ip, workers[ip]>>]]
    BY <1>1, <1>3 DEF NextWorker, IInv, TypeOK, ReaderState
  <2>. QED
    BY <1>3, <2>1, <2>2, <2>3, TakeIInv DEF NextWorker
<1>4. ASSUME NEW ip \in IPs, SkipWorker(r, ip) PROVE IInv'
  <2> DEFINE seen == reader[r].visited \cup {ip}
  <2>1. reader[r].pc = "range" /\ ip \notin Wanted(r)
    BY <1>4, ServiceConstants DEF SkipWorker, Wanted
  <2>2. seen \in SUBSET IPs /\ seen \cap Wanted(r) \subseteq reader[r].visited
    BY <1>1, <2>1 DEF ReaderState
  <2>3. reader' = [reader EXCEPT ![r] = [@ EXCEPT !.pc = "range", !.visited = seen]]
    BY <1>1, <1>4, <2>1 DEF SkipWorker, IInv, TypeOK, ReaderState
  <2>. QED
    BY <1>4, <2>1, <2>2, <2>3, MoveIInv DEF SkipWorker
<1>5. ASSUME NEW label \in {"respond", "wait"}, Move(r, label), reader[r].pc # "idle",
             label = "respond" =>
               reader[r].pc = "range" /\ reader[r].always \subseteq reader[r].visited,
             label = "wait" => Is(r, "subscribe")
      PROVE  IInv'
  <2>1. reader' = [reader EXCEPT ![r] =
          [@ EXCEPT !.pc = label, !.visited = reader[r].visited]]
    BY <1>1, <1>5 DEF Move, IInv, TypeOK, ReaderState
  <2>2. reader[r].visited \in SUBSET IPs
    BY <1>1 DEF ReaderState
  <2>. QED
    BY <1>5, <2>1, <2>2, MoveIInv DEF Move
<1>6. CASE RangeDone(r)
  BY <1>5, <1>6 DEF RangeDone
<1>7. CASE SendPart(r)
  BY <1>5, <1>7 DEF SendPart
<1>8. CASE NextTick(r)
  <2>1. "subscribe" \in Kinds /\ reader[r].ip \in IPs \cup {All}
    BY <1>1, <1>8, ServiceConstants DEF NextTick, ReaderState, ReaderKind, Sound, InHand, Is
  <2>. QED
    BY <1>8, <2>1, BeginIInv DEF NextTick
<1>9. LookupMissing(r) \/ Respond(r) \/ Unsubscribe(r) => IInv'
  BY ToIdle DEF LookupMissing, Respond, Unsubscribe
<1>. QED
  BY <1>2, <1>3, <1>4, <1>6, <1>7, <1>8, <1>9, GetSnapshotIInv DEF ReaderStep
-----------------------------------------------------------------------------
(* The end of a write of the map. *)
LEMMA EndWriteIInv == ASSUME IInv, NEW ip \in IPs, EndWrite(ip) PROVE IInv'
<1>1. /\ workers' = [workers EXCEPT ![ip] = IF @ = 0 THEN created[ip] ELSE 0]
      /\ UNCHANGED <<phase, created, latest>> /\ writing' = None
  BY DEF EndWrite
<1>2. workers' \in [IPs -> 0..MaxWorkers]
  BY <1>1, ServiceConstants DEF IInv, TypeOK
<1>3. ASSUME NEW r \in Readers
      PROVE  /\ reader'[r] \in ReaderState
             /\ reader'[r].kind = reader[r].kind /\ reader'[r].pc = reader[r].pc
             /\ reader'[r].ip = reader[r].ip /\ reader'[r].entry = reader[r].entry
             /\ reader'[r].images = reader[r].images /\ reader'[r].before = reader[r].before
             /\ reader'[r].visited \subseteq reader[r].visited
             /\ reader'[r].always \subseteq reader[r].always
             /\ reader[r].ever \subseteq reader'[r].ever
             /\ workers'[ip] # 0 => ip \in reader'[r].ever
  <2>1. reader[r] \in ReaderState
    BY DEF IInv, TypeOK
  <2> DEFINE gone == workers'[ip] = 0
             v == IF gone THEN reader[r].visited \ {ip} ELSE reader[r].visited
             a == IF gone THEN reader[r].always \ {ip} ELSE reader[r].always
             e == IF gone THEN reader[r].ever ELSE reader[r].ever \cup {ip}
  <2>2. reader'[r] = [reader[r] EXCEPT !.visited = v, !.always = a, !.ever = e]
    BY DEF EndWrite
  <2>3. /\ v \in SUBSET IPs /\ v \subseteq reader[r].visited
        /\ a \in SUBSET IPs /\ a \subseteq reader[r].always
        /\ e \in SUBSET IPs /\ reader[r].ever \subseteq e
        /\ workers'[ip] # 0 => ip \in e
    BY <2>1 DEF ReaderState
  <2> HIDE DEF v, a, e
  <2>. QED
    BY <2>1, <2>2, <2>3 DEF ReaderState
<1>4. reader' \in [Readers -> ReaderState]
  <2>1. reader' = [r \in Readers |-> reader'[r]]
    BY DEF EndWrite
  <2>. QED
    BY <1>3, <2>1
<1>5. TypeOK'
  BY <1>1, <1>2, <1>4 DEF IInv, TypeOK
<1>6. ASSUME NEW r \in Readers PROVE Sound(r)'
  <2>1. Sound(r)
    BY DEF IInv
  <2>2. /\ AnsweredIPs(r)' = AnsweredIPs(r) /\ Wanted(r)' = Wanted(r)
        /\ Is(r, "bot")' = Is(r, "bot")
    BY <1>3 DEF AnsweredIPs, Wanted, Is
  <2>3. EverTracked(r)'
    <3>1. Tracked' \subseteq Tracked \cup (IF workers'[ip] # 0 THEN {ip} ELSE {})
      BY <1>1 DEF Tracked, IInv, TypeOK
    <3>. QED
      BY <1>3, <2>1, <3>1 DEF Sound, EverTracked
  <2>4. InHand(r)' /\ ImagesAsked(r)' /\ VisitedAnswered(r)'
    BY <1>3, <2>1, <2>2 DEF Sound, InHand, ImagesAsked, VisitedAnswered, Is
  <2>5. FramesFresh(r)'
    BY <1>1, <1>3, <2>1 DEF Sound, FramesFresh
  <2>. QED
    BY <2>3, <2>4, <2>5 DEF Sound
<1>. QED
  BY <1>5, <1>6 DEF IInv

(* The other steps of the poller and its workers, and those of the process. *)
LEMMA OtherIInv ==
  ASSUME IInv, UNCHANGED <<workers, reader>>, TypeOK',
         \A w \in Worker : latest'[w] >= latest[w]
  PROVE  IInv'
<1>1. ASSUME NEW r \in Readers PROVE FramesFresh(r)'
  BY DEF FramesFresh, IInv, Sound, TypeOK, ReaderState
<1>2. ASSUME NEW r \in Readers
      PROVE  EverTracked(r)' /\ InHand(r)' /\ ImagesAsked(r)' /\ VisitedAnswered(r)'
  BY DEF IInv, Sound, EverTracked, InHand, ImagesAsked, VisitedAnswered, Tracked,
     AnsweredIPs, Wanted, Is
<1>. QED
  BY <1>1, <1>2 DEF IInv, Sound

LEMMA PollerIInv == ASSUME IInv, Poller PROVE IInv'
<1>1. ASSUME NEW ip \in IPs, BeginInsert(ip) PROVE IInv'
  <2>1. TypeOK'
    BY <1>1, ServiceConstants DEF BeginInsert, IInv, TypeOK
  <2>. QED
    BY <1>1, <2>1, OtherIInv DEF BeginInsert, IInv, TypeOK
<1>2. ASSUME NEW ip \in IPs, BeginDelete(ip) PROVE IInv'
  <2>1. TypeOK'
    BY <1>2 DEF BeginDelete, IInv, TypeOK
  <2>. QED
    BY <1>2, <2>1, OtherIInv DEF BeginDelete, IInv, TypeOK
<1>3. ASSUME NEW w \in Worker, StoreFrame(w) PROVE IInv'
  <2>1. latest' = [latest EXCEPT ![w] = @ + 1] /\ latest[w] < MaxFrames
    BY <1>3 DEF StoreFrame
  <2>2. latest' \in [Worker -> 0..MaxFrames] /\ \A v \in Worker : latest'[v] >= latest[v]
    BY <2>1, ServiceConstants DEF IInv, TypeOK
  <2>3. TypeOK'
    BY <1>3, <2>2 DEF StoreFrame, IInv, TypeOK
  <2>. QED
    BY <1>3, <2>2, <2>3, OtherIInv DEF StoreFrame
<1>. QED
  BY <1>1, <1>2, <1>3, EndWriteIInv DEF Poller

LEMMA NextIInv == IInv /\ [Next]_vars => IInv'
<1> SUFFICES ASSUME IInv, [Next]_vars PROVE IInv'
  OBVIOUS
<1>1. Serve \/ Die \/ UNCHANGED vars => IInv'
  <2>1. Serve \/ Die \/ UNCHANGED vars => UNCHANGED <<pollerVars, reader>> /\ phase' \in Phase
    BY DEF Serve, Die, vars, pollerVars, IInv, TypeOK, Phase
  <2>2. UNCHANGED <<pollerVars, reader>> /\ phase' \in Phase => TypeOK'
    BY DEF pollerVars, IInv, TypeOK
  <2>. QED
    BY <2>1, <2>2, OtherIInv DEF pollerVars, IInv, TypeOK
<1>2. ASSUME NEW r \in Readers, BotTooEarly(r) \/ RaceDetected(r) PROVE IInv'
  BY <1>1, <1>2 DEF BotTooEarly, RaceDetected
<1>. QED
  BY <1>1, <1>2, PollerIInv, RequestIInv, ReaderIInv DEF Next
-----------------------------------------------------------------------------
(* The inductive invariant of the readers and the map they read. *)
THEOREM Invariant == Spec => []IInv
BY InitIInv, NextIInv, PTL DEF Spec

(* The map, the frames and the readers' locals keep their types. *)
THEOREM TypeCorrect == Spec => []TypeOK
<1>1. IInv => TypeOK
  BY DEF IInv
<1>. QED
  BY <1>1, Invariant, PTL

(* A response shows every camera it was asked for that was tracked throughout, none that
   was not tracked at all, and, from a handler, each only once. *)
THEOREM ResponsesComplete == Spec => []ResponseComplete
<1>1. IInv => ResponseComplete
  BY DEF IInv, Sound, ImagesAsked, VisitedAnswered, ResponseComplete
<1>. QED
  BY <1>1, Invariant, PTL

(* No image is older than the response it is in. *)
THEOREM ResponsesFresh == Spec => []ResponseFresh
<1>1. IInv => ResponseFresh
  BY DEF IInv, Sound, FramesFresh, ResponseFresh
<1>. QED
  BY <1>1, Invariant, PTL
=============================================================================
