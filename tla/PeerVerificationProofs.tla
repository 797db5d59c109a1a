----------------------- MODULE PeerVerificationProofs -----------------------
(***************************************************************************)
(* Theorems about CrlWatcher and PeerVerification, for any lists,           *)
(* signatures, number of writes and of concurrent handshakes. After a quiet *)
(* start, the watcher and the listener lose no change but one whose read    *)
(* fails. What a handshake does follows from its own copy of the list; that *)
(* the copy is the one in place is what the first part shows of the         *)
(* watcher.                                                                 *)
(***************************************************************************)
EXTENDS PeerVerification, TLAPS
-----------------------------------------------------------------------------
(* The watcher and the listener: theorems about CrlWatcher's Spec. *)

Watching == watcher \in {"poll", "send", "sleep"}

(* The stats are of writes that happened. *)
StatsPast ==
  /\ seen <= file.number
  /\ watcher = "send" => stat <= file.number

(* What has a stat is there. *)
StatsPresent ==
  /\ Watching /\ seen = file.number => file.content # "absent"
  /\ watcher = "send" /\ stat = file.number => file.content # "absent"

(* Until the first stat, the file is as the server has read it, once it has. *)
StartUnchanged ==
  /\ listener \in {"initRead", "initParse", "failed", "spawn"} => watcher = "off"
  /\ watcher \in {"off", "first"} /\ listener \notin {"initRead", "failed"} => raw = file

(* What the watcher has seen, the listener has read, has failed to read or is about
   to read. *)
ReadFollows ==
  Watching /\ listener # "read" /\ seen = file.number =>
    raw = file \/ missed = file.number

(* The cache is what the last read parses to, as soon as it is parsed. *)
CacheParsed == listener \in {"spawn", "wait", "read"} => cached = Parsed(raw)

IInv ==
  /\ TypeOK
  /\ StatsPast
  /\ StatsPresent
  /\ StartUnchanged
  /\ ReadFollows
  /\ CacheParsed
-----------------------------------------------------------------------------
(* Initially nothing is read, and the file is the first version. *)
LEMMA InitIInv == Init => IInv
BY CrlConstants DEF Init, IInv, TypeOK, Version, File, Bytes, Unread, Content, ListenerPC, WatcherPC,
   Watching, StatsPast, StatsPresent, StartUnchanged, ReadFollows, CacheParsed

(* A write is newer than every stat; before the first stat there is none. *)
LEMMA WriteIInv ==
  ASSUME QuietStart, IInv, NEW content \in Content, WriteFile(content)
  PROVE  IInv'
<1>1. file'.number = file.number + 1 /\ file'.content = content
  BY DEF WriteFile
<1>2. file' \in File
  BY CrlConstants DEF WriteFile, IInv, TypeOK, File, Version
<1>3. file.number \in Nat /\ seen \in Nat /\ stat \in Nat
  BY DEF IInv, TypeOK, File, Version
<1>. QED
  BY <1>1, <1>2, <1>3 DEF WriteFile, IInv, TypeOK, Watching, StatsPast, StatsPresent,
     StartUnchanged, ReadFollows, CacheParsed

(* The listener's reads catch up with the watcher's stats. *)
LEMMA ListenerIInv == ASSUME IInv, Listener PROVE IInv'
<1> USE DEF IInv, TypeOK, ListenerPC, Watching, StatsPast, StatsPresent,
        StartUnchanged, ReadFollows, CacheParsed
<1>t. Parsed(raw) \in Version \cup {Nil}
  BY DEF Parsed, Bytes
<1>b. file.content # "absent" => file \in Bytes
  BY DEF File, Bytes
<1>v. file.number \in Version
  BY DEF File
<1>1. InitRead => IInv'
  BY <1>b, <1>v DEF InitRead, Read
<1>2. InitParse => IInv'
  BY <1>t DEF InitParse, Parsed
<1>3. SpawnWatcher => IInv'
  BY DEF SpawnWatcher, WatcherPC
<1>4. ListenerRead => IInv'
  BY <1>b, <1>v DEF ListenerRead, Read
<1>5. ListenerParse => IInv'
  BY <1>t DEF ListenerParse, Parsed
<1>. QED
  BY <1>1, <1>2, <1>3, <1>4, <1>5 DEF Listener

(* The watcher's stats are of the file as it is. *)
LEMMA WatcherIInv == ASSUME IInv, Watcher PROVE IInv'
<1> USE DEF IInv, TypeOK, File, WatcherPC, Watching, StatsPast, StatsPresent,
        StartUnchanged, ReadFollows, CacheParsed, Version
<1>1. FirstStat => IInv'
  BY DEF FirstStat
<1>2. PollStat => IInv'
  BY DEF PollStat
<1>3. Notify => IInv'
  BY DEF Notify, ListenerPC
<1>4. WakeUp => IInv'
  BY DEF WakeUp
<1>. QED
  BY <1>1, <1>2, <1>3, <1>4 DEF Watcher

(* The invariant is inductive, if the file is quiet while the server starts. *)
LEMMA NextIInv == QuietStart /\ IInv /\ [Next]_vars => IInv'
<1> SUFFICES ASSUME QuietStart, IInv, [Next]_vars PROVE IInv'
  OBVIOUS
<1>1. CASE UNCHANGED vars
  BY <1>1 DEF vars, IInv, TypeOK, Watching, StatsPast, StatsPresent,
     StartUnchanged, ReadFollows, CacheParsed
<1>. QED
  BY <1>1, WriteIInv, ListenerIInv, WatcherIInv DEF Next

(* The inductive invariant of the watcher and the listener. *)
THEOREM Invariant == QuietStart => (Spec => []IInv)
<1> SUFFICES ASSUME QuietStart PROVE Spec => []IInv
  OBVIOUS
<1>1. IInv /\ [Next]_vars => IInv'
  BY NextIInv
<1>. QED
  BY <1>1, InitIInv, PTL DEF Spec

(* The types need no quiet start. *)
LEMMA NextTypeOK == TypeOK /\ [Next]_vars => TypeOK'
<1> SUFFICES ASSUME TypeOK, [Next]_vars PROVE TypeOK'
  OBVIOUS
<1> USE DEF TypeOK, ListenerPC, WatcherPC
<1>t. Parsed(raw) \in Version \cup {Nil}
  BY DEF Parsed, Bytes
<1>b. file.content # "absent" => file \in Bytes
  BY DEF File, Bytes
<1>v. file.number \in Version
  BY DEF File
<1>w. ASSUME NEW content \in Content, WriteFile(content) PROVE TypeOK'
  BY <1>w, CrlConstants DEF WriteFile, File, Version
<1>l. CASE Listener
  BY <1>l, <1>t, <1>b, <1>v DEF Listener, InitRead, InitParse, SpawnWatcher, ListenerRead,
     ListenerParse, Read
<1>s. CASE Watcher
  BY <1>s DEF Watcher, FirstStat, PollStat, Notify, WakeUp, File
<1>u. CASE UNCHANGED vars
  BY <1>u DEF vars
<1>. QED
  BY <1>w, <1>l, <1>s, <1>u DEF Next

(* The variables of the watcher and the listener keep their types, whenever the
   file is written. *)
THEOREM TypeCorrect == Spec => []TypeOK
<1>1. Init => TypeOK
  BY CrlConstants DEF Init, TypeOK, Version, File, Bytes, Unread, Content, ListenerPC, WatcherPC
<1>. QED
  BY <1>1, NextTypeOK, PTL DEF Spec

(* If the file does not change while the server starts, no change is lost that can be
   read when it is found, whatever reads have failed before, and even when the file
   vanishes for a while between a stat and a read. *)
THEOREM ChangesKept == QuietStart => (Spec => []NoChangeLost)
<1> SUFFICES ASSUME QuietStart PROVE Spec => []NoChangeLost
  OBVIOUS
<1>1. IInv => NoChangeLost
  BY DEF IInv, NoChangeLost, InForce, Settled, Watching, ReadFollows, CacheParsed
<1>. QED
  BY <1>1, Invariant, PTL
-----------------------------------------------------------------------------
(* The handshakes: theorems about PeerSpec. *)

(* Past the signature, the list is a signed one. *)
ListSigned ==
  \A h \in Handshakes : hs[h].pc \in {"loop", "store", "accepted"} => hs[h].crl \in Signed

(* What the loop has passed is not on the list; all of the chain, in the end. *)
PassedUnlisted ==
  \A h \in Handshakes :
    /\ hs[h].pc \in {"loop", "accepted"} =>
         (hs[h].chain \ hs[h].rest) \cap Barred(hs[h].crl) = {}
    /\ hs[h].pc = "accepted" => hs[h].rest = {}
    /\ hs[h].pc = "signature" => hs[h].rest = hs[h].chain

(* What is about to be stored is on a signed list, and lists are of the past. *)
StoreListed ==
  \A h \in Handshakes :
    /\ hs[h].pc # "idle" /\ hs[h].crl # Nil => hs[h].crl <= file.number
    /\ hs[h].pc = "store" => hs[h].rest \subseteq Revoked[hs[h].crl] /\ hs[h].rest # {}

(* The cached list is of the past, and so is what has been read. *)
CachePast == (cached # Nil => cached <= file.number) /\ raw.number <= file.number

PInv ==
  /\ TypeOK
  /\ PeerTypeOK
  /\ CachePast
  /\ ListSigned
  /\ PassedUnlisted
  /\ StoreListed
  /\ CacheFromSignedLists
  /\ FatalNeedsRevocation

(* What a settled file bars, the handshake's list bars: inductive as long as the
   cache follows the file. *)
BarredByList ==
  \A h \in Handshakes : hs[h].pc # "idle" => hs[h].barred \subseteq Barred(hs[h].crl)
-----------------------------------------------------------------------------
(* A step of the composition is a step of CrlWatcher or leaves it alone. *)
LEMMA WatcherSteps == [PeerNext]_allVars => [Next]_vars
BY DEF PeerNext, allVars, ListenerStep, WatcherStep, FileStep, Next, Handshake, Begin,
   SignatureMatches, SignatureFails, NoList, InCache, OnList, NotRevoked, Store, Accept,
   RaceDetected, Disconnect, Move, Close

(* The handshakes leave CrlWatcher its properties. *)
LEMMA WatcherImplemented == PeerSpec => Spec
<1>1. PeerInit => Init
  BY DEF PeerInit
<1>. QED
  BY <1>1, WatcherSteps, PTL DEF PeerSpec, Spec

(* However many handshakes there are, no change is lost that can be read when it is
   found. *)
THEOREM SettledIsCached == QuietStart => (PeerSpec => []NoChangeLost)
BY WatcherImplemented, ChangesKept, PTL
-----------------------------------------------------------------------------
(* Initially there is no connection and nothing is cached. *)
LEMMA InitPInv == PeerInit => PInv
<1>1. Init => TypeOK
  BY CrlConstants DEF Init, TypeOK, Version, File, Bytes, Unread, Content, ListenerPC, WatcherPC
<1>. QED
  BY <1>1, CrlConstants DEF PeerInit, Init, PInv, PeerTypeOK, PeerState, PeerPC, NoPeer, CachePast, ListSigned,
     PassedUnlisted, StoreListed, CacheFromSignedLists, FatalNeedsRevocation, Unread, File

(* Writing, watching and loading add versions and change no handshake. *)
LEMMA CrlStepPInv ==
  ASSUME PInv, ListenerStep \/ WatcherStep \/ FileStep
  PROVE  PInv'
<1> USE DEF PInv
<1>1. [Next]_vars /\ UNCHANGED peerVars
  BY DEF ListenerStep, WatcherStep, FileStep, Next
<1>2. TypeOK'
  BY <1>1, NextTypeOK
<1>n. file.number \in Nat /\ raw.number \in Nat /\ Signed \subseteq Nat
  BY PeerConstants DEF TypeOK, File, Bytes, Version
<1>3. file'.number \in Nat /\ file.number <= file'.number
  <2>1. CASE FileStep
    BY <2>1, <1>n DEF FileStep, WriteFile
  <2>2. CASE ListenerStep
    BY <2>2, <1>n DEF ListenerStep, Listener, InitRead, InitParse, SpawnWatcher,
       ListenerRead, ListenerParse, Read
  <2>3. CASE WatcherStep
    BY <2>3, <1>n DEF WatcherStep, Watcher, FirstStat, PollStat, Notify, WakeUp
  <2>. QED
    BY <2>1, <2>2, <2>3
<1>c. cached \in Nat \cup {Nil} /\ Nil \notin Nat
  BY CrlConstants DEF TypeOK, Version
<1>4. CachePast'
  <2>1. CASE FileStep
    BY <2>1, <1>n, <1>3, <1>c DEF FileStep, WriteFile, CachePast
  <2>2. CASE ListenerStep
    BY <2>2, <1>n, <1>c DEF ListenerStep, Listener, InitRead, InitParse, SpawnWatcher,
       ListenerRead, ListenerParse, Read, Parsed, CachePast
  <2>3. CASE WatcherStep
    BY <2>3 DEF WatcherStep, Watcher, FirstStat, PollStat, Notify, WakeUp, CachePast
  <2>. QED
    BY <2>1, <2>2, <2>3
<1>5. PeerTypeOK' /\ ListSigned' /\ PassedUnlisted'
  BY <1>1 DEF peerVars, PeerTypeOK, ListSigned, PassedUnlisted
<1>6. StoreListed'
  <2>1. \A h \in Handshakes : hs[h].crl \in Nat \cup {Nil}
    BY DEF PeerTypeOK, PeerState, Version
  <2>. QED
    BY <2>1, <1>1, <1>n, <1>3 DEF peerVars, StoreListed
<1>7. CacheFromSignedLists' /\ FatalNeedsRevocation'
  BY <1>1, <1>n, <1>3 DEF peerVars, CacheFromSignedLists, FatalNeedsRevocation
<1>. QED
  BY <1>2, <1>4, <1>5, <1>6, <1>7

(* The loop of one callback; only Store and RaceDetected touch what is shared. *)
LEMMA HandshakePInv ==
  ASSUME PInv, NEW h \in Handshakes, Handshake(h)
  PROVE  PInv'
<1> USE DEF PInv
<1>1. UNCHANGED vars
  BY DEF Handshake, Begin, SignatureMatches, SignatureFails, NoList, InCache, OnList,
     NotRevoked, Store, Accept, RaceDetected, Disconnect, Move, Close
<1>2. TypeOK' /\ CachePast'
  BY <1>1 DEF vars, TypeOK, CachePast
<1>c. Signed \subseteq Version /\ Nil \notin Version
  BY CrlConstants, PeerConstants DEF Version
<1> DEFINE Rest == PeerTypeOK' /\ ListSigned' /\ PassedUnlisted' /\ StoreListed'
                   /\ CacheFromSignedLists' /\ FatalNeedsRevocation'
<1> USE <1>1, <1>c DEF vars, PeerTypeOK, PeerState, PeerPC, ListSigned, PassedUnlisted,
        StoreListed, CacheFromSignedLists, FatalNeedsRevocation, At, Move, Close, NoPeer
<1>b. ASSUME NEW chain \in SUBSET Serials \ {{}}, Begin(h, chain) PROVE Rest
  <2>1. Barred(Parsed(file)) \subseteq Serials
    BY PeerConstants DEF Barred
  <2>2. hs' = [hs EXCEPT ![h] =
          [pc |-> "signature", crl |-> cached, chain |-> chain, rest |-> chain,
           barred |-> IF InForce THEN Barred(Parsed(file)) ELSE {}]]
    BY <1>b DEF Begin
  <2>3. cached \in Version \cup {Nil}
    BY DEF TypeOK
  <2>. QED
    BY <1>b, <2>1, <2>2, <2>3 DEF Begin, CachePast
<1>m. ASSUME SignatureMatches(h) PROVE Rest
  <2>1. hs' = [hs EXCEPT ![h].pc = "loop"] /\ hs[h].pc = "signature" /\ hs[h].crl \in Signed
    BY <1>m DEF SignatureMatches
  <2>2. hs[h].chain \ hs[h].rest = {}
    BY <2>1
  <2>. QED
    BY <1>m, <2>1, <2>2 DEF SignatureMatches
<1>x. SignatureFails(h) \/ NoList(h) \/ Disconnect(h) => Rest
  BY DEF SignatureFails, NoList, Disconnect
<1>i. ASSUME NEW s \in Serials, InCache(h, s) PROVE Rest
  BY <1>i DEF InCache
<1>o. ASSUME NEW s \in Serials, OnList(h, s) PROVE Rest
  <2>1. hs' = [hs EXCEPT ![h] = [hs[h] EXCEPT !.pc = "store", !.rest = {s}]]
    BY <1>o DEF OnList
  <2>2. s \in Revoked[hs[h].crl]
    BY <1>o DEF OnList
  <2>. QED
    BY <1>o, <2>1, <2>2 DEF OnList
<1>n. ASSUME NEW s \in Serials, NotRevoked(h, s) PROVE Rest
  BY <1>n DEF NotRevoked, Barred
<1>s. Store(h) => Rest
  BY DEF Store
<1>a. Accept(h) => Rest
  BY DEF Accept
<1>r. ASSUME RaceDetected(h) PROVE Rest
  <2>1. PICK g \in Handshakes : hs[g].pc = "store"
    BY <1>r DEF RaceDetected
  <2>2. hs[g].crl \in Signed /\ Revoked[hs[g].crl] # {} /\ hs[g].crl <= file.number
    BY <2>1
  <2>. QED
    BY <1>r, <2>2 DEF RaceDetected
<1>. QED
  BY <1>2, <1>b, <1>m, <1>x, <1>i, <1>o, <1>n, <1>s, <1>a, <1>r DEF Handshake
-----------------------------------------------------------------------------
LEMMA NextPInv == PInv /\ [PeerNext]_allVars => PInv'
<1> SUFFICES ASSUME PInv, [PeerNext]_allVars PROVE PInv'
  OBVIOUS
<1>1. CASE ListenerStep \/ WatcherStep \/ FileStep
  BY <1>1, CrlStepPInv
<1>2. ASSUME NEW h \in Handshakes, Handshake(h) PROVE PInv'
  BY <1>2, HandshakePInv
<1>3. CASE UNCHANGED allVars
  BY <1>3 DEF allVars, vars, peerVars, PInv, TypeOK, PeerTypeOK, CachePast, ListSigned,
     PassedUnlisted, StoreListed, CacheFromSignedLists, FatalNeedsRevocation
<1>. QED
  BY <1>1, <1>2, <1>3 DEF PeerNext

(* The inductive invariant of the handshakes. *)
THEOREM PeerInvariant == PeerSpec => []PInv
BY InitPInv, NextPInv, PTL DEF PeerSpec

(* Every variable of the callbacks keeps its type. *)
THEOREM PeerTypeCorrect == PeerSpec => []PeerTypeOK
<1>1. PInv => PeerTypeOK
  BY DEF PInv
<1>. QED
  BY <1>1, PeerInvariant, PTL

(* Nobody is accepted but against one signed list, held against every certificate of
   the chain. *)
THEOREM AcceptedCorrectly == PeerSpec => []AcceptedAgainstSignedList
<1>1. PInv => AcceptedAgainstSignedList
  BY DEF PInv, PassedUnlisted, AcceptedAgainstSignedList
<1>. QED
  BY <1>1, PeerInvariant, PTL

(* What the callbacks remember as revoked, a signed list of the past revoked. *)
THEOREM CacheFounded == PeerSpec => []CacheFromSignedLists
<1>1. PInv => CacheFromSignedLists
  BY DEF PInv
<1>. QED
  BY <1>1, PeerInvariant, PTL

(* Without a revocation, the unlocked map does not end the process. *)
THEOREM RaceNeedsRevocation == PeerSpec => []FatalNeedsRevocation
<1>1. PInv => FatalNeedsRevocation
  BY DEF PInv
<1>. QED
  BY <1>1, PeerInvariant, PTL
-----------------------------------------------------------------------------
(* A handshake's list bars what the file in force barred when it began. *)
LEMMA NextBarredByList ==
  NoChangeLost /\ BarredByList /\ PeerTypeOK /\ [PeerNext]_allVars => BarredByList'
<1> SUFFICES ASSUME NoChangeLost, BarredByList, PeerTypeOK, [PeerNext]_allVars
             PROVE  BarredByList'
  OBVIOUS
<1> USE DEF BarredByList, PeerTypeOK, PeerState, NoPeer
<1>1. ASSUME UNCHANGED hs PROVE BarredByList'
  BY <1>1
<1>2. ASSUME NEW h \in Handshakes, NEW chain \in SUBSET Serials \ {{}}, Begin(h, chain)
      PROVE  BarredByList'
  <2>1. (IF InForce THEN Barred(Parsed(file)) ELSE {}) \subseteq Barred(cached)
    BY DEF NoChangeLost
  <2>. QED
    BY <1>2, <2>1 DEF Begin
<1>3. ASSUME NEW h \in Handshakes, Handshake(h) PROVE BarredByList'
  <2>1. ASSUME SignatureMatches(h) PROVE BarredByList'
    BY <2>1 DEF SignatureMatches, At, Move
  <2>2. ASSUME Accept(h) PROVE BarredByList'
    BY <2>2 DEF Accept, At, Move
  <2>3. ASSUME NEW s \in Serials, OnList(h, s) \/ NotRevoked(h, s) PROVE BarredByList'
    BY <2>3 DEF OnList, NotRevoked, At
  <2>4. ASSUME hs' = [hs EXCEPT ![h] = NoPeer] PROVE BarredByList'
    BY <2>4
  <2>. QED
    BY <1>1, <1>2, <1>3, <2>1, <2>2, <2>3, <2>4 DEF Handshake, SignatureFails, NoList,
       InCache, Store, RaceDetected, Disconnect, Close
<1>. QED
  BY <1>1, <1>3 DEF PeerNext, ListenerStep, WatcherStep, FileStep, allVars, peerVars

(* If the file does not change while the server starts, what a list bars is kept out
   of every handshake that begins once the watcher has caught up with it and the
   listener has read it. *)
THEOREM SettledEnforced == QuietStart => (PeerSpec => []SettledListEnforced)
<1> SUFFICES ASSUME QuietStart PROVE PeerSpec => []SettledListEnforced
  OBVIOUS
<1>1. PeerInit => BarredByList
  BY DEF PeerInit, BarredByList, NoPeer
<1>2. PeerSpec => []BarredByList
  BY <1>1, SettledIsCached, PeerTypeCorrect, NextBarredByList, PTL DEF PeerSpec
<1>3. BarredByList /\ AcceptedAgainstSignedList => SettledListEnforced
  BY DEF BarredByList, AcceptedAgainstSignedList, SettledListEnforced
<1>. QED
  BY <1>2, <1>3, AcceptedCorrectly, PTL
=============================================================================
