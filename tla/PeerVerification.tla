-------------------------- MODULE PeerVerification --------------------------
(***************************************************************************)
(* The handshakes over the revocation list that CrlWatcher keeps up to      *)
(* date: the VerifyPeerCertificate callback of server.Run, called by one    *)
(* goroutine per connection, all of which share its map revokedCerts.       *)
(*                                                                         *)
(* Chains have been verified against the pool of trusted certificates when  *)
(* the callback is called, and parsed: an error of ParseCertificate is left *)
(* out. Without a --caCrl there is no callback, and no list either.         *)
(***************************************************************************)
EXTENDS CrlWatcher

CONSTANTS
  Handshakes,   \* connections in their handshake at a time
  Serials,      \* serial numbers of peer certificates
  Signed,       \* the writes whose list a trusted CA has signed
  Revoked       \* Revoked[n]: the serials on the list of write n

ASSUME PeerConstants ==
  /\ Signed \subseteq Version
  /\ Revoked \in [Version -> SUBSET Serials]

VARIABLES
  up,            \* the process runs
  hs,            \* the local state of each connection's goroutine
  revokedCerts   \* the callback's cache of revoked serials

peerVars == <<up, hs, revokedCerts>>
allVars  == <<vars, peerVars>>

(* No connection; before CheckCRLSignature; in the loop over rawCerts; inside the
   map's assignment; let in. *)
PeerPC == {"idle", "signature", "loop", "store", "accepted"}

(* crl: the callback's copy of CachedCaCrl. chain, rest: rawCerts, and those not
   looked at yet. barred: the serials that the file barred when the handshake
   began, if no change of it was being dealt with or could not be read. *)
PeerState ==
  [pc : PeerPC, crl : Version \cup {Nil}, chain : SUBSET Serials,
   rest : SUBSET Serials, barred : SUBSET Serials]

PeerTypeOK ==
  /\ up \in BOOLEAN
  /\ hs \in [Handshakes -> PeerState]
  /\ revokedCerts \subseteq Serials

NoPeer == [pc |-> "idle", crl |-> Nil, chain |-> {}, rest |-> {}, barred |-> {}]

PeerInit ==
  /\ Init
  /\ up = TRUE
  /\ hs = [h \in Handshakes |-> NoPeer]
  /\ revokedCerts = {}

(* Whom a list keeps out: without a list, or with one that no trusted CA has
   signed, everybody. *)
Barred(list) == IF list \in Signed THEN Revoked[list] ELSE Serials

(* Run listens once Init has returned. *)
Listening == up /\ listener \notin {"initRead", "initParse", "failed"}

At(h, label) == up /\ hs[h].pc = label

Move(h, label) ==
  /\ hs' = [hs EXCEPT ![h].pc = label]
  /\ UNCHANGED <<vars, up, revokedCerts>>

(* An error of the callback, or its panic: the connection is closed. *)
Close(h) ==
  /\ hs' = [hs EXCEPT ![h] = NoPeer]
  /\ UNCHANGED <<vars, up, revokedCerts>>
-----------------------------------------------------------------------------
(* Mutant of Begin: a list that is missing is taken for the first one. *)
BeginNilIgnored(h, chain) ==
  /\ Listening /\ hs[h].pc = "idle"
  /\ hs' = [hs EXCEPT ![h] =
       [pc |-> "signature", crl |-> IF cached = Nil THEN 0 ELSE cached,
        chain |-> chain, rest |-> chain,
        barred |-> IF InForce THEN Barred(Parsed(file)) ELSE {}]]
  /\ UNCHANGED <<vars, up, revokedCerts>>

(* The callback is called and reads CachedCaCrl. *)
Begin(h, chain) ==
  /\ Listening /\ hs[h].pc = "idle"
  /\ hs' = [hs EXCEPT ![h] =
       [pc |-> "signature", crl |-> cached, chain |-> chain, rest |-> chain,
        barred |-> IF InForce THEN Barred(Parsed(file)) ELSE {}]]
  /\ UNCHANGED <<vars, up, revokedCerts>>

(* Mutant of SignatureMatches: the loop's last error is not looked at. *)
SignatureUnchecked(h) ==
  At(h, "signature") /\ hs[h].crl # Nil /\ Move(h, "loop")

(* The loop over trustedCerts. *)
SignatureMatches(h) ==
  At(h, "signature") /\ hs[h].crl \in Signed /\ Move(h, "loop")

SignatureFails(h) ==
  At(h, "signature") /\ hs[h].crl \notin Signed \cup {Nil} /\ Close(h)

(* CheckCRLSignature(nil) dereferences nil; net/http recovers the panic. *)
NoList(h) == At(h, "signature") /\ hs[h].crl = Nil /\ Close(h)

(* The next certificate of the chain: in the cache, on the list, or neither. *)
InCache(h, s) ==
  /\ At(h, "loop") /\ s \in hs[h].rest
  /\ s \in revokedCerts
  /\ Close(h)

(* The list is searched; the serial is about to be stored. *)
OnList(h, s) ==
  /\ At(h, "loop") /\ s \in hs[h].rest
  /\ s \notin revokedCerts /\ s \in Revoked[hs[h].crl]
  /\ hs' = [hs EXCEPT ![h].pc = "store", ![h].rest = {s}]
  /\ UNCHANGED <<vars, up, revokedCerts>>

(* Mutant of NotRevoked: the map caches every answer. *)
NotRevokedStored(h, s) ==
  /\ At(h, "loop") /\ s \in hs[h].rest
  /\ s \notin revokedCerts \cup Revoked[hs[h].crl]
  /\ hs' = [hs EXCEPT ![h].pc = "store", ![h].rest = {s}]
  /\ UNCHANGED <<vars, up, revokedCerts>>

NotRevoked(h, s) ==
  /\ At(h, "loop") /\ s \in hs[h].rest
  /\ s \notin revokedCerts \cup Revoked[hs[h].crl]
  /\ hs' = [hs EXCEPT ![h].rest = @ \ {s}]
  /\ UNCHANGED <<vars, up, revokedCerts>>

(* Mutant of Store: the whole chain is taken for revoked. *)
StoreChain(h) ==
  /\ At(h, "store")
  /\ revokedCerts' = revokedCerts \cup hs[h].chain
  /\ hs' = [hs EXCEPT ![h] = NoPeer]
  /\ UNCHANGED <<vars, up>>

Store(h) ==
  /\ At(h, "store")
  /\ revokedCerts' = revokedCerts \cup hs[h].rest
  /\ hs' = [hs EXCEPT ![h] = NoPeer]
  /\ UNCHANGED <<vars, up>>

(* "fatal error: concurrent map read and map write", or "concurrent map writes". *)
RaceDetected(h) ==
  /\ (At(h, "loop") /\ hs[h].rest # {}) \/ At(h, "store")
  /\ \E g \in Handshakes \ {h} : At(g, "store")
  /\ up' = FALSE
  /\ UNCHANGED <<vars, hs, revokedCerts>>

Accept(h) == At(h, "loop") /\ hs[h].rest = {} /\ Move(h, "accepted")

Disconnect(h) == At(h, "accepted") /\ Close(h)
-----------------------------------------------------------------------------
(* The goroutines of CrlWatcher, as long as the process lives. *)
WatcherStep  == up /\ Watcher /\ UNCHANGED peerVars
ListenerStep == up /\ Listener /\ UNCHANGED peerVars
FileStep ==
  up /\ UNCHANGED peerVars /\ \E content \in Content : WriteFile(content)

Handshake(h) ==
  \/ \E chain \in SUBSET Serials \ {{}} : Begin(h, chain)
  \/ SignatureMatches(h) \/ SignatureFails(h) \/ NoList(h)
  \/ \E s \in Serials : InCache(h, s) \/ OnList(h, s) \/ NotRevoked(h, s)
  \/ Store(h) \/ Accept(h) \/ RaceDetected(h) \/ Disconnect(h)

PeerNext ==
  \/ ListenerStep \/ WatcherStep \/ FileStep
  \/ \E h \in Handshakes : Handshake(h)

PeerSpec == PeerInit /\ [][PeerNext]_allVars

(* Both goroutines of CrlWatcher keep running; nobody has to write the file or to
   connect, and no handshake has to go on. *)
PeerFairSpec == PeerSpec /\ WF_allVars(ListenerStep) /\ WF_allVars(WatcherStep)
-----------------------------------------------------------------------------
(* Who is accepted has been held against one list, read once, that a trusted CA has
   signed, certificate by certificate: a list that is exchanged or lost during the
   handshake, another handshake's entry in the cache, or a chain of several
   certificates lets nobody through. *)
AcceptedAgainstSignedList ==
  \A h \in Handshakes :
    hs[h].pc = "accepted" => hs[h].chain \cap Barred(hs[h].crl) = {}

(* Once the watcher and the listener have caught up with the file, what it bars is
   kept out of every handshake that begins, until the file changes again: from the
   stat to the callback's loop nothing falls back on an older list, whatever could
   not be read or parsed before. (If the file's own read has failed, the older list
   stays in force, and there is nothing to hold the handshake against.) *)
SettledListEnforced ==
  \A h \in Handshakes :
    hs[h].pc = "accepted" => hs[h].chain \cap hs[h].barred = {}

(* revokedCerts outlives the lists it was filled from, so it had better hold
   nothing that no signed list so far has revoked. *)
CacheFromSignedLists ==
  \A s \in revokedCerts : \E n \in Signed : n <= file.number /\ s \in Revoked[n]

(* The unlocked map ends the process only if somebody has been revoked: with lists
   that are empty, concurrent handshakes do no harm. *)
FatalNeedsRevocation ==
  ~up => \E n \in Signed : n <= file.number /\ Revoked[n] # {}

(* "updates the CA's cached CRL when the file is modified": a list that is written and
   stays in place gets cached, as long as the watcher and the process live: no order
   of stat, send, read and sleep leaves the listener waiting for a change that has
   been taken for known. There are two exceptions, neither of which is retried: a stat
   that fails ends the watcher, without a word to the listener, and a read that fails
   after the stat (missed) leaves this list out. *)
ServedUpdateReachesCache ==
  \A n \in Version :
    InPlace(n) ~>
      (cached = n \/ missed = n \/ file.number # n \/ watcher = "dead" \/ ~up)
=============================================================================
