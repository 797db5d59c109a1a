----------------------------- MODULE CrlWatcher -----------------------------
(***************************************************************************)
(* The certificate revocation list kept up to date: server_crl.Init loads   *)
(* the file, then a listener goroutine starts a watcher goroutine           *)
(* (utils/filewatcher) that compares the file's stat with the last one once *)
(* per second and reports a change over an unbuffered channel; the listener *)
(* then loads the file again. The handshakes use what is cached.            *)
(*                                                                         *)
(* FileWatcher.Close is not modelled: the listener's loop ends only when    *)
(* IsRunning is cleared, which only Close does.                             *)
(***************************************************************************)
EXTENDS Naturals

CONSTANTS
  MaxWrites,    \* bound on the writes of the file
  QuietStart,   \* the file does not change while the server starts
  Nil           \* the nil CachedCaCrl

ASSUME CrlConstants ==
  /\ MaxWrites \in Nat
  /\ QuietStart \in BOOLEAN
  /\ Nil \notin Nat

VARIABLES
  file,       \* the file: the number of the write that made it, and its content
  cached,     \* CachedCaCrl, as the number of the write it was parsed from
  listener,   \* where the goroutine of Init and ListenForCACrlChanges is
  raw,        \* rawCrl, what LoadCACrl has read
  missed,     \* the write at which its last ReadFile failed; Nil if it went well
  watcher,    \* where the watchFile goroutine is
  seen,       \* initialStat, as the number of the write it is the stat of
  stat        \* stat

vars == <<file, cached, listener, raw, missed, watcher, seen, stat>>

(* An in-place write passes through a content that does not parse. Size and
   modification time tell any two writes apart. *)
Content == {"valid", "garbage", "absent"}
Version == 0..MaxWrites
File    == [number : Version, content : Content]

(* What can be read of it; the bytes before the first read do not parse. *)
Bytes  == [number : Version, content : Content \ {"absent"}]
Unread == [number |-> 0, content |-> "garbage"]

(* Init reads, Init parses, the server gives up; the listener starts the watcher,
   waits at the channel, reads, parses. *)
ListenerPC == {"initRead", "initParse", "failed", "spawn", "wait", "read", "parse"}

(* Not started; before the first Stat; before a Stat of the loop; sending;
   sleeping; returned after an error. *)
WatcherPC == {"off", "first", "poll", "send", "sleep", "dead"}

TypeOK ==
  /\ file \in File
  /\ cached \in Version \cup {Nil}
  /\ listener \in ListenerPC /\ raw \in Bytes /\ missed \in Version \cup {Nil}
  /\ watcher \in WatcherPC /\ seen \in Version /\ stat \in Version

(* x509.ParseCRL: a list or nil; both are assigned. *)
Parsed(f) == IF f.content = "valid" THEN f.number ELSE Nil

Init ==
  /\ file \in [number : {0}, content : Content]
  /\ cached = Nil
  /\ listener = "initRead" /\ raw = Unread /\ missed = Nil
  /\ watcher = "off" /\ seen = 0 /\ stat = 0
-----------------------------------------------------------------------------
(* Whoever maintains the file. *)
WriteFile(content) ==
  /\ file.number < MaxWrites
  /\ QuietStart => watcher \notin {"off", "first"}
  /\ content = "absent" => file.content # "absent"
  /\ file' = [number |-> file.number + 1, content |-> content]
  /\ UNCHANGED <<cached, listener, raw, missed, watcher, seen, stat>>
-----------------------------------------------------------------------------
(* LoadCACrl, called by Init and by the listener. A file that cannot be read, be it
   absent or not to be opened, leaves the cache alone; one that cannot be parsed
   empties it. *)

Read(from, to, otherwise) ==
  /\ listener = from
  /\ \/ /\ file.content # "absent"
        /\ listener' = to /\ raw' = file /\ missed' = Nil
     \/ listener' = otherwise /\ missed' = file.number /\ raw' = raw
  /\ UNCHANGED <<file, cached, watcher, seen, stat>>

InitRead == Read("initRead", "initParse", "failed")

InitParse ==
  /\ listener = "initParse"
  /\ cached' = Parsed(raw)
  /\ listener' = IF raw.content = "valid" THEN "spawn" ELSE "failed"
  /\ UNCHANGED <<file, raw, missed, watcher, seen, stat>>

(* ListenForCACrlChanges: NewFileWatcher. *)
SpawnWatcher ==
  /\ listener = "spawn"
  /\ listener' = "wait" /\ watcher' = "first"
  /\ UNCHANGED <<file, cached, raw, missed, seen, stat>>

ListenerRead == Read("read", "parse", "wait")

(* Mutant of ListenerParse: a list that does not parse is kept out. *)
ListenerParseKeeps ==
  /\ listener = "parse"
  /\ cached' = IF raw.content = "valid" THEN raw.number ELSE cached
  /\ listener' = "wait"
  /\ UNCHANGED <<file, raw, missed, watcher, seen, stat>>

ListenerParse ==
  /\ listener = "parse"
  /\ cached' = Parsed(raw)
  /\ listener' = "wait"
  /\ UNCHANGED <<file, raw, missed, watcher, seen, stat>>
-----------------------------------------------------------------------------
(* watchFile. Stat fails of an absent file, and may fail of any. *)

FirstStat ==
  /\ watcher = "first"
  /\ \/ file.content # "absent" /\ watcher' = "poll" /\ seen' = file.number
     \/ watcher' = "dead" /\ seen' = seen
  /\ UNCHANGED <<file, cached, listener, raw, missed, stat>>

PollStat ==
  /\ watcher = "poll"
  /\ \/ /\ file.content # "absent"
        /\ watcher' = IF file.number # seen THEN "send" ELSE "sleep"
        /\ stat' = file.number
     \/ watcher' = "dead" /\ stat' = stat
  /\ UNCHANGED <<file, cached, listener, raw, missed, seen>>

(* Mutant of Notify: a listener that is busy is not waited for. *)
NotifyUnheard ==
  /\ watcher = "send"
  /\ seen' = stat
  /\ watcher' = "sleep"
  /\ listener' = IF listener = "wait" THEN "read" ELSE listener
  /\ UNCHANGED <<file, cached, raw, missed, stat>>

(* The rendezvous at ChangeTriggerChan. *)
Notify ==
  /\ watcher = "send" /\ listener = "wait"
  /\ seen' = stat
  /\ watcher' = "sleep" /\ listener' = "read"
  /\ UNCHANGED <<file, cached, raw, missed, stat>>

WakeUp ==
  /\ watcher = "sleep"
  /\ watcher' = "poll"
  /\ UNCHANGED <<file, cached, listener, raw, missed, seen, stat>>
-----------------------------------------------------------------------------
Listener == InitRead \/ InitParse \/ SpawnWatcher \/ ListenerRead \/ ListenerParse
Watcher  == FirstStat \/ PollStat \/ Notify \/ WakeUp

Next == Listener \/ Watcher \/ \E content \in Content : WriteFile(content)

Spec == Init /\ [][Next]_vars
-----------------------------------------------------------------------------
(* The watcher has seen the file as it is, and the listener has nothing to do. *)
Settled ==
  listener = "wait" /\ watcher \in {"poll", "send", "sleep"} /\ seen = file.number

(* The listener's read of it went well. One that failed is not repeated: the stat has
   been taken, and only another write is news. *)
InForce == Settled /\ missed # file.number

(* When they have caught up, the cache is what the file parses to: neither the time
   between the stat and the read nor that between the read and the next stat hides
   a change. The exception is a ReadFile that failed at this very version, which is
   logged and forgotten; one that failed before does no harm. *)
NoChangeLost == InForce => cached = Parsed(file)

(* The server has started, and the file is the list of write n. *)
InPlace(n) ==
  /\ listener \notin {"initRead", "initParse", "failed"}
  /\ file = [number |-> n, content |-> "valid"]
=============================================================================
