---------------------------- MODULE AutoreplyOnce ----------------------------
(***************************************************************************)
(* The "once" recipient cache of the autoreply transport                   *)
(* (src/transports/autoreply.c, autoreply_transport_entry).                *)
(*                                                                         *)
(* Each delivery reads the cache, skips the reply if the recipient was     *)
(* answered within once_repeat, otherwise hands the reply to a child       *)
(* process and then records the recipient.  The cache is either a DBM file *)
(* (once_file_size = 0) or a fixed-size file of records                    *)
(*     time_t (little-endian) . address . NUL                              *)
(* that is read whole, changed in memory and written back from offset 0.   *)
(* Deliveries run as separate processes with no lock on the file; every    *)
(* file access is one read() or one write() and is atomic here.            *)
(***************************************************************************)
EXTENDS Integers, Sequences, SequencesExt, FiniteSets

CONSTANTS
  Deliveries,     \* the autoreply deliveries (transport calls) of a run
  Rcpts,          \* recipient addresses, as sequences of octet values
  TimeLen,        \* sizeof(time_t) in octets
  FileSizes,      \* once_file_size values (0: use the DBM file)
  Repeat,         \* once_repeat in seconds (<= 0: never repeat)
  StartTime,      \* time(NULL) when the run starts
  MaxTicks,       \* bound on the clock
  Concurrent,     \* may deliveries overlap?
  MaxCrashes,     \* bound on deliveries killed and retried
  CrashAfterSend  \* may a delivery be killed after its reply has left?

ASSUME /\ TimeLen \in Nat \ {0}
       /\ FileSizes \subseteq Nat
       /\ \A r \in Rcpts : r \in Seq(1..255) /\ r # <<>>
       /\ Concurrent \in BOOLEAN /\ MaxCrashes \in Nat
       /\ CrashAfterSend \in BOOLEAN

Octets == 0..255

\* memcpy of a time_t: its TimeLen octets, least significant first.
TimeBytes(t) == [i \in 1..TimeLen |-> (t \div (256 ^ (i - 1))) % 256]

\* memcpy(&then, p, sizeof(time_t)) from TimeLen octets.
Decode(b) ==
  LET RECURSIVE D(_)
      D(i) == IF i = 0 THEN 0 ELSE b[i] * (256 ^ (i - 1)) + D(i - 1)
  IN D(TimeLen)

\* One record of the fixed-size file.
Rec(to, t) == TimeBytes(t) \o to \o <<0>>
RecLen(to) == TimeLen + Len(to) + 1

\* Index of the NUL that ends the string at s, within the first n octets of
\* b; 0 when strlen would run past them.
NulAt(b, s, n) ==
  IF s > n THEN 0 ELSE SelectInSubSeq(b, s, n, LAMBDA x : x = 0)

\* Mutant: cache_time taken after the loop advanced p to nextp.
RECURSIVE ScanFrom_atNext(_, _, _)
ScanFrom_atNext(b, to, p) ==
  IF p > Len(b) THEN [ok |-> TRUE, then |-> 0, at |-> 0]
  ELSE LET n == NulAt(b, p + TimeLen, Len(b))
       IN CASE n = 0 -> [ok |-> FALSE, then |-> 0, at |-> 0]
            [] SubSeq(b, p + TimeLen, n - 1) = to ->
                 [ok |-> TRUE, then |-> Decode(SubSeq(b, p, p + TimeLen - 1)),
                  at |-> n + 1]
            [] OTHER -> ScanFrom_atNext(b, to, n + 1)

(***************************************************************************)
(* The scan of the cache buffer for the recipient (autoreply.c 457-468):   *)
(* "then" and "cache_time" of the first record whose address is "to", or  *)
(* ok = FALSE when a strlen runs past the cache_size octets read.          *)
(***************************************************************************)
RECURSIVE ScanFrom(_, _, _)
ScanFrom(b, to, p) ==
  IF p > Len(b) THEN [ok |-> TRUE, then |-> 0, at |-> 0]
  ELSE LET n == NulAt(b, p + TimeLen, Len(b))
       IN CASE n = 0 -> [ok |-> FALSE, then |-> 0, at |-> 0]
            [] SubSeq(b, p + TimeLen, n - 1) = to ->
                 [ok |-> TRUE, then |-> Decode(SubSeq(b, p, p + TimeLen - 1)),
                  at |-> p]
            [] OTHER -> ScanFrom(b, to, n + 1)

\* Mutant: the first record dropped one octet short (its NUL kept).
NewCache_evictOffByOne(b, at, to, now, size) ==
  IF at # 0
  THEN [i \in DOMAIN b |->
          IF i \in at..(at + TimeLen - 1) THEN TimeBytes(now)[i - at + 1]
          ELSE b[i]]
  ELSE LET b2   == b \o Rec(to, now)
           from == IF Len(b) > 0 /\ Len(b2) > size
                   THEN NulAt(b2, 1 + TimeLen, Len(b2))
                   ELSE 1
       IN SubSeq(b2, from, Len(b2))

(***************************************************************************)
(* The new content of the fixed-size file (autoreply.c 690-713): the time  *)
(* put into the record found, or a new record appended and, when the file  *)
(* was not empty and becomes larger than once_file_size, the first record  *)
(* dropped; the result is written at offset 0 over the current file.       *)
(***************************************************************************)
NewCache(b, at, to, now, size) ==
  IF at # 0
  THEN [i \in DOMAIN b |->
          IF i \in at..(at + TimeLen - 1) THEN TimeBytes(now)[i - at + 1]
          ELSE b[i]]
  ELSE LET b2   == b \o Rec(to, now)
           from == IF Len(b) > 0 /\ Len(b2) > size
                   THEN NulAt(b2, 1 + TimeLen, Len(b2)) + 1
                   ELSE 1
       IN SubSeq(b2, from, Len(b2))

\* write(cache_fd, from, size) at offset 0, without truncating the file.
WriteAt0(f, w) == w \o SubSeq(f, Len(w) + 1, Len(f))

\* Mutant: the once_repeat window one second short.
PreviouslySent_offByOne(then, now) ==
  then # 0 /\ (Repeat <= 0 \/ now - then < Repeat - 1)

\* The skip test of autoreply.c 500.
PreviouslySent(then, now) ==
  then # 0 /\ (Repeat <= 0 \/ now - then < Repeat)

-----------------------------------------------------------------------------
(***************************************************************************)
(* The cache the comments describe (autoreply.c 396-401 and 683-689): one  *)
(* entry per recipient in order of first recording, the oldest dropped     *)
(* when the file grows too large.  Ghost state for the properties.         *)
(***************************************************************************)
Bytes(I) == FoldLeft(LAMBDA acc, e : acc + RecLen(e.to), 0, I)

IndexOf(I, to) == SelectInSeq(I, LAMBDA e : e.to = to)

IntendedUpdate(I, to, t, size) ==
  IF IndexOf(I, to) # 0
  THEN [I EXCEPT ![IndexOf(I, to)].time = t]
  ELSE LET J == Append(I, [to |-> to, time |-> t])
       IN IF size > 0 /\ I # <<>> /\ Bytes(J) > size THEN Tail(J) ELSE J

\* The records the file holds, parsed from its start.
RECURSIVE ParseFrom(_, _)
ParseFrom(f, p) ==
  IF p > Len(f) THEN [ok |-> TRUE, recs |-> <<>>]
  ELSE LET n == NulAt(f, p + TimeLen, Len(f))
           rest == ParseFrom(f, n + 1)
       IN IF n = 0 \/ ~rest.ok THEN [ok |-> FALSE, recs |-> <<>>]
          ELSE [ok |-> TRUE,
                recs |-> <<[to |-> SubSeq(f, p + TimeLen, n - 1),
                            time |-> Decode(SubSeq(f, p, p + TimeLen - 1))]>>
                         \o rest.recs]

\* The entries IntendedUpdate drops from I.
Dropped(I, to, t, size) ==
  IF IndexOf(I, to) = 0 /\ size > 0 /\ I # <<>>
     /\ Bytes(Append(I, [to |-> to, time |-> t])) > size
  THEN {I[1].to} ELSE {}

-----------------------------------------------------------------------------
VARIABLES
  clock,      \* time(NULL)
  fileSize,   \* ob->once_file_size of the transport
  file,       \* octets of the fixed-size once file
  db,         \* the DBM once file: recipient -> time
  pc,         \* delivery -> where it is in autoreply_transport_entry
  rcpt,       \* delivery -> its "to" address
  now,        \* delivery -> its "now", taken on entry
  buf,        \* delivery -> cache_buff as read
  at,         \* delivery -> cache_time (index in cache_buff, 0 if unset)
  crashes,    \* deliveries killed so far
  intended,   \* ghost: the cache the comments describe
  lastReply   \* ghost: recipient -> time of its last reply while remembered

vars == <<clock, fileSize, file, db, pc, rcpt, now, buf, at, crashes,
          intended, lastReply>>

Busy == {d \in Deliveries : pc[d] \in {"sending", "sent"}}

(***************************************************************************)
(* Entry, the read of the cache and the skip test (autoreply.c 279,        *)
(* 403-530): a delivery whose recipient was answered within once_repeat    *)
(* ends without a reply and without touching the cache.                    *)
(***************************************************************************)
ReadCache(d) ==
  /\ pc[d] = "waiting"
  /\ Concurrent \/ Busy = {}
  /\ now' = [now EXCEPT ![d] = clock]
  /\ IF fileSize > 0
     THEN LET sc == ScanFrom(file, rcpt[d], 1)
          IN /\ pc' = [pc EXCEPT ![d] =
                         CASE ~sc.ok -> "fault"
                           [] PreviouslySent(sc.then, clock) -> "done"
                           [] OTHER -> "sending"]
             /\ buf' = [buf EXCEPT ![d] = file]
             /\ at' = [at EXCEPT ![d] = sc.at]
     ELSE LET then == IF rcpt[d] \in DOMAIN db THEN db[rcpt[d]] ELSE 0
          IN /\ pc' = [pc EXCEPT ![d] = IF PreviouslySent(then, clock)
                                        THEN "done" ELSE "sending"]
             /\ UNCHANGED <<buf, at>>
  /\ UNCHANGED <<clock, fileSize, file, db, rcpt, crashes, intended, lastReply>>

\* child_open_exim .. child_close: the reply leaves.
SendReply(d) ==
  /\ pc[d] = "sending"
  /\ pc' = [pc EXCEPT ![d] = "sent"]
  /\ lastReply' = [lastReply EXCEPT ![rcpt[d]] = now[d]]
  /\ UNCHANGED <<clock, fileSize, file, db, rcpt, now, buf, at, crashes,
                 intended>>

\* The "file" option cannot be opened or no child process can be made
\* (autoreply.c 533-566): the delivery is deferred, the cache untouched.
DeferSend(d) ==
  /\ pc[d] = "sending"
  /\ pc' = [pc EXCEPT ![d] = "waiting"]
  /\ UNCHANGED <<clock, fileSize, file, db, rcpt, now, buf, at, crashes,
                 intended, lastReply>>

(***************************************************************************)
(* Recording the recipient after the reply, whatever its result            *)
(* (autoreply.c 676-734).                                                  *)
(***************************************************************************)
UpdateCache(d) ==
  /\ pc[d] = "sent"
  /\ pc' = [pc EXCEPT ![d] = "done"]
  /\ IF fileSize > 0
     THEN /\ file' = WriteAt0(file, NewCache(buf[d], at[d], rcpt[d], now[d],
                                             fileSize))
          /\ UNCHANGED db
     ELSE /\ db' = [r \in DOMAIN db \cup {rcpt[d]} |->
                      IF r = rcpt[d] THEN now[d] ELSE db[r]]
          /\ UNCHANGED file
  /\ intended' = IntendedUpdate(intended, rcpt[d], now[d], fileSize)
  /\ lastReply' = [r \in Rcpts |->
                     IF r \in Dropped(intended, rcpt[d], now[d], fileSize)
                     THEN 0 ELSE lastReply[r]]
  /\ UNCHANGED <<clock, fileSize, rcpt, now, buf, at, crashes>>

\* The delivery process dies after the cache was read, before the reply
\* left or (CrashAfterSend) before the cache was updated; the message stays
\* on the queue and the delivery is tried again from the start.
Crash(d) ==
  /\ pc[d] = "sending" \/ (CrashAfterSend /\ pc[d] = "sent")
  /\ crashes < MaxCrashes
  /\ pc' = [pc EXCEPT ![d] = "waiting"]
  /\ crashes' = crashes + 1
  /\ UNCHANGED <<clock, fileSize, file, db, rcpt, now, buf, at, intended,
                 lastReply>>

Tick ==
  /\ clock < StartTime + MaxTicks
  /\ clock' = clock + 1
  /\ UNCHANGED <<fileSize, file, db, pc, rcpt, now, buf, at, crashes,
                 intended, lastReply>>

Init ==
  /\ clock = StartTime
  /\ fileSize \in FileSizes
  /\ file = <<>>
  /\ db = <<>>
  /\ pc = [d \in Deliveries |-> "waiting"]
  /\ rcpt \in [Deliveries -> Rcpts]
  /\ now = [d \in Deliveries |-> StartTime]
  /\ buf = [d \in Deliveries |-> <<>>]
  /\ at = [d \in Deliveries |-> 0]
  /\ crashes = 0
  /\ intended = <<>>
  /\ lastReply = [r \in Rcpts |-> 0]

Next ==
  \/ \E d \in Deliveries : \/ ReadCache(d)
                          \/ DeferSend(d)
                          \/ SendReply(d)
                          \/ UpdateCache(d)
                          \/ Crash(d)
  \/ Tick

Spec == Init /\ [][Next]_vars

-----------------------------------------------------------------------------
Times == StartTime..(StartTime + MaxTicks)

\* The type of every variable; the time a delivery will overwrite in the
\* cache it read (cache_time) lies wholly inside that cache.
TypeOK ==
  /\ clock \in Times
  /\ file \in Seq(Octets)
  /\ DOMAIN db \subseteq Rcpts /\ \A r \in DOMAIN db : db[r] \in Times
  /\ pc \in [Deliveries -> {"waiting", "sending", "sent", "done", "fault"}]
  /\ \A d \in Deliveries : buf[d] \in Seq(Octets) /\ at[d] \in 0..Len(buf[d])
  \* memcpy(cache_time, &now, sizeof(time_t)) stays inside cache_buff
  /\ \A d \in Deliveries : at[d] # 0 => at[d] + TimeLen - 1 <= Len(buf[d])
  /\ lastReply \in [Rcpts -> {0} \cup Times]

(***************************************************************************)
(* The once file always holds exactly the records the comments describe:  *)
(* one per recipient, with the time of its last reply, the oldest dropped *)
(* when the file outgrows once_file_size; it parses from its first octet  *)
(* to its last without a strlen running off the end.  For the DBM file,   *)
(* the same entries by key.  It relates the file written by one delivery  *)
(* to the buffer read by a later one.                                     *)
(***************************************************************************)
OnceFileRecords ==
  IF fileSize > 0
  THEN ParseFrom(file, 1) = [ok |-> TRUE, recs |-> intended]
  ELSE /\ DOMAIN db = {intended[i].to : i \in DOMAIN intended}
       /\ \A i \in DOMAIN intended : db[intended[i].to] = intended[i].time

(***************************************************************************)
(* "once": a recipient gets a reply only if it got none within once_repeat *)
(* seconds (any earlier one, when once_repeat is unset), unless the fixed- *)
(* size file has since dropped its record.  The comment at autoreply.c     *)
(* 678 says the update "errs on the side of missing out a message rather   *)
(* than risking sending more than one".                                    *)
(***************************************************************************)
ReplyAllowed(r, t) ==
  lastReply[r] = 0 \/ (Repeat > 0 /\ t - lastReply[r] >= Repeat)

ReplyOnce ==
  [][\A d \in Deliveries :
       pc[d] = "sending" /\ pc'[d] = "sent" => ReplyAllowed(rcpt[d], now[d])]_vars

=============================================================================
