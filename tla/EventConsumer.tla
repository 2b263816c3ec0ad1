--------------------------- MODULE EventConsumer ---------------------------
(***************************************************************************)
(* The backend's consumer of stream:engine:events                          *)
(* (engine-event-consumer.service): it creates its group, drains what is   *)
(* pending, then reads new entries; each is applied in one transaction     *)
(* with its row in processed_events, then cached and announced, then       *)
(* acknowledged.  What an event does to the tables is module Settlement.   *)
(*                                                                         *)
(* PostgreSQL and Redis may fail at any call, an answer may be lost, and   *)
(* the process may restart.  An exception ends the batch; in the drain it  *)
(* ends the drain.                                                         *)
(***************************************************************************)
EXTENDS Integers, Sequences, FiniteSets, FiniteSetsExt

CONSTANTS
  Kinds,      \* Kinds[i]: "trade", "book" (OrderBookChanged) or "other"
  Poison,     \* entries whose transaction throws whenever it is tried
  Count,      \* messages in one read (10 in the code)
  MaxFaults   \* bound on the failures and restarts of one behaviour

Ids == DOMAIN Kinds
ASSUME KindsAssumption == Kinds \in Seq({"trade", "book", "other"})
ASSUME CountAssumption == Count \in Nat \ {0}
ASSUME PoisonAssumption == Poison \subseteq Ids

VARIABLES
  length,     \* the length of stream:engine:events; its entries are 1 .. length
  first,      \* the entry after which the group was created, -1 before it is
  delivered, pel,   \* the group's last delivered entry, and its pending ones
  mode,       \* where consumeLoop is
  reading,    \* the entries of the reply not handled yet
  step,       \* where handleMessage is with the first of them
  applied,    \* the entries in processed_events, in order of commit
  cache,      \* the entry whose book is in the order book cache, 0 before
  announced,  \* stream:market:events, as the entries it was made from
  clean,      \* history: nothing failed since the process started
  faults

group == <<first, delivered, pel>>
loop == <<mode, reading, step>>
redisOut == <<cache, announced>>
vars == <<length, group, loop, applied, redisOut, clean, faults>>

\* A reply has its entries in the order of the stream.
Entry == Min(reading)
Members(s) == {s[i] : i \in DOMAIN s}

\* A call fails.
Fault == faults < MaxFaults /\ faults' = faults + 1 /\ clean' = FALSE
Well == UNCHANGED <<clean, faults>>

Init ==
  /\ length = 0
  /\ first = -1 /\ delivered = 0 /\ pel = {}
  /\ mode = "start" /\ reading = {} /\ step = "transact"
  /\ applied = <<>> /\ cache = 0 /\ announced = <<>>
  /\ clean = TRUE /\ faults = 0

\* The engine publishes.
Publish ==
  /\ length < Len(Kinds)
  /\ length' = length + 1
  /\ UNCHANGED <<group, loop, applied, redisOut>> /\ Well

-----------------------------------------------------------------------------
(* consumeLoop, drainPending and processBatch.                             *)

\* XGROUP CREATE with "$": a new group starts at the end of the stream, and
\* one that exists is left as it is.
CreateGroup ==
  /\ mode = "start"
  /\ mode' = "drain"
  /\ IF first = -1
     THEN first' = length /\ delivered' = length /\ pel' = {}
     ELSE UNCHANGED group
  /\ UNCHANGED <<length, reading, step, applied, redisOut>> /\ Well

\* Any other error ends the loop for good.
CreateGroupFails ==
  /\ mode = "start"
  /\ Fault
  /\ mode' = "dead"
  /\ UNCHANGED <<length, group, reading, step, applied, redisOut>>

\* The first of the pending entries, and where a read of new ones ends.
FirstOf(S) == {i \in S : Cardinality({j \in S : j < i}) < Count}
ReadTo == IF delivered + Count < length THEN delivered + Count ELSE length

\* Fault: the drain takes one read of pending entries and no second.
DrainOnce ==
  /\ mode = "drain" /\ reading = {}
  /\ reading' = FirstOf(pel)
  /\ mode' = "live"
  /\ UNCHANGED <<length, group, step, applied, redisOut>> /\ Well

\* Reads from the start of the pending entries, until there are none.
drainPending ==
  /\ mode = "drain" /\ reading = {}
  /\ reading' = FirstOf(pel)
  /\ mode' = IF pel = {} THEN "live" ELSE "drain"
  /\ UNCHANGED <<length, group, step, applied, redisOut>> /\ Well

DrainReadFails ==
  /\ mode = "drain" /\ reading = {}
  /\ Fault
  /\ mode' = "live"
  /\ UNCHANGED <<length, group, reading, step, applied, redisOut>>

processBatch ==
  /\ mode = "live" /\ reading = {}
  /\ delivered < length
  /\ delivered' = ReadTo
  /\ reading' = delivered + 1 .. delivered'
  /\ pel' = pel \cup reading'
  /\ UNCHANGED <<length, first, mode, step, applied, redisOut>> /\ Well

\* An exception in handleMessage: the rest of the reply is not handled.
Aborted ==
  /\ reading' = {}
  /\ step' = "transact"
  /\ mode' = "live"

-----------------------------------------------------------------------------
(* handleMessage.                                                          *)

Handling(s) == reading # {} /\ step = s

\* Fault: an entry that was applied before is left alone, and pending.
SkipUnacked ==
  /\ Handling("transact") /\ Entry \in Members(applied)
  /\ reading' = reading \ {Entry}
  /\ UNCHANGED <<length, group, mode, step, applied, redisOut>> /\ Well

\* processed_events has the entry: the transaction does nothing.
Skip ==
  /\ Handling("transact") /\ Entry \in Members(applied)
  /\ step' = "post"
  /\ UNCHANGED <<length, group, mode, reading, applied, redisOut>> /\ Well

\* Fault: processed_events is not read.
Unprocessed(e) == TRUE

New(e) == e \notin Members(applied)

Apply ==
  /\ Handling("transact") /\ New(Entry) /\ Entry \notin Poison
  /\ applied' = Append(applied, Entry)
  /\ step' = "post"
  /\ UNCHANGED <<length, group, mode, reading, redisOut>> /\ Well

\* Fault: the exception is logged, and the entry announced and acknowledged.
ThrowSwallowed ==
  /\ Handling("transact")
  /\ Fault
  /\ step' = "post"
  /\ UNCHANGED <<length, group, mode, reading, applied, redisOut>>

\* A timeout, a lock or a lost connection; the commit may have happened.
Throw ==
  /\ Handling("transact")
  /\ Fault
  /\ applied' \in {applied} \cup
       (IF New(Entry) /\ Entry \notin Poison THEN {Append(applied, Entry)} ELSE {})
  /\ Aborted
  /\ UNCHANGED <<length, group, redisOut>>

\* The service throws: a missing row, a balance too small, a row that repeats
\* a unique key.
ThrowPoison ==
  /\ Handling("transact") /\ New(Entry) /\ Entry \in Poison
  /\ clean' = FALSE
  /\ Aborted
  /\ UNCHANGED <<length, group, applied, redisOut, faults>>

\* postProcessMarketEvent: the cache is overwritten, whatever is in it.
Cached == IF Kinds[Entry] = "book" THEN Entry ELSE cache
Announced == IF Kinds[Entry] = "other" THEN announced ELSE Append(announced, Entry)

PostProcess ==
  /\ Handling("post")
  /\ cache' = Cached
  /\ announced' = Announced
  /\ step' = "ack"
  /\ UNCHANGED <<length, group, mode, reading, applied>> /\ Well

\* Fault: the announcement comes first, and the cache after it.
PostProcessFailsUncached ==
  /\ Handling("post") /\ Kinds[Entry] # "other"
  /\ Fault
  /\ announced' \in {announced, Announced}
  /\ cache' \in {cache} \cup (IF announced' = Announced THEN {Cached} ELSE {})
  /\ step' = "ack"
  /\ UNCHANGED <<length, group, mode, reading, applied>>

\* Redis fails on the way, and the exception is caught.
PostProcessFails ==
  /\ Handling("post") /\ Kinds[Entry] # "other"
  /\ Fault
  /\ cache' \in {cache, Cached}
  /\ announced' \in {announced} \cup (IF cache' = Cached THEN {Announced} ELSE {})
  /\ step' = "ack"
  /\ UNCHANGED <<length, group, mode, reading, applied>>

Ack ==
  /\ Handling("ack")
  /\ pel' = pel \ {Entry}
  /\ reading' = reading \ {Entry}
  /\ step' = "transact"
  /\ UNCHANGED <<length, first, delivered, mode, applied, redisOut>> /\ Well

AckFails ==
  /\ Handling("ack")
  /\ Fault
  /\ pel' \in {pel, pel \ {Entry}}
  /\ Aborted
  /\ UNCHANGED <<length, first, delivered, applied, redisOut>>

\* A process that is dead to the stream may be restarted too.
Restart ==
  /\ faults < MaxFaults /\ faults' = faults + 1
  /\ clean' = TRUE
  /\ mode' = "start" /\ reading' = {} /\ step' = "transact"
  /\ UNCHANGED <<length, group, applied, redisOut>>

Consumer ==
  \/ CreateGroup \/ drainPending \/ processBatch
  \/ Skip \/ Apply \/ ThrowPoison \/ PostProcess \/ Ack

Failure ==
  \/ CreateGroupFails \/ DrainReadFails \/ Throw \/ PostProcessFails \/ AckFails \/ Restart

Next == Publish \/ Consumer \/ Failure

Spec == Init /\ [][Next]_vars

\* The event loop runs consumeLoop as long as it has something to do.
FairSpec == Spec /\ WF_vars(Consumer)

-----------------------------------------------------------------------------
(* Properties.                                                             *)

\* What the group has given out.
Taken == {i \in Ids : first # -1 /\ first < i /\ i <= delivered}

TypeOK ==
  /\ mode \in {"start", "drain", "live", "dead"} /\ step \in {"transact", "post", "ack"}
  /\ length \in 0 .. Len(Kinds)
  /\ first \in -1 .. length /\ delivered \in 0 .. length
  /\ pel \subseteq Taken
  /\ reading \subseteq pel
  /\ reading = {} => step = "transact"
  /\ cache \in 0 .. delivered

(* An event changes the tables once, whatever is redelivered, and also     *)
(* when the answer to its commit was lost.                                 *)
AppliedOnce == \A i, j \in DOMAIN applied : i # j => applied[i] # applied[j]

(* The group only forgets events the tables have: no exception, lost       *)
(* answer or restart makes one disappear.                                  *)
AckedApplied == Taken \ pel \subseteq Members(applied)

(* docs/12-test-plan.md RT-01, RT-03: what is announced to the market has  *)
(* been committed, and the cached book's batch too.                        *)
AnnouncedApplied == Members(announced) \cup ({cache} \ {0}) \subseteq Members(applied)

(* A start in which nothing fails repairs all that failed before: once the *)
(* consumer reads new events, nothing older is pending.                    *)
CleanStartRepairs == mode = "live" /\ clean => pel = reading

(* Events are applied out of the order of the stream, and the cached book  *)
(* goes back, only while the consumer drains what an earlier failure left: *)
(* among new events nothing is overtaken, though each may fail.            *)
ForwardWhenLive ==
  [][mode = "live" =>
       /\ cache' >= cache
       /\ \A e \in Members(applied') \ Members(applied) : \A a \in Members(applied) : a < e]_vars

(* The consumer always comes back to new events: draining ends, and an     *)
(* event that cannot be applied does not hold up those behind it.          *)
KeepsReading ==
  \A i \in Ids : length >= i ~> (delivered >= i \/ mode = "dead")
=============================================================================
