----------------------------- MODULE PairEngine -----------------------------
(***************************************************************************)
(* The matching engine of one pair between its two streams: the customer   *)
(* that reads commands, dispatches, publishes and acknowledges             *)
(* (transport), the publisher, and the handlers of PairEngine (pair).      *)
(*                                                                         *)
(* The command stream holds what a backend may have put there: commands    *)
(* late, twice, or never.  The engine's state is in memory only; a restart *)
(* starts over with what the consumer group has pending.  The book is the  *)
(* set of its orders: which of them a match removes is module OrderBook's. *)
(***************************************************************************)
EXTENDS Integers, Sequences, FiniteSets, FiniteSetsExt

CONSTANTS
  Script,     \* Script[n]: the type and the order of command n
  Count,      \* messages in one read (10 in the code)
  MaxSends,   \* bound on the entries of the command stream
  MaxFaults   \* bound on the failures and restarts of one behaviour

ASSUME CountAssumption == Count \in Nat \ {0}

\* nextval draws from 1.
ASSUME ScriptAssumption == DOMAIN Script \subseteq Nat \ {0}

VARIABLES
  stream,      \* stream:engine:commands, as commandSequences
  delivered,   \* how many of its entries the consumer group has given out
  pel,         \* those of them that are not acknowledged
  mode,        \* "drain" (phase 1 of Run) or "live" (phase 2)
  reading,     \* the entries of the reply that are not dispatched yet
  step,        \* what dispatch does next with the first of them
  state, last, book,  \* State, LastProcessedCmdSeq and Book.ActiveOrders
  answer,      \* the events the handler returned, by type
  life,        \* history: how often the process started
  applied,     \* history: the commands that changed the engine, as <<life, n>>
  answered,    \* history: entries whose events were published in full
  events,      \* stream:engine:events, as <<life, n, nth, type>>
  faults

memory == <<state, last, book>>
reader == <<mode, reading>>
vars == <<stream, delivered, pel, reader, step, memory, answer, life, applied, answered, events, faults>>

\* A reply has its entries in the order of the stream.
Entry == Min(reading)
Number == stream[Entry]
Command == Script[Number]
Fault == faults < MaxFaults /\ faults' = faults + 1

Init ==
  /\ stream = <<>> /\ delivered = 0 /\ pel = {}
  /\ mode = "drain" /\ reading = {} /\ step = "dispatch"
  /\ state = "RECOVERING" /\ last = 0 /\ book = {}
  /\ answer = <<>>
  /\ life = 1 /\ applied = <<>> /\ answered = {} /\ events = <<>>
  /\ faults = 0

\* The outbox poller: each command at most twice, in any order.
Send ==
  /\ Len(stream) < MaxSends
  /\ \E n \in DOMAIN Script :
       /\ Cardinality({i \in DOMAIN stream : stream[i] = n}) < 2
       /\ stream' = Append(stream, n)
  /\ UNCHANGED <<delivered, pel, reader, step, memory, answer, life, applied, answered, events, faults>>

-----------------------------------------------------------------------------
(* Run and drainPending.                                                   *)

\* The first of the pending entries, and where a read of new ones ends.
FirstOf(S) == {i \in S : Cardinality({j \in S : j < i}) < Count}
ReadTo == IF delivered + Count < Len(stream) THEN delivered + Count ELSE Len(stream)

\* A read of the pending entries from the start, until there are none.
drainPending ==
  /\ mode = "drain" /\ reading = {}
  /\ reading' = FirstOf(pel)
  /\ mode' = IF pel = {} THEN "live" ELSE "drain"
  /\ UNCHANGED <<stream, delivered, pel, step, memory, answer, life, applied, answered, events, faults>>

\* A read of new entries, which become pending.
ReadNew ==
  /\ mode = "live" /\ reading = {}
  /\ delivered < Len(stream)
  /\ delivered' = ReadTo
  /\ reading' = delivered + 1 .. delivered'
  /\ pel' = pel \cup reading'
  /\ UNCHANGED <<stream, mode, step, memory, answer, life, applied, answered, events, faults>>

-----------------------------------------------------------------------------
(* dispatch: the handlers.                                                 *)

Dispatching == reading # {} /\ step = "dispatch"

\* What a handler leaves to dispatch: events to publish.
Return(evs) ==
  /\ answer' = evs
  /\ step' = "publish"
  /\ UNCHANGED <<stream, delivered, pel, reader, life, answered, events, faults>>

\* Fault: LastProcessedCmdSeq is not updated.
ApplyForgets ==
  /\ last' = last
  /\ applied' = Append(applied, <<life, Number>>)

\* The command is processed: LastProcessedCmdSeq is its number.
Apply ==
  /\ last' = Number
  /\ applied' = Append(applied, <<life, Number>>)

\* Fault: a duplicate is reported as an error and stays pending.
DuplicateFails ==
  /\ Dispatching /\ Number < last + 1
  /\ reading' = reading \ {Entry}
  /\ UNCHANGED <<stream, delivered, pel, mode, step, memory, answer, life, applied, answered, events, faults>>

\* ErrDuplicateCommand: no events, acknowledged.  Before its first command an
\* engine has no duplicates: every number is at least 1.
Duplicate ==
  /\ Dispatching /\ Number < last + 1
  /\ step' = "ack"
  /\ UNCHANGED <<stream, delivered, pel, reader, memory, answer, life, applied, answered, events, faults>>

\* Fault: a gap is not looked for, and the state is that of the next command.
ExpectedAny(n) == n >= last + 1

\* The next command; of a new engine, OpenMarket may be the first, of any number.
Expected(n) == n = last + 1

HandleOpenMarket ==
  /\ Dispatching /\ Command.type = "OpenMarket"
  /\ last = 0 \/ Expected(Number)
  /\ state' = "READY"
  /\ Apply
  /\ Return(<<"MarketOpened">>)
  /\ UNCHANGED book

\* ErrSequenceGap: the engine fails, and the command is answered like others.
Gap ==
  /\ Dispatching /\ Number > last + 1 /\ ~Expected(Number)
  /\ ~(Command.type = "OpenMarket" /\ last = 0)
  /\ state' = "FAILED"
  /\ Return(<<"EngineFailed">>)
  /\ UNCHANGED <<last, book, applied>>

\* Match: n trades, the last of them with an order it may leave in the book;
\* an incoming order that is left over is opened, and has taken all it met.
HandlePlaceOrder ==
  /\ Dispatching /\ Command.type = "PlaceOrder"
  /\ Expected(Number) /\ state = "READY"
  /\ \E gone \in SUBSET book, left \in BOOLEAN, n \in 0 .. Cardinality(book) :
       /\ IF left THEN n = Cardinality(gone)
                  ELSE n > 0 /\ n \in {Cardinality(gone), Cardinality(gone) + 1}
       /\ book' = (book \ gone) \cup (IF left THEN {Command.order} ELSE {})
       /\ Return([i \in 1 .. n |-> "TradeCreated"]
                 \o (IF left THEN <<"OrderOpened">> ELSE <<>>) \o <<"OrderBookChanged">>)
  /\ Apply
  /\ UNCHANGED state

HandleCancelOrder ==
  /\ Dispatching /\ Command.type = "CancelOrder"
  /\ Expected(Number) /\ state = "READY"
  /\ Command.order \in book
  /\ book' = book \ {Command.order}
  /\ Apply
  /\ Return(<<"OrderCancelled", "OrderBookChanged">>)
  /\ UNCHANGED state

\* MARKET_NOT_READY, ORDER_NOT_FOUND: the number is not taken.
Reject ==
  /\ Dispatching /\ Command.type # "OpenMarket"
  /\ Expected(Number)
  /\ \/ state # "READY"
     \/ Command.type = "CancelOrder" /\ Command.order \notin book
  /\ Return(<<IF Command.type = "PlaceOrder" THEN "OrderRejected" ELSE "CancelOrderRejected">>)
  /\ UNCHANGED <<memory, applied>>

-----------------------------------------------------------------------------
(* dispatch: publish, then acknowledge.                                    *)

Published(k) == [i \in 1 .. k |-> <<life, Number, i, answer[i]>>]

PublishBatch ==
  /\ step = "publish"
  /\ events' = events \o Published(Len(answer))
  /\ answered' = answered \cup {Entry}
  /\ answer' = <<>>
  /\ step' = "ack"
  /\ UNCHANGED <<stream, delivered, pel, reader, memory, life, applied, faults>>

\* Fault: the message is acknowledged although its events were not published.
PublishFailsAcked ==
  /\ step = "publish"
  /\ Fault
  /\ answer' = <<>>
  /\ pel' = pel \ {Entry}
  /\ reading' = reading \ {Entry}
  /\ step' = "dispatch"
  /\ UNCHANGED <<stream, delivered, mode, memory, life, applied, answered, events>>

\* The pipeline fails after any number of its XADDs, the last one included
\* when its answer is lost.  The loop goes on with the next message.
PublishFails ==
  /\ step = "publish"
  /\ Fault
  /\ \E k \in 0 .. Len(answer) : events' = events \o Published(k)
  /\ answer' = <<>>
  /\ reading' = reading \ {Entry}
  /\ step' = "dispatch"
  /\ UNCHANGED <<stream, delivered, pel, mode, memory, life, applied, answered>>

Ack ==
  /\ step = "ack"
  /\ pel' = pel \ {Entry}
  /\ reading' = reading \ {Entry}
  /\ step' = "dispatch"
  /\ UNCHANGED <<stream, delivered, mode, memory, answer, life, applied, answered, events, faults>>

AckFails ==
  /\ step = "ack"
  /\ Fault
  /\ reading' = reading \ {Entry}
  /\ step' = "dispatch"
  /\ UNCHANGED <<stream, delivered, pel, mode, memory, answer, life, applied, answered, events>>

\* The process dies, or a read fails and Run returns; it is started again.
Restart ==
  /\ Fault
  /\ mode' = "drain" /\ reading' = {} /\ step' = "dispatch" /\ answer' = <<>>
  /\ state' = "RECOVERING" /\ last' = 0 /\ book' = {}
  /\ life' = life + 1
  /\ UNCHANGED <<stream, delivered, pel, applied, answered, events>>

Engine ==
  \/ drainPending \/ ReadNew
  \/ Duplicate \/ HandleOpenMarket \/ Gap \/ HandlePlaceOrder \/ HandleCancelOrder \/ Reject
  \/ PublishBatch \/ Ack

Next == Send \/ Engine \/ PublishFails \/ AckFails \/ Restart

Spec == Init /\ [][Next]_vars

\* The engine's goroutine runs; the backend may send nothing.
FairSpec == Spec /\ WF_vars(Engine)

-----------------------------------------------------------------------------
(* Properties.                                                             *)

(* Each life of the engine applies one unbroken run of commands, the first *)
(* of them an OpenMarket, whatever is late, repeated, lost or replayed.    *)
InSequence ==
  \A i \in 1 .. Len(applied) :
    IF i = 1 \/ applied[i][1] # applied[i - 1][1]
    THEN Script[applied[i][2]].type = "OpenMarket"
    ELSE applied[i][2] = applied[i - 1][2] + 1

(* What one life publishes about the commands it applied comes in order of *)
(* the commands and, within one, in order of its events: none twice, also  *)
(* when a publish failed half-way or an acknowledgement was lost.          *)
Effects == {"MarketOpened", "TradeCreated", "OrderOpened", "OrderCancelled", "OrderBookChanged"}

Earlier(x, y) == x[2] < y[2] \/ (x[2] = y[2] /\ x[3] < y[3])

EffectsInOrder ==
  \A i, j \in 1 .. Len(events) :
    i < j /\ events[i][1] = events[j][1] /\ events[i][4] \in Effects /\ events[j][4] \in Effects
      => Earlier(events[i], events[j])

(* No command vanishes: the group forgets an entry only when its answer    *)
(* was published in full, or an engine had gone past its command before.   *)
AckedHonestly ==
  \A i \in 1 .. delivered :
    i \in pel \/ i \in answered \/ \E k \in 1 .. Len(applied) : stream[i] <= applied[k][2]

(* The engine always comes back to new commands: replaying what was        *)
(* pending ends, and a failed publish or acknowledgement holds nothing up. *)
KeepsReading == \A i \in 1 .. MaxSends : Len(stream) >= i ~> delivered >= i
=============================================================================
