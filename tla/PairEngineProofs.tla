-------------------------- MODULE PairEngineProofs --------------------------
(***************************************************************************)
(* Whatever is late, repeated, lost or replayed, each life of the engine   *)
(* applies an unbroken run of commands, publishes their effects once and   *)
(* in order, and has only answered entries forgotten: for every script of  *)
(* commands, every stream of them and any number of failures.              *)
(***************************************************************************)
EXTENDS PairEngine, SequenceTheorems, FiniteSetTheorems, WellFoundedInduction, TLAPS

Numbers == DOMAIN Script
EventTypes == Effects \cup {"EngineFailed", "OrderRejected", "CancelOrderRejected"}
Events == Nat \X Nat \X Nat \X EventTypes

Types ==
  /\ stream \in Seq(Numbers) /\ delivered \in Nat /\ delivered <= Len(stream)
  /\ pel \subseteq 1 .. delivered /\ reading \subseteq pel
  /\ step \in {"dispatch", "publish", "ack"} /\ (step # "dispatch" => reading # {})
  /\ last \in Nat /\ life \in Nat /\ IsFiniteSet(book)
  /\ applied \in Seq(Nat \X Numbers) /\ answer \in Seq(EventTypes) /\ events \in Seq(Events)

\* Whether this life has applied a command; the last one is then the last of all.
Recent == Len(applied) # 0 /\ applied[Len(applied)][1] = life

Position ==
  /\ \A i \in 1 .. Len(applied) : applied[i][1] <= life
  /\ Recent => last = applied[Len(applied)][2]
  /\ ~Recent => last = 0 /\ state # "READY"

\* An effect of this life.
Mine(e) == e[1] = life /\ e[4] \in Effects

\* No event is of a later life, and no effect is of a later command.
EventsPast ==
  \A j \in 1 .. Len(events) :
    events[j][1] <= life /\ (Mine(events[j]) => events[j][2] <= last)

\* Effects that wait to be published are of the last command, and its first.
AnswerNext ==
  step = "publish" =>
    \/ \A k \in 1 .. Len(answer) : answer[k] \notin Effects
    \/ /\ Number = last
       /\ \A j \in 1 .. Len(events) : Mine(events[j]) => events[j][2] < Number

\* The group may forget entry i, of command n.
Done(i, n) == i \in answered \/ \E k \in 1 .. Len(applied) : n <= applied[k][2]

AckReady == step = "ack" => Done(Entry, Number)

Inv ==
  /\ Types /\ Position /\ EventsPast /\ AnswerNext /\ AckReady
  /\ InSequence /\ EffectsInOrder /\ AckedHonestly

-----------------------------------------------------------------------------
(* Facts about a state.                                                    *)

(* A reply that is not empty has a first entry.                            *)
LEMMA EntryInReply ==
  ASSUME Types, reading # {}
  PROVE  /\ Entry \in reading /\ Entry \in 1 .. delivered
         /\ Number \in Numbers /\ Number \in Nat /\ Number >= 1
<1>1. reading \subseteq 1 .. delivered /\ reading \subseteq Nat /\ 1 .. delivered \subseteq 1 .. Len(stream)
  BY DEF Types
<1>2. \E x \in reading : \A y \in reading : x =< y
  <2>1. PICK x \in reading : \A y \in reading : <<y, x>> \notin OpToRel(<, Nat)
    BY <1>1, WFMin, NatLessThanWellFounded
  <2>2. \A y \in reading : ~(y < x)
    BY <1>1, <2>1 DEF OpToRel
  <2>. QED  BY <1>1, <2>2
<1>3. Entry \in reading
  BY <1>2 DEF Entry, Min
<1>4. Number \in Numbers
  BY <1>1, <1>3 DEF Number, Types
<1>. QED  BY <1>1, <1>3, <1>4, ScriptAssumption DEF Numbers

(* The commands that were applied are pairs of a life and a number.        *)
LEMMA AppliedPairs ==
  ASSUME Types
  PROVE  /\ Len(applied) \in Nat
         /\ \A i \in 1 .. Len(applied) :
              applied[i] \in Nat \X Numbers /\ applied[i][1] \in Nat /\ applied[i][2] \in Nat /\ applied[i][2] >= 1
<1>1. Len(applied) \in Nat /\ \A i \in 1 .. Len(applied) : applied[i] \in Nat \X Numbers
  BY DEF Types
<1>. QED  BY <1>1, ScriptAssumption DEF Numbers

LEMMA EventParts ==
  ASSUME Types
  PROVE  /\ Len(events) \in Nat
         /\ \A j \in 1 .. Len(events) :
              events[j][1] \in Nat /\ events[j][2] \in Nat /\ events[j][3] \in Nat
<1>1. Len(events) \in Nat /\ \A j \in 1 .. Len(events) : events[j] \in Events
  BY DEF Types
<1>2. \A e \in Events : e[1] \in Nat /\ e[2] \in Nat /\ e[3] \in Nat
  BY DEF Events
<1>. QED  BY <1>1, <1>2

LEMMA InitInv == Init => Inv
<1>. SUFFICES ASSUME Init PROVE Inv
  OBVIOUS
<1>. USE DEF Init
<1>1. Types
  BY FS_EmptySet DEF Types
<1>2. Position /\ EventsPast /\ AnswerNext /\ AckReady
  BY DEF Position, Recent, EventsPast, AnswerNext, AckReady
<1>3. InSequence /\ EffectsInOrder /\ AckedHonestly
  BY DEF InSequence, EffectsInOrder, AckedHonestly
<1>. QED  BY <1>1, <1>2, <1>3 DEF Inv

-----------------------------------------------------------------------------
(* The handlers.                                                           *)

(* A handler that takes the next command, or an OpenMarket as the first.   *)
LEMMA Applying ==
  ASSUME Inv, Dispatching, Apply, UNCHANGED <<stream, delivered, pel, reading, life, answered, events>>,
         step' = "publish", answer' \in Seq(EventTypes), IsFiniteSet(book'),
         \/ Expected(Number) /\ state = "READY"
         \/ Command.type = "OpenMarket" /\ (last = 0 \/ Expected(Number))
  PROVE  Inv'
<1>. DEFINE m == Len(applied)
<1>1. /\ Types /\ reading # {} /\ Entry \in 1 .. delivered /\ Number \in Numbers
      /\ Number \in Nat /\ Number >= 1 /\ last \in Nat /\ life \in Nat
  BY EntryInReply DEF Inv, Types, Dispatching
<1>2. /\ m \in Nat /\ applied' \in Seq(Nat \X Numbers) /\ Len(applied') = m + 1
      /\ applied'[m + 1] = <<life, Number>>
      /\ \A i \in 1 .. m : applied'[i] = applied[i]
  BY <1>1, AppendProperties, AppliedPairs DEF Apply, Types
<1>3. \A i \in 1 .. m : applied[i][1] \in Nat /\ applied[i][2] \in Nat /\ applied[i][2] >= 1
  BY <1>1, AppliedPairs
<1>4. Number' = Number /\ Entry' = Entry /\ last' = Number
  BY DEF Number, Entry, Apply
<1>5. last < Number
  BY <1>1 DEF Expected
<1>6. Types'
  BY <1>1, <1>2, <1>4 DEF Types
<1>7. Position'
  <2>1. ASSUME NEW i \in 1 .. m + 1
        PROVE  applied'[i][1] =< life
    <3>1. CASE i \in 1 .. m
      BY <1>2, <3>1 DEF Inv, Position
    <3>2. CASE i = m + 1
      BY <1>1, <1>2, <3>2
    <3>. QED  BY <1>2, <3>1, <3>2
  <2>2. m + 1 # 0 /\ applied'[m + 1][1] = life /\ applied'[m + 1][2] = Number
    BY <1>2
  <2>3. Recent'
    BY <1>2, <2>2 DEF Recent
  <2>. QED  BY <1>2, <1>4, <2>1, <2>2, <2>3 DEF Position
<1>8. InSequence'
  <2>. SUFFICES ASSUME NEW i \in 1 .. m + 1
                PROVE  IF i = 1 \/ applied'[i][1] # applied'[i - 1][1]
                       THEN Script[applied'[i][2]].type = "OpenMarket"
                       ELSE applied'[i][2] = applied'[i - 1][2] + 1
    BY <1>2 DEF InSequence
  <2>1. CASE i \in 1 .. m
    <3>1. applied'[i] = applied[i] /\ (i # 1 => i - 1 \in 1 .. m /\ applied'[i - 1] = applied[i - 1])
      BY <1>2, <2>1, SMTT(60)
    <3>. QED  BY <2>1, <3>1 DEF Inv, InSequence
  <2>2. CASE i = m + 1 /\ Recent
    <3>1. m \in 1 .. m /\ m # 0 /\ applied[m][1] = life /\ last = applied[m][2] /\ last >= 1
      BY <1>2, <1>3, <2>2 DEF Inv, Position, Recent
    <3>2. Number = last + 1
      BY <3>1 DEF Expected
    <3>. QED  BY <1>2, <2>2, <3>1, <3>2, SMTT(60)
  <2>3. CASE i = m + 1 /\ ~Recent
    <3>1. Command.type = "OpenMarket"
      BY <2>3 DEF Inv, Position
    <3>2. m = 0 \/ applied[m][1] # life
      BY <2>3 DEF Recent
    <3>. QED  BY <1>2, <2>3, <3>1, <3>2 DEF Command
  <2>. QED  BY <1>2, <2>1, <2>2, <2>3
<1>9. \A e : Mine(e)' <=> Mine(e)
  BY DEF Mine
<1>10. \A j \in 1 .. Len(events) : events[j][2] \in Nat
  BY EventParts DEF Inv
<1>11. EventsPast' /\ AnswerNext'
  BY <1>1, <1>4, <1>5, <1>9, <1>10, SMTT(60) DEF Inv, EventsPast, AnswerNext, Mine
<1>12. AckReady' /\ EffectsInOrder'
  BY DEF Inv, AckReady, EffectsInOrder
<1>13. AckedHonestly'
  <2>. SUFFICES ASSUME NEW i \in 1 .. delivered, i \notin pel, i \notin answered
                PROVE  \E k \in 1 .. m + 1 : stream[i] <= applied'[k][2]
    BY <1>2 DEF AckedHonestly
  <2>1. PICK k \in 1 .. m : stream[i] <= applied[k][2]
    BY DEF Inv, AckedHonestly
  <2>. QED  BY <1>2, <2>1
<1>. QED  BY <1>6, <1>7, <1>8, <1>11, <1>12, <1>13 DEF Inv

(* A handler that refuses the command: what it answers is no effect.       *)
LEMMA Refusing ==
  ASSUME Inv, Dispatching, UNCHANGED <<stream, delivered, pel, reading, life, answered, events>>,
         UNCHANGED <<last, book, applied>>, state' \in {state, "FAILED"}, step' = "publish",
         NEW type \in EventTypes \ Effects, answer' = <<type>>
  PROVE  Inv'
<1>1. answer' \in Seq(EventTypes) /\ Len(answer') = 1 /\ answer'[1] = type
  OBVIOUS
<1>2. Types' /\ AnswerNext' /\ AckReady'
  BY <1>1 DEF Inv, Types, Dispatching, AnswerNext, AckReady
<1>3. Position' /\ EventsPast'
  BY DEF Inv, Position, Recent, EventsPast, Mine
<1>4. InSequence' /\ EffectsInOrder' /\ AckedHonestly'
  BY DEF Inv, InSequence, EffectsInOrder, AckedHonestly
<1>. QED  BY <1>2, <1>3, <1>4 DEF Inv

LEMMA DuplicateInv == Inv /\ Duplicate => Inv'
<1>. SUFFICES ASSUME Inv, Duplicate PROVE Inv'
  OBVIOUS
<1>. USE DEF Duplicate, reader, memory
<1>1. Number \in Nat /\ Number >= 1 /\ last \in Nat /\ Number <= last
  BY EntryInReply DEF Inv, Types, Dispatching
<1>2. Recent
  BY <1>1 DEF Inv, Position
<1>3. Len(applied) \in 1 .. Len(applied) /\ last = applied[Len(applied)][2]
  BY <1>2, AppliedPairs DEF Inv, Position, Recent
<1>4. Done(Entry, Number)
  BY <1>1, <1>3 DEF Done
<1>5. AckReady'
  BY <1>4 DEF AckReady, Done, Entry, Number
<1>6. Types' /\ AnswerNext'
  BY DEF Inv, Types, Dispatching, AnswerNext
<1>7. Position' /\ EventsPast' /\ InSequence' /\ EffectsInOrder' /\ AckedHonestly'
  BY DEF Inv, Position, Recent, EventsPast, Mine, InSequence, EffectsInOrder, AckedHonestly
<1>. QED  BY <1>5, <1>6, <1>7 DEF Inv

\* The number of trades of a match is a natural.
LEMMA PlaceReturns ==
  ASSUME Inv, HandlePlaceOrder
  PROVE  answer' \in Seq(EventTypes) /\ step' = "publish" /\ IsFiniteSet(book')
         /\ UNCHANGED <<stream, delivered, pel, reader, life, answered, events>>
<1>1. IsFiniteSet(book) /\ Cardinality(book) \in Nat
  BY FS_CardinalityType DEF Inv, Types
<1>2. PICK gone \in SUBSET book, left \in BOOLEAN, n \in 0 .. Cardinality(book) :
        /\ book' = (book \ gone) \cup (IF left THEN {Command.order} ELSE {})
        /\ Return([i \in 1 .. n |-> "TradeCreated"]
                  \o (IF left THEN <<"OrderOpened">> ELSE <<>>) \o <<"OrderBookChanged">>)
  BY Zenon DEF HandlePlaceOrder
<1>. DEFINE trades == [i \in 1 .. n |-> "TradeCreated"]
            opened == IF left THEN <<"OrderOpened">> ELSE <<>>
<1>3. /\ n \in Nat /\ trades \in Seq(EventTypes) /\ opened \in Seq(EventTypes)
      /\ <<"OrderBookChanged">> \in Seq(EventTypes)
  BY <1>1 DEF EventTypes, Effects
<1>. HIDE DEF trades, opened
<1>4. trades \o opened \in Seq(EventTypes) /\ (trades \o opened) \o <<"OrderBookChanged">> \in Seq(EventTypes)
  BY <1>3, ConcatProperties
<1>5. IsFiniteSet(book \ gone) /\ IsFiniteSet({Command.order}) /\ IsFiniteSet({})
  BY <1>1, FS_Difference, FS_Singleton, FS_EmptySet
<1>6. IsFiniteSet(book')
  BY <1>2, <1>5, FS_Union
<1>. QED  BY <1>2, <1>4, <1>6 DEF Return, trades, opened

LEMMA HandlersInv ==
  ASSUME Inv, HandleOpenMarket \/ Gap \/ HandlePlaceOrder \/ HandleCancelOrder \/ Reject
  PROVE  Inv'
<1>1. CASE HandleOpenMarket
  <2>1. <<"MarketOpened">> \in Seq(EventTypes) /\ IsFiniteSet(book')
    BY <1>1 DEF Inv, Types, EventTypes, Effects, HandleOpenMarket
  <2>. QED  BY <1>1, <2>1, Applying DEF HandleOpenMarket, Return, reader
<1>2. CASE Gap
  <2>1. "EngineFailed" \in EventTypes \ Effects
    BY DEF EventTypes, Effects
  <2>. QED  BY <1>2, <2>1, Refusing DEF Gap, Return, reader
<1>3. CASE HandlePlaceOrder
  BY <1>3, PlaceReturns, Applying DEF HandlePlaceOrder, reader
<1>4. CASE HandleCancelOrder
  <2>1. <<"OrderCancelled", "OrderBookChanged">> \in Seq(EventTypes)
    BY DEF EventTypes, Effects
  <2>2. IsFiniteSet(book')
    BY <1>4, FS_RemoveElement DEF HandleCancelOrder, Inv, Types
  <2>. QED  BY <1>4, <2>1, <2>2, Applying DEF HandleCancelOrder, Return, reader
<1>5. CASE Reject
  <2>1. "OrderRejected" \in EventTypes \ Effects /\ "CancelOrderRejected" \in EventTypes \ Effects
    BY DEF EventTypes, Effects
  <2>. QED  BY <1>5, <2>1, Refusing DEF Reject, Return, reader, memory
<1>. QED  BY <1>1, <1>2, <1>3, <1>4, <1>5

-----------------------------------------------------------------------------
(* Publishing.                                                             *)

(* The first k events of an answer, added to the stream.                   *)
LEMMA Publishing ==
  ASSUME Inv, step = "publish", NEW k \in Nat, k <= Len(answer), events' = events \o Published(k),
         UNCHANGED <<life, last>>
  PROVE  events' \in Seq(Events) /\ EventsPast' /\ EffectsInOrder'
<1>. DEFINE p == Published(k)
<1>. Len(events) \in Nat
  BY DEF Inv, Types
<1>. PICK n \in Nat : n = Len(events)
  OBVIOUS
<1>0. n \in Nat /\ k \in Nat /\ n + k \in Nat
  OBVIOUS
<1>8. 1 .. n + k = (1 .. n) \cup (n + 1 .. n + k)
  BY <1>0
<1>1. reading # {} /\ Number \in Nat /\ life \in Nat /\ last \in Nat
  BY EntryInReply DEF Inv, Types
<1>2. Len(answer) \in Nat /\ \A i \in 1 .. k : i \in 1 .. Len(answer) /\ answer[i] \in EventTypes
  BY DEF Inv, Types
<1>3. p \in Seq(Events) /\ Len(p) = k /\ \A i \in 1 .. k : p[i] = <<life, Number, i, answer[i]>>
  <2>1. \A i \in 1 .. k : <<life, Number, i, answer[i]>> \in Events
    BY <1>1, <1>2 DEF Events
  <2>. QED  BY <1>1, <2>1 DEF Published
<1>. HIDE DEF p
<1>4. /\ events' \in Seq(Events) /\ Len(events') = n + k
      /\ \A j \in 1 .. n : events'[j] = events[j]
      /\ \A j \in n + 1 .. n + k : events'[j] = p[j - n]
  <2>1. events \in Seq(Events) /\ events' = events \o p
    BY DEF Inv, Types, p
  <2>2. p \in Seq(Events) /\ Len(p) = k /\ Len(events) = n
    BY <1>3
  <2>3. /\ events \o p \in Seq(Events) /\ Len(events \o p) = Len(events) + Len(p)
        /\ \A j \in 1 .. Len(events) + Len(p) :
             (events \o p)[j] = IF j <= Len(events) THEN events[j] ELSE p[j - Len(events)]
    BY <2>1, <2>2, ConcatProperties
  <2>4. /\ events' \in Seq(Events) /\ Len(events') = n + k
        /\ \A j \in 1 .. n + k : events'[j] = IF j <= n THEN events[j] ELSE p[j - n]
    BY <2>1, <2>2, <2>3, Zenon
  <2>. QED  BY <1>0, <2>4
<1>5. ASSUME NEW j \in n + 1 .. n + k
      PROVE  /\ events'[j][1] = life /\ events'[j][2] = Number /\ events'[j][3] = j - n
             /\ Mine(events'[j]) =>
                  /\ Number = last
                  /\ \A i \in 1 .. n : Mine(events[i]) => events[i][2] < Number
  <2>1. j - n \in 1 .. k
    BY <1>1
  <2>2. events'[j] = <<life, Number, j - n, answer[j - n]>>
    BY <1>3, <1>4, <2>1
  <2>3. Mine(events'[j]) => answer[j - n] \in Effects
    BY <2>2 DEF Mine
  <2>. QED  BY <1>2, <2>1, <2>2, <2>3 DEF Inv, AnswerNext
<1>6. EventsPast'
  <2>. SUFFICES ASSUME NEW j \in 1 .. n + k
                PROVE  events'[j][1] <= life /\ (Mine(events'[j]) => events'[j][2] <= last)
    BY <1>4 DEF EventsPast, Mine
  <2>1. CASE j \in 1 .. n
    BY <1>4, <2>1 DEF Inv, EventsPast
  <2>2. CASE j \in n + 1 .. n + k
    <3>1. events'[j][1] = life /\ events'[j][2] = Number /\ (Mine(events'[j]) => Number = last)
      BY <1>5, <2>2 DEF Mine
    <3>2. life <= life /\ last <= last
      BY <1>1
    <3>. QED  BY <3>1, <3>2, Zenon DEF Mine
  <2>. QED  BY <1>8, <2>1, <2>2
<1>7. EffectsInOrder'
  <2>. SUFFICES ASSUME NEW i \in 1 .. n + k, NEW j \in 1 .. n + k, i < j,
                       events'[i][1] = events'[j][1],
                       events'[i][4] \in Effects, events'[j][4] \in Effects
                PROVE  Earlier(events'[i], events'[j])
    BY <1>4 DEF EffectsInOrder
  <2>1. CASE j \in 1 .. n
    <3>1. i \in 1 .. n
      BY <1>1, <2>1
    <3>. QED  BY <1>4, <2>1, <3>1 DEF Inv, EffectsInOrder
  <2>2. CASE i \in 1 .. n /\ j \in n + 1 .. n + k
    <3>1. Mine(events'[j]) /\ events'[i] = events[i] /\ Mine(events[i])
      BY <1>4, <1>5, <2>2 DEF Mine
    <3>. QED  BY <1>5, <2>2, <3>1 DEF Earlier
  <2>3. CASE i \in n + 1 .. n + k /\ j \in n + 1 .. n + k
    <3>1. events'[i][2] = events'[j][2] /\ events'[i][3] = i - n /\ events'[j][3] = j - n
      BY <1>5, <2>3
    <3>. QED  BY <1>1, <3>1 DEF Earlier
  <2>. QED  BY <1>8, <2>1, <2>2, <2>3
<1>. QED  BY <1>4, <1>6, <1>7

LEMMA PublishInv ==
  ASSUME Inv, PublishBatch \/ PublishFails
  PROVE  Inv'
<1>1. step = "publish" /\ Len(answer) \in Nat /\ Entry \in reading
  BY EntryInReply DEF Inv, Types, PublishBatch, PublishFails
<1>2. /\ UNCHANGED <<life, last, book, state, applied, stream, delivered, pel>>
      /\ answer' = <<>> /\ step' # "publish"
      /\ reading' \subseteq reading /\ (step' # "dispatch" => reading' # {})
      /\ step' \in {"dispatch", "ack"} /\ answered \subseteq answered'
  BY <1>1 DEF PublishBatch, PublishFails, reader, memory
<1>3. events' \in Seq(Events) /\ EventsPast' /\ EffectsInOrder'
  <2>1. PICK k \in 0 .. Len(answer) : events' = events \o Published(k)
    BY <1>1 DEF PublishBatch, PublishFails
  <2>. QED  BY <1>1, <1>2, <2>1, Publishing
<1>4. Types'
  BY <1>2, <1>3 DEF Inv, Types
<1>5. Position' /\ AnswerNext' /\ InSequence'
  BY <1>2 DEF Inv, Position, Recent, AnswerNext, InSequence
<1>6. AckReady'
  BY DEF AckReady, Done, Entry, PublishBatch, PublishFails, reader
<1>7. AckedHonestly'
  BY <1>2 DEF Inv, AckedHonestly
<1>. QED  BY <1>3, <1>4, <1>5, <1>6, <1>7 DEF Inv

-----------------------------------------------------------------------------
(* The stream and its group.                                               *)

\* A step of the reader that leaves the engine and its answers alone.
LEMMA Reading ==
  ASSUME Inv, Types', step' \in {step, "dispatch"}, step' # "publish" \/ Number' = Number,
         step' = "ack" => UNCHANGED <<Entry, Number>>, AckedHonestly',
         UNCHANGED <<last, state, answer, life, applied, answered, events>>
  PROVE  Inv'
<1>1. Position' /\ InSequence' /\ EventsPast' /\ EffectsInOrder'
  BY DEF Inv, Position, Recent, InSequence, EventsPast, Mine, EffectsInOrder
<1>2. AnswerNext'
  BY DEF Inv, AnswerNext, Mine
<1>3. AckReady'
  BY DEF Inv, AckReady, Done
<1>. QED  BY <1>1, <1>2, <1>3 DEF Inv

LEMMA SendInv == Inv /\ Send => Inv'
<1>. SUFFICES ASSUME Inv, Send PROVE Inv'
  OBVIOUS
<1>1. PICK n \in Numbers : stream' = Append(stream, n)
  BY DEF Send, Numbers
<1>2. UNCHANGED <<delivered, pel, reading, step, last, state, book, answer, life, applied, answered, events>>
  BY Zenon DEF Send, reader, memory
<1>3. /\ stream' \in Seq(Numbers) /\ Len(stream') = Len(stream) + 1
      /\ \A i \in 1 .. delivered : stream'[i] = stream[i]
  BY <1>1 DEF Inv, Types
<1>4. Types'
  BY <1>2, <1>3 DEF Inv, Types
<1>5. step' # "dispatch" => UNCHANGED <<Entry, Number>>
  <2>1. step # "dispatch" => Entry \in 1 .. delivered
    BY EntryInReply DEF Inv, Types
  <2>. QED  BY <1>2, <1>3, <2>1 DEF Entry, Number
<1>6. AckedHonestly'
  BY <1>2, <1>3 DEF Inv, AckedHonestly
<1>. QED  BY <1>2, <1>4, <1>5, <1>6, Reading

LEMMA ReadInv ==
  ASSUME Inv, drainPending \/ ReadNew
  PROVE  Inv'
<1>1. step = "dispatch"
  BY DEF Inv, Types, drainPending, ReadNew
<1>2. CASE drainPending
  <2>1. Types'
    BY <1>1, <1>2 DEF Inv, Types, drainPending, FirstOf, memory
  <2>2. AckedHonestly'
    BY <1>2 DEF Inv, AckedHonestly, drainPending
  <2>. QED  BY <1>1, <1>2, <2>1, <2>2, Reading DEF drainPending, memory
<1>3. CASE ReadNew
  <2>1. /\ delivered' \in Nat /\ delivered < delivered' /\ delivered' <= Len(stream)
        /\ delivered \in Nat
    BY <1>3, CountAssumption DEF Inv, Types, ReadNew, ReadTo
  <2>2. reading' = delivered + 1 .. delivered' /\ pel' = pel \cup (delivered + 1 .. delivered')
    BY <1>3, Zenon DEF ReadNew
  <2>3. Types'
    BY <1>1, <1>3, <2>1, <2>2 DEF Inv, Types, ReadNew, memory
  <2>4. AckedHonestly'
    <3>. SUFFICES ASSUME NEW i \in 1 .. delivered'
                  PROVE  i \in pel' \/ i \in answered \/ \E k \in 1 .. Len(applied) : stream[i] <= applied[k][2]
      BY <1>3 DEF AckedHonestly, ReadNew
    <3>1. CASE i \in 1 .. delivered
      BY <2>2, <3>1 DEF Inv, AckedHonestly
    <3>. QED  BY <2>1, <2>2, <3>1
  <2>. QED  BY <1>1, <1>3, <2>3, <2>4, Reading DEF ReadNew, memory
<1>. QED  BY <1>2, <1>3

LEMMA AckInv ==
  ASSUME Inv, Ack \/ AckFails
  PROVE  Inv'
<1>1. /\ UNCHANGED <<stream, delivered, last, state, book, answer, life, applied, answered, events>>
      /\ pel' \in {pel, pel \ {Entry}} /\ reading' = reading \ {Entry} /\ step' = "dispatch" /\ step = "ack"
  BY DEF Ack, AckFails, memory
<1>2. Types'
  BY <1>1 DEF Inv, Types
<1>3. Done(Entry, Number)
  BY <1>1 DEF Inv, AckReady
<1>4. AckedHonestly'
  BY <1>1, <1>3 DEF Inv, AckedHonestly, Done, Number
<1>. QED  BY <1>1, <1>2, <1>4, Reading

LEMMA RestartInv == Inv /\ Restart => Inv'
<1>. SUFFICES ASSUME Inv, Restart PROVE Inv'
  OBVIOUS
<1>1. /\ UNCHANGED <<stream, delivered, pel, applied, answered, events>>
      /\ reading' = {} /\ step' = "dispatch" /\ answer' = <<>> /\ state' = "RECOVERING" /\ last' = 0
      /\ book' = {} /\ life' = life + 1 /\ life \in Nat
  BY DEF Inv, Types, Restart
<1>2. Types'
  BY <1>1, FS_EmptySet DEF Inv, Types
<1>3. \A i \in 1 .. Len(applied) : applied[i][1] \in Nat /\ applied[i][1] <= life
  BY AppliedPairs DEF Inv, Position
<1>4. ~Recent'
  BY <1>1, <1>3, AppliedPairs DEF Inv, Recent
<1>5. Position'
  BY <1>1, <1>3, <1>4 DEF Position
<1>6. \A j \in 1 .. Len(events) : events[j][1] \in Nat /\ events[j][1] <= life
  BY EventParts DEF Inv, EventsPast
<1>7. EventsPast' /\ AnswerNext' /\ AckReady'
  BY <1>1, <1>6 DEF EventsPast, Mine, AnswerNext, AckReady
<1>8. InSequence' /\ EffectsInOrder' /\ AckedHonestly'
  BY <1>1 DEF Inv, InSequence, EffectsInOrder, AckedHonestly
<1>. QED  BY <1>2, <1>5, <1>7, <1>8 DEF Inv

LEMMA NextInv == Inv /\ [Next]_vars => Inv'
<1>. SUFFICES ASSUME Inv, [Next]_vars PROVE Inv'
  OBVIOUS
<1>1. CASE Engine
  BY <1>1, ReadInv, DuplicateInv, HandlersInv, PublishInv, AckInv, Zenon DEF Engine
<1>2. CASE Send \/ PublishFails \/ AckFails \/ Restart
  BY <1>2, SendInv, PublishInv, AckInv, RestartInv
<1>3. CASE UNCHANGED vars
  <2>1. Types' /\ AckedHonestly' /\ UNCHANGED <<Entry, Number>>
    BY <1>3 DEF Inv, Types, AckedHonestly, Entry, Number, vars, reader, memory
  <2>. QED  BY <1>3, <2>1, Reading DEF vars, memory
<1>. QED  BY <1>1, <1>2, <1>3, Zenon DEF Next

-----------------------------------------------------------------------------
(* The results.                                                            *)

(* The check of LastProcessedCmdSeq makes every life of the engine apply   *)
(* an unbroken run of commands that starts with an OpenMarket.             *)
THEOREM UnbrokenRun == Spec => []InSequence
<1>1. Inv => InSequence
  BY DEF Inv
<1>. QED  BY <1>1, InitInv, NextInv, PTL DEF Spec

(* No failure of publishing or acknowledging makes one life publish an     *)
(* effect again, or an older one after a younger one.                      *)
THEOREM EffectsOnce == Spec => []EffectsInOrder
<1>1. Inv => EffectsInOrder
  BY DEF Inv
<1>. QED  BY <1>1, InitInv, NextInv, PTL DEF Spec

(* The group forgets a command only when it was answered in full or an     *)
(* engine had gone past it.                                                *)
THEOREM NoCommandVanishes == Spec => []AckedHonestly
<1>1. Inv => AckedHonestly
  BY DEF Inv
<1>. QED  BY <1>1, InitInv, NextInv, PTL DEF Spec
=============================================================================
