-------------------------- MODULE MarketFeedProofs --------------------------
(***************************************************************************)
(* The event consumer applies each event once, forgets only what it has    *)
(* applied, announces only what it has applied, and a start without a      *)
(* failure repairs what failed before.  On top of it the fan-out: a client *)
(* that joined and then read is never behind what was broadcast.  All of   *)
(* it for every sequence of events, every size of the two consumers' reads, *)
(* any number of failures and restarts and any set of events that can      *)
(* never be applied.                                                       *)
(*                                                                         *)
(* The first part is about EventConsumer's own Spec, the second about      *)
(* MarketFeed's, whose steps leave the consumer's invariant alone.         *)
(***************************************************************************)
EXTENDS MarketFeed, SequenceTheorems, WellFoundedInduction, TLAPS

(* The event consumer.                                                     *)


\* The history variables are lists of entries of the stream.
Lists == applied \in Seq(Ids) /\ announced \in Seq(Ids) /\ clean \in BOOLEAN

\* Nothing is given out before the group is created, at its first entry.
Cursor ==
  /\ first <= delivered
  /\ mode \in {"drain", "live"} => first # -1
  /\ mode \in {"start", "dead"} => reading = {}

\* Past its transaction, the entry at hand is applied.
Past == step # "transact" => Entry \in Members(applied)

Inv ==
  /\ TypeOK /\ Lists /\ Cursor /\ Past
  /\ AppliedOnce /\ AckedApplied /\ AnnouncedApplied /\ CleanStartRepairs

(* The entries of the stream are numbered from 1.                          *)
LEMMA IdsAreNumbers == Ids = 1 .. Len(Kinds) /\ Len(Kinds) \in Nat /\ Ids \subseteq Nat
BY KindsAssumption DEF Ids

(* A reply that is not empty has a first entry, which is pending.          *)
LEMMA EntryIsPending ==
  ASSUME TypeOK, reading # {}
  PROVE  /\ Entry \in reading /\ Entry \in pel /\ Entry \in Taken
         /\ Entry \in Ids /\ Entry \in 1 .. delivered
         /\ \A r \in reading : Entry <= r
<1>1. reading \subseteq pel /\ pel \subseteq Taken /\ Taken \subseteq Ids /\ reading \subseteq Nat
  BY IdsAreNumbers DEF TypeOK, Taken
<1>2. \E x \in reading : \A y \in reading : x =< y
  <2>1. PICK x \in reading : \A y \in reading : <<y, x>> \notin OpToRel(<, Nat)
    BY <1>1, WFMin, NatLessThanWellFounded
  <2>2. \A y \in reading : ~(y < x)
    BY <1>1, <2>1 DEF OpToRel
  <2>. QED  BY <1>1, <2>2
<1>3. Entry \in reading /\ \A r \in reading : Entry <= r
  BY <1>2 DEF Entry, Min
<1>. QED  BY <1>1, <1>3, IdsAreNumbers DEF Taken, TypeOK

(* Appending a new element.                                                *)
LEMMA Appended ==
  ASSUME NEW s \in Seq(Ids), NEW e \in Ids
  PROVE  /\ Append(s, e) \in Seq(Ids)
         /\ Members(Append(s, e)) = Members(s) \cup {e}
         /\ (\A i, j \in DOMAIN s : i # j => s[i] # s[j]) /\ e \notin Members(s)
              => \A i, j \in DOMAIN Append(s, e) : i # j => Append(s, e)[i] # Append(s, e)[j]
<1>1. /\ Append(s, e) \in Seq(Ids) /\ Len(s) \in Nat /\ DOMAIN s = 1 .. Len(s)
      /\ DOMAIN Append(s, e) = 1 .. Len(s) + 1
      /\ \A i \in 1 .. Len(s) : Append(s, e)[i] = s[i]
      /\ Append(s, e)[Len(s) + 1] = e
  OBVIOUS
<1>. DEFINE t == Append(s, e)
            n == Len(s)
<1>2. t \in Seq(Ids) /\ n \in Nat /\ DOMAIN s = 1 .. n /\ DOMAIN t = 1 .. n + 1
      /\ (\A i \in 1 .. n : t[i] = s[i]) /\ t[n + 1] = e
  BY <1>1
<1>. HIDE DEF t, n
<1>3. Members(t) = Members(s) \cup {e}
  BY <1>2 DEF Members
<1>4. ASSUME \A i, j \in DOMAIN s : i # j => s[i] # s[j], e \notin Members(s)
      PROVE  \A i, j \in DOMAIN t : i # j => t[i] # t[j]
  BY <1>2, <1>4 DEF Members
<1>. QED  BY <1>2, <1>3, <1>4 DEF t

LEMMA InitInv == Init => Inv
BY IdsAreNumbers DEF Init, Inv, TypeOK, Lists, Cursor, Past, Taken, AppliedOnce, AckedApplied,
  AnnouncedApplied, CleanStartRepairs, Members

-----------------------------------------------------------------------------
(* One lemma for each kind of step: those that change what the group has   *)
(* given out, those of handleMessage, and the failures.                    *)

(* While a reply is handled its group exists, and its first entry is known.*)
LEMMA HandlingFacts ==
  ASSUME Inv, NEW s, Handling(s)
  PROVE  /\ Entry \in reading /\ Entry \in pel /\ Entry \in Ids /\ Entry \in 1 .. delivered
         /\ mode \in {"drain", "live"} /\ first # -1
         /\ s # "transact" => Entry \in Members(applied)
BY EntryIsPending DEF Inv, Handling, Cursor, Past, TypeOK

(* Applying the first entry of the reply, if it is new.                    *)
LEMMA AppendingEntry ==
  ASSUME Inv, reading # {}, New(Entry)
  PROVE  LET t == Append(applied, Entry) IN
         /\ t \in Seq(Ids)
         /\ Members(t) = Members(applied) \cup {Entry}
         /\ \A i, j \in DOMAIN t : i # j => t[i] # t[j]
BY EntryIsPending, Appended DEF Inv, Lists, AppliedOnce, New

LEMMA CreateGroupInv == Inv /\ CreateGroup => Inv'
<1>. SUFFICES ASSUME Inv, CreateGroup PROVE Inv'
  OBVIOUS
<1>. USE DEF CreateGroup, Well, redisOut, group
<1>1. CASE first = -1
  <2>1. /\ first' = length /\ delivered' = length /\ pel' = {} /\ reading' = {}
        /\ reading = {} /\ mode' = "drain" /\ step' = step /\ cache' = cache
        /\ length' = length /\ length \in 0 .. Len(Kinds) /\ applied' = applied
        /\ announced' = announced /\ clean' = clean
    BY <1>1 DEF Inv, Cursor, TypeOK
  <2>2. length \in Nat /\ delivered \in 0 .. length /\ Len(Kinds) \in Nat
    BY IdsAreNumbers DEF Inv, TypeOK
  <2>3. Taken' = {}
    BY <2>1, <2>2, IdsAreNumbers DEF Taken, Ids
  <2>4. TypeOK'
    BY <2>1, <2>2, <2>3 DEF Inv, TypeOK
  <2>5. Lists' /\ AppliedOnce' /\ AnnouncedApplied'
    BY <2>1 DEF Inv, Lists, AppliedOnce, AnnouncedApplied, Members, Ids
  <2>6. Cursor' /\ AckedApplied' /\ CleanStartRepairs'
    BY <2>1, <2>2, <2>3 DEF Inv, Cursor, AckedApplied, CleanStartRepairs
  <2>7. Past'
    BY <2>1 DEF Inv, Past, TypeOK
  <2>. QED  BY <2>4, <2>5, <2>6, <2>7 DEF Inv
<1>2. CASE first # -1
  <2>1. Taken' = Taken /\ Entry' = Entry /\ Members(applied)' = Members(applied)
        /\ Members(announced)' = Members(announced)
    BY <1>2 DEF Taken, Entry, Members
  <2>. QED
    BY <1>2, <2>1 DEF Inv, TypeOK, Lists, Cursor, Past, AppliedOnce, AckedApplied,
      AnnouncedApplied, CleanStartRepairs
<1>. QED  BY <1>1, <1>2

LEMMA DrainInv == Inv /\ drainPending => Inv'
<1>. SUFFICES ASSUME Inv, drainPending PROVE Inv'
  OBVIOUS
<1>. USE DEF drainPending, Well, redisOut, group
<1>1. /\ Taken' = Taken /\ Members(applied)' = Members(applied)
      /\ Members(announced)' = Members(announced)
  BY DEF Taken, Members
<1>2. reading' \subseteq pel /\ (pel = {} => reading' = {}) /\ step = "transact"
  BY DEF FirstOf, Inv, TypeOK
<1>3. TypeOK'
  BY <1>1, <1>2 DEF Inv, TypeOK
<1>4. CleanStartRepairs'
  BY <1>2 DEF Inv, CleanStartRepairs
<1>5. Lists' /\ Cursor' /\ Past' /\ AppliedOnce' /\ AckedApplied' /\ AnnouncedApplied'
  BY <1>1, <1>2 DEF Inv, Lists, Cursor, Past, AppliedOnce, AckedApplied, AnnouncedApplied
<1>. QED  BY <1>3, <1>4, <1>5 DEF Inv

LEMMA ReadInv == Inv /\ processBatch => Inv'
<1>. SUFFICES ASSUME Inv, processBatch PROVE Inv'
  OBVIOUS
<1>. USE DEF processBatch, Well, redisOut
<1>1. /\ Count \in Nat \ {0} /\ length \in Nat /\ Len(Kinds) \in Nat /\ length <= Len(Kinds)
      /\ delivered \in Nat /\ delivered < length /\ first \in Int /\ first # -1
      /\ -1 <= first /\ first <= delivered
  BY CountAssumption, IdsAreNumbers DEF Inv, TypeOK, Cursor
<1>2. delivered' \in Nat /\ delivered < delivered' /\ delivered' <= length
  BY <1>1 DEF ReadTo
<1>3. reading' = delivered + 1 .. delivered' /\ reading' # {}
  <2>1. delivered' \in delivered + 1 .. delivered'
    BY <1>1, <1>2
  <2>. QED  BY <2>1
<1>4. Taken' = Taken \cup reading' /\ Taken \cap reading' = {}
  BY <1>1, <1>2, <1>3, IdsAreNumbers DEF Taken, Ids
<1>5. TypeOK'
  <2>1. pel' \subseteq Taken' /\ reading' \subseteq pel'
    BY <1>4 DEF Inv, TypeOK
  <2>2. length' \in 0 .. Len(Kinds) /\ first' \in -1 .. length' /\ delivered' \in 0 .. length'
        /\ cache' \in 0 .. delivered'
    BY <1>1, <1>2 DEF Inv, TypeOK
  <2>. QED  BY <1>3, <2>1, <2>2 DEF Inv, TypeOK
<1>6. Lists' /\ Cursor' /\ AppliedOnce' /\ AnnouncedApplied'
  BY <1>1, <1>2 DEF Inv, Lists, Cursor, AppliedOnce, AnnouncedApplied, Members, Ids
<1>7. AckedApplied'
  <2>1. Taken' \ pel' \subseteq Taken \ pel
    BY <1>4
  <2>. QED  BY <2>1 DEF Inv, AckedApplied, Members
<1>8. Past' /\ CleanStartRepairs'
  BY DEF Inv, TypeOK, Past, CleanStartRepairs
<1>. QED  BY <1>5, <1>6, <1>7, <1>8 DEF Inv

(* Skip, Apply and PostProcess go on with the entry at hand: the reply and *)
(* the group stay as they are.                                             *)
LEMMA SameEntry ==
  ASSUME UNCHANGED <<length, group, reading>>
  PROVE  Taken' = Taken /\ Entry' = Entry
BY DEF Taken, Entry, group

LEMMA SkipInv == Inv /\ Skip => Inv'
<1>. SUFFICES ASSUME Inv, Skip PROVE Inv'
  OBVIOUS
<1>. USE DEF Skip, Well, redisOut, group
<1>1. Taken' = Taken /\ Entry' = Entry
  BY SameEntry
<1>2. Members(applied)' = Members(applied) /\ Members(announced)' = Members(announced)
  BY DEF Members
<1>3. reading # {} /\ Entry \in Members(applied)
  BY DEF Handling
<1>. QED
  BY <1>1, <1>2, <1>3 DEF Inv, TypeOK, Lists, Cursor, Past, AppliedOnce, AckedApplied,
    AnnouncedApplied, CleanStartRepairs

LEMMA ApplyInv == Inv /\ Apply => Inv'
<1>. SUFFICES ASSUME Inv, Apply PROVE Inv'
  OBVIOUS
<1>. USE DEF Apply, Well, redisOut, group
<1>1. Taken' = Taken /\ Entry' = Entry
  BY SameEntry
<1>2. reading # {} /\ Entry \in Ids
  BY HandlingFacts DEF Handling
<1>3. /\ applied' \in Seq(Ids)
      /\ Members(applied)' = Members(applied) \cup {Entry}
      /\ AppliedOnce'
  BY <1>2, AppendingEntry DEF AppliedOnce, Members
<1>4. Members(announced)' = Members(announced)
  BY DEF Members
<1>5. TypeOK' /\ Lists' /\ Cursor' /\ CleanStartRepairs'
  BY <1>1, <1>2, <1>3 DEF Inv, TypeOK, Lists, Cursor, CleanStartRepairs, Ids
<1>6. Past'
  BY <1>1, <1>3 DEF Past
<1>7. AckedApplied' /\ AnnouncedApplied'
  BY <1>1, <1>3, <1>4 DEF Inv, AckedApplied, AnnouncedApplied
<1>. QED  BY <1>3, <1>5, <1>6, <1>7 DEF Inv

(* What is cached and announced of an applied entry is applied.            *)
LEMMA Announcing ==
  ASSUME Inv, Handling("post"),
         cache' \in {cache, Cached}, announced' \in {announced, Announced},
         applied' = applied
  PROVE  /\ announced' \in Seq(Ids)
         /\ AnnouncedApplied'
         /\ cache' \in 0 .. delivered
<1>1. Entry \in Ids /\ Entry \in Members(applied) /\ Entry \in 1 .. delivered
  BY HandlingFacts
<1>2. /\ announced' \in Seq(Ids)
      /\ Members(announced)' \subseteq Members(announced) \cup {Entry}
  <2>1. CASE announced' = announced
    BY <2>1 DEF Members, Inv, Lists
  <2>2. CASE announced' = Append(announced, Entry)
    BY <1>1, <2>2, Appended DEF Inv, Lists, Members
  <2>. QED  BY <2>1, <2>2 DEF Announced
<1>3. cache' \in {cache, Entry}
  BY DEF Cached
<1>4. Members(applied)' = Members(applied)
  BY DEF Members
<1>5. AnnouncedApplied'
  BY <1>1, <1>2, <1>3, <1>4 DEF Inv, AnnouncedApplied
<1>6. cache' \in 0 .. delivered
  BY <1>1, <1>3 DEF Inv, TypeOK
<1>. QED  BY <1>2, <1>5, <1>6

LEMMA PostProcessInv == Inv /\ (PostProcess \/ PostProcessFails) => Inv'
<1>. SUFFICES ASSUME Inv, PostProcess \/ PostProcessFails PROVE Inv'
  OBVIOUS
<1>. USE DEF PostProcess, PostProcessFails, group
<1>1. /\ UNCHANGED <<length, first, delivered, pel, reading, mode, applied>>
      /\ step' = "ack" /\ Handling("post")
      /\ cache' \in {cache, Cached} /\ announced' \in {announced, Announced}
      /\ clean' = clean \/ clean' = FALSE
  BY DEF Well, Fault
<1>2. Taken' = Taken /\ Entry' = Entry /\ Members(applied)' = Members(applied)
  BY <1>1 DEF Taken, Entry, Members
<1>3. announced' \in Seq(Ids) /\ AnnouncedApplied' /\ cache' \in 0 .. delivered
  BY <1>1, Announcing
<1>4. reading # {} /\ Entry \in Members(applied)
  BY <1>1, HandlingFacts
<1>5. TypeOK' /\ Lists' /\ Cursor'
  BY <1>1, <1>2, <1>3, <1>4 DEF Inv, TypeOK, Lists, Cursor, Ids
<1>6. Past' /\ AppliedOnce' /\ AckedApplied' /\ CleanStartRepairs'
  BY <1>1, <1>2, <1>4 DEF Inv, Past, AppliedOnce, AckedApplied, CleanStartRepairs
<1>. QED  BY <1>3, <1>5, <1>6 DEF Inv

LEMMA AckInv == Inv /\ (Ack \/ AckFails) => Inv'
<1>. SUFFICES ASSUME Inv, Ack \/ AckFails PROVE Inv'
  OBVIOUS
<1>. USE DEF Ack, AckFails, Aborted, Well, Fault, redisOut
<1>1. /\ Handling("ack")
      /\ UNCHANGED <<length, first, delivered, applied, cache, announced>>
      /\ step' = "transact" /\ reading' \subseteq reading
      /\ pel' \in {pel, pel \ {Entry}}
  OBVIOUS
<1>2. /\ reading # {} /\ Entry \in Members(applied)
      /\ mode \in {"drain", "live"} /\ first # -1
  BY <1>1, HandlingFacts DEF Handling
<1>3. /\ Taken' = Taken /\ Members(applied)' = Members(applied)
      /\ Members(announced)' = Members(announced)
  BY <1>1 DEF Taken, Members
<1>4. reading' \subseteq pel' /\ mode' \in {"drain", "live"} /\ clean' \in BOOLEAN
  BY <1>2 DEF Inv, TypeOK, Lists
<1>5. CleanStartRepairs'
  <2>1. CASE Ack
    BY <2>1 DEF Inv, CleanStartRepairs
  <2>2. CASE AckFails
    BY <2>2 DEF CleanStartRepairs
  <2>. QED  BY <2>1, <2>2
<1>6. TypeOK' /\ Lists' /\ Cursor' /\ Past'
  BY <1>1, <1>2, <1>3, <1>4 DEF Inv, TypeOK, Lists, Cursor, Past, Ids
<1>7. AppliedOnce' /\ AckedApplied' /\ AnnouncedApplied'
  BY <1>1, <1>2, <1>3 DEF Inv, AppliedOnce, AckedApplied, AnnouncedApplied
<1>. QED  BY <1>5, <1>6, <1>7 DEF Inv

(* A transaction that throws may have been committed.                      *)
LEMMA ThrowInv == Inv /\ (Throw \/ ThrowPoison) => Inv'
<1>. SUFFICES ASSUME Inv, Throw \/ ThrowPoison PROVE Inv'
  OBVIOUS
<1>. USE DEF Throw, ThrowPoison, Aborted, Fault, redisOut, group
<1>1. /\ Handling("transact") /\ clean' = FALSE
      /\ UNCHANGED <<length, first, delivered, pel, cache, announced>>
      /\ step' = "transact" /\ reading' = {} /\ mode' = "live"
      /\ applied' = applied \/ (New(Entry) /\ applied' = Append(applied, Entry))
  OBVIOUS
<1>2. reading # {} /\ first # -1
  BY <1>1, HandlingFacts DEF Handling
<1>3. /\ applied' \in Seq(Ids) /\ AppliedOnce'
      /\ Members(applied) \subseteq Members(applied)'
  <2>1. CASE applied' = applied
    BY <2>1 DEF Inv, Lists, AppliedOnce, Members
  <2>2. CASE New(Entry) /\ applied' = Append(applied, Entry)
    BY <1>2, <2>2, AppendingEntry DEF AppliedOnce, Members
  <2>. QED  BY <1>1, <2>1, <2>2
<1>4. Taken' = Taken /\ Members(announced)' = Members(announced)
  BY <1>1 DEF Taken, Members
<1>5. TypeOK' /\ Lists' /\ Cursor' /\ Past' /\ CleanStartRepairs'
  BY <1>1, <1>2, <1>3, <1>4
    DEF Inv, TypeOK, Lists, Cursor, Past, CleanStartRepairs, Ids
<1>6. AckedApplied' /\ AnnouncedApplied'
  BY <1>1, <1>3, <1>4 DEF Inv, AckedApplied, AnnouncedApplied
<1>. QED  BY <1>3, <1>5, <1>6 DEF Inv

(* A new event, a start that fails, a drain that cannot be read, a restart:*)
(* nothing is handled, and a restart forgets what it was handling.         *)
LEMMA OutsideInv ==
  Inv /\ (Publish \/ CreateGroupFails \/ DrainReadFails \/ Restart) => Inv'
<1>. SUFFICES ASSUME Inv, Publish \/ CreateGroupFails \/ DrainReadFails \/ Restart
     PROVE  Inv'
  OBVIOUS
<1>. USE DEF Publish, CreateGroupFails, DrainReadFails, Restart, Well, Fault, redisOut, group, loop
<1>1. /\ UNCHANGED <<first, delivered, pel, applied, cache, announced>>
      /\ length' = length \/ (length < Len(Kinds) /\ length' = length + 1)
  OBVIOUS
<1>2. /\ Taken' = Taken /\ Members(applied)' = Members(applied)
      /\ Members(announced)' = Members(announced)
  BY <1>1 DEF Taken, Members
<1>3. /\ length' \in 0 .. Len(Kinds) /\ first \in -1 .. length' /\ delivered \in 0 .. length'
  BY <1>1, IdsAreNumbers DEF Inv, TypeOK
<1>4. /\ reading' \subseteq pel /\ mode' \in {"start", "drain", "live", "dead"}
      /\ step' \in {"transact", "post", "ack"} /\ (reading' = {} => step' = "transact")
      /\ clean' \in BOOLEAN
  BY DEF Inv, TypeOK, Cursor, Lists
<1>5. TypeOK' /\ Lists' /\ AppliedOnce' /\ AckedApplied' /\ AnnouncedApplied'
  BY <1>1, <1>2, <1>3, <1>4
    DEF Inv, TypeOK, Lists, AppliedOnce, AckedApplied, AnnouncedApplied, Ids
<1>6. Cursor'
  <2>1. mode' \in {"drain", "live"} => mode \in {"drain", "live"}
    OBVIOUS
  <2>2. mode' \in {"start", "dead"} => reading' = {}
    BY DEF Inv, Cursor
  <2>. QED  BY <1>1, <2>1, <2>2 DEF Inv, Cursor
<1>7. Past'
  <2>1. CASE Publish
    BY <1>2, <2>1 DEF Inv, Past, Entry
  <2>2. CASE ~Publish
    BY <2>2 DEF Inv, TypeOK, Cursor, Past
  <2>. QED  BY <2>1, <2>2
<1>8. CleanStartRepairs'
  BY DEF Inv, CleanStartRepairs
<1>. QED  BY <1>5, <1>6, <1>7, <1>8 DEF Inv

LEMMA StepInv == Inv /\ [Next]_vars => Inv'
<1>. SUFFICES ASSUME Inv, [Next]_vars PROVE Inv'
  OBVIOUS
<1>1. CASE CreateGroup
  BY <1>1, CreateGroupInv
<1>2. CASE drainPending
  BY <1>2, DrainInv
<1>3. CASE processBatch
  BY <1>3, ReadInv
<1>4. CASE Skip
  BY <1>4, SkipInv
<1>5. CASE Apply
  BY <1>5, ApplyInv
<1>6. CASE PostProcess \/ PostProcessFails
  BY <1>6, PostProcessInv
<1>7. CASE Ack \/ AckFails
  BY <1>7, AckInv
<1>8. CASE Throw \/ ThrowPoison
  BY <1>8, ThrowInv
<1>9. CASE Publish \/ CreateGroupFails \/ DrainReadFails \/ Restart
  BY <1>9, OutsideInv
<1>10. CASE UNCHANGED vars
  <2>1. UNCHANGED <<length, first, delivered, pel, mode, reading, step, applied, cache,
                    announced, clean>>
    BY <1>10 DEF vars, group, loop, redisOut
  <2>2. /\ Taken' = Taken /\ Entry' = Entry /\ Members(applied)' = Members(applied)
        /\ Members(announced)' = Members(announced)
    BY <2>1 DEF Taken, Entry, Members
  <2>3. TypeOK' /\ Lists' /\ Cursor' /\ Past'
    BY <2>1, <2>2 DEF Inv, TypeOK, Lists, Cursor, Past, Ids
  <2>4. AppliedOnce' /\ AckedApplied' /\ AnnouncedApplied' /\ CleanStartRepairs'
    BY <2>1, <2>2 DEF Inv, AppliedOnce, AckedApplied, AnnouncedApplied, CleanStartRepairs
  <2>. QED  BY <2>3, <2>4 DEF Inv
<1>. QED
  BY <1>1, <1>2, <1>3, <1>4, <1>5, <1>6, <1>7, <1>8, <1>9, <1>10
    DEF Next, Consumer, Failure

(* All of it together is inductive.                                        *)
THEOREM Invariance == Spec => []Inv
<1>. QED  BY InitInv, StepInv, PTL DEF Spec

-----------------------------------------------------------------------------
(* Events come in order as long as they are new ones.                      *)

(* In the loop for new events, what is at hand is younger than everything  *)
(* that was applied or cached before.                                      *)
Fresh ==
  /\ Members(applied) \subseteq 1 .. delivered
  /\ mode = "live" => \A r \in reading : cache <= r /\ \A a \in Members(applied) : a <= r

(* Handling the first entry of a reply adds no younger one.                *)
LEMMA HandledFresh ==
  ASSUME Inv, Fresh, reading # {},
         Members(applied)' \subseteq Members(applied) \cup {Entry},
         cache' \in {cache, Entry},
         delivered' = delivered, reading' \subseteq reading,
         reading' # {} => mode' = mode
  PROVE  Fresh'
<1>1. Entry \in 1 .. delivered /\ \A r \in reading : Entry <= r
  BY EntryIsPending DEF Inv
<1>. QED  BY <1>1 DEF Fresh

LEMMA StepFresh == Inv /\ Fresh /\ [Next]_vars => Fresh'
<1>. SUFFICES ASSUME Inv, Fresh, [Next]_vars PROVE Fresh'
  OBVIOUS
<1>. USE DEF group, redisOut, loop
<1>1. CASE Skip \/ Ack \/ AckFails \/ ThrowPoison
  <2>1. /\ reading # {} /\ applied' = applied /\ cache' = cache
        /\ delivered' = delivered /\ reading' \subseteq reading
        /\ (reading' # {} => mode' = mode)
    BY <1>1 DEF Skip, Ack, AckFails, ThrowPoison, Aborted, Handling
  <2>2. Members(applied)' = Members(applied)
    BY <2>1 DEF Members
  <2>. QED  BY <2>1, <2>2, HandledFresh
<1>2. CASE Apply \/ Throw
  <2>1. /\ reading # {} /\ cache' = cache
        /\ delivered' = delivered /\ reading' \subseteq reading
        /\ (reading' # {} => mode' = mode)
        /\ applied' = applied \/ (New(Entry) /\ applied' = Append(applied, Entry))
    BY <1>2 DEF Apply, Throw, Aborted, Handling
  <2>2. Members(applied)' \subseteq Members(applied) \cup {Entry}
    <3>1. CASE applied' = applied
      BY <3>1 DEF Members
    <3>2. CASE New(Entry) /\ applied' = Append(applied, Entry)
      BY <2>1, <3>2, AppendingEntry DEF Members
    <3>. QED  BY <2>1, <3>1, <3>2
  <2>. QED  BY <2>1, <2>2, HandledFresh
<1>3. CASE PostProcess \/ PostProcessFails
  <2>1. /\ reading # {} /\ applied' = applied /\ cache' \in {cache, Entry}
        /\ delivered' = delivered /\ reading' = reading /\ mode' = mode
    BY <1>3 DEF PostProcess, PostProcessFails, Handling, Cached
  <2>2. Members(applied)' = Members(applied)
    BY <2>1 DEF Members
  <2>. QED  BY <2>1, <2>2, HandledFresh
<1>4. CASE processBatch
  <2>1. /\ delivered \in Nat /\ delivered' \in Nat /\ delivered <= delivered'
        /\ cache \in 0 .. delivered
    <3>1. length \in Nat /\ delivered \in Nat /\ delivered < length /\ Count \in Nat
      BY <1>4, IdsAreNumbers, CountAssumption DEF Inv, TypeOK, processBatch
    <3>2. delivered' = ReadTo
      BY <1>4 DEF processBatch
    <3>. QED  BY <3>1, <3>2 DEF Inv, TypeOK, ReadTo
  <2>2. reading' = delivered + 1 .. delivered' /\ cache' = cache /\ applied' = applied
    BY <1>4 DEF processBatch
  <2>3. Members(applied)' = Members(applied)
    BY <2>2 DEF Members
  <2>. QED  BY <2>1, <2>2, <2>3 DEF Fresh
<1>5. CASE CreateGroup \/ drainPending \/ CreateGroupFails \/ DrainReadFails \/ Restart
  <2>1. applied' = applied /\ (mode' = "live" => reading' = {})
    BY <1>5 DEF CreateGroup, drainPending, CreateGroupFails, DrainReadFails, Restart, FirstOf
  <2>2. delivered \in Nat /\ delivered' \in Nat /\ delivered <= delivered'
    BY <1>5
      DEF Inv, TypeOK, CreateGroup, drainPending, CreateGroupFails, DrainReadFails, Restart
  <2>3. Members(applied)' = Members(applied)
    BY <2>1 DEF Members
  <2>. QED  BY <2>1, <2>2, <2>3 DEF Fresh
<1>6. CASE Publish \/ UNCHANGED vars
  <2>1. UNCHANGED <<delivered, mode, reading, applied, cache>>
    BY <1>6 DEF Publish, vars
  <2>2. Members(applied)' = Members(applied)
    BY <2>1 DEF Members
  <2>. QED  BY <2>1, <2>2 DEF Fresh
<1>. QED  BY <1>1, <1>2, <1>3, <1>4, <1>5, <1>6 DEF Next, Consumer, Failure

THEOREM AlwaysFresh == Spec => []Fresh
<1>1. Init => Fresh
  BY DEF Init, Fresh, Members
<1>. QED  BY <1>1, StepFresh, Invariance, PTL DEF Spec

-----------------------------------------------------------------------------
(* The results.                                                            *)

(* Every variable stays in its range, and what is being handled is pending *)
(* and was given out.                                                      *)
THEOREM TypeCorrect == Spec => []TypeOK
<1>1. Inv => TypeOK
  BY DEF Inv
<1>. QED  BY <1>1, Invariance, PTL

(* No redelivery, lost answer or restart makes handleMessage apply an event*)
(* to the tables a second time.                                            *)
THEOREM EventsAppliedOnce == Spec => []AppliedOnce
<1>1. Inv => AppliedOnce
  BY DEF Inv
<1>. QED  BY <1>1, Invariance, PTL

(* XACK is only reached for an event whose transaction was committed.      *)
THEOREM NoEventLost == Spec => []AckedApplied
<1>1. Inv => AckedApplied
  BY DEF Inv
<1>. QED  BY <1>1, Invariance, PTL

(* The market and the order book cache never show what is not committed.   *)
THEOREM CommitsFirst == Spec => []AnnouncedApplied
<1>1. Inv => AnnouncedApplied
  BY DEF Inv
<1>. QED  BY <1>1, Invariance, PTL

(* A start in which nothing fails leaves nothing older pending.            *)
THEOREM RestartRepairs == Spec => []CleanStartRepairs
<1>1. Inv => CleanStartRepairs
  BY DEF Inv
<1>. QED  BY <1>1, Invariance, PTL

(* An older event is applied, or an older book cached, only in the drain.  *)
THEOREM InOrderWhenLive == Spec => ForwardWhenLive
<1>1. Inv /\ Fresh /\ [Next]_vars =>
        [mode = "live" =>
           /\ cache' >= cache
           /\ \A e \in Members(applied') \ Members(applied) : \A a \in Members(applied) : a < e]_vars
  <2>. SUFFICES ASSUME Inv, Fresh, Next, mode = "live"
       PROVE  /\ cache' >= cache
              /\ \A e \in Members(applied') \ Members(applied) : \A a \in Members(applied) : a < e
    OBVIOUS
  <2>. USE DEF group, redisOut, loop
  <2>1. /\ cache \in Nat
        /\ reading # {} => /\ Entry \in reading /\ Entry \in Nat
                           /\ cache <= Entry /\ \A a \in Members(applied) : a <= Entry
    BY EntryIsPending DEF Inv, TypeOK, Fresh
  <2>2. CASE Apply \/ Throw
    <3>1. /\ reading # {} /\ cache' = cache
          /\ applied' = applied \/ (New(Entry) /\ applied' = Append(applied, Entry))
      BY <2>2 DEF Apply, Throw, Handling
    <3>2. CASE applied' = applied
      BY <2>1, <3>1, <3>2
    <3>3. CASE New(Entry) /\ applied' = Append(applied, Entry)
      <4>1. Members(applied') = Members(applied) \cup {Entry} /\ Entry \notin Members(applied)
        BY <3>1, <3>3, AppendingEntry DEF New
      <4>2. \A a \in Members(applied) : a \in Nat /\ a <= Entry /\ a # Entry
        BY <2>1, <3>1, <4>1 DEF Fresh, Inv, TypeOK
      <4>. QED  BY <2>1, <3>1, <4>1, <4>2
    <3>. QED  BY <3>1, <3>2, <3>3
  <2>3. CASE PostProcess \/ PostProcessFails
    <3>1. reading # {} /\ applied' = applied /\ cache' \in {cache, Entry}
      BY <2>3 DEF PostProcess, PostProcessFails, Handling, Cached
    <3>. QED  BY <2>1, <3>1
  <2>4. CASE ~(Apply \/ Throw \/ PostProcess \/ PostProcessFails)
    <3>1. applied' = applied /\ cache' = cache
      BY <2>4
        DEF Next, Consumer, Failure, Publish, CreateGroup, drainPending, processBatch, Skip,
          ThrowPoison, Ack, CreateGroupFails, DrainReadFails, AckFails, Restart
    <3>. QED  BY <2>1, <3>1
  <2>. QED  BY <2>2, <2>3, <2>4
<1>. QED  BY <1>1, Invariance, AlwaysFresh, PTL DEF Spec, ForwardWhenLive

-----------------------------------------------------------------------------
(* The fan-out and the client.                                             *)


\* The fan-out has read what was announced and nothing else.
FanTypes ==
  /\ fanDelivered \in Nat /\ fanDelivered <= Len(announced)
  /\ fanReading \subseteq 1 .. fanDelivered
  /\ newest \in Nat /\ known \subseteq Ids

\* The cache is a book, and none that was announced is younger than the newest.
CachedBooks ==
  /\ cache # 0 => cache \in Books(Ids)
  /\ cache <= newest
  /\ \A e \in Books(Members(announced)) : e <= newest

EmittedAnnounced == emitted \subseteq Members(announced)

\* A read counts for a client that has joined.
ReadAfterJoin == bookRead \/ tradesRead => joined

FeedInv == Inv /\ FanTypes /\ CachedBooks /\ EmittedAnnounced /\ ReadAfterJoin /\ SyncedNotBehind

-----------------------------------------------------------------------------
(* Facts about a state.                                                    *)

LEMMA LargerOfTwo ==
  ASSUME NEW a \in Nat, NEW b \in Nat
  PROVE  Max({a, b}) \in Nat /\ Max({a, b}) >= a /\ Max({a, b}) >= b
<1>1. \E x \in {a, b} : \A y \in {a, b} : x >= y
  OBVIOUS
<1>2. Max({a, b}) \in {a, b} /\ \A y \in {a, b} : Max({a, b}) >= y
  BY <1>1 DEF Max
<1>. QED  BY <1>2

LEMMA SmallerOfTwo ==
  ASSUME NEW a \in Nat, NEW b \in Nat
  PROVE  Min({a, b}) \in Nat /\ Min({a, b}) <= a /\ Min({a, b}) <= b /\ Min({a, b}) \in {a, b}
<1>1. \E x \in {a, b} : \A y \in {a, b} : x <= y
  OBVIOUS
<1>2. Min({a, b}) \in {a, b} /\ \A y \in {a, b} : Min({a, b}) <= y
  BY <1>1 DEF Min
<1>. QED  BY <1>2

LEMMA SmallestOf ==
  ASSUME NEW S \in SUBSET Nat, S # {}
  PROVE  Min(S) \in S
<1>1. PICK x \in S : \A y \in S : <<y, x>> \notin OpToRel(<, Nat)
  BY WFMin, NatLessThanWellFounded
<1>2. \A y \in S : ~(y < x)
  BY <1>1 DEF OpToRel
<1>3. \A y \in S : x <= y
  BY <1>2
<1>. QED  BY <1>3 DEF Min

(* What is announced was applied, and is an entry of the stream.           *)
LEMMA AnnouncedEntries ==
  ASSUME Inv
  PROVE  /\ Len(announced) \in Nat /\ DOMAIN announced = 1 .. Len(announced)
         /\ Members(announced) \subseteq Ids /\ Members(announced) \subseteq Members(applied)
         /\ Members(applied) \subseteq Ids /\ Ids \subseteq Nat \ {0} /\ cache \in Nat
<1>1. applied \in Seq(Ids) /\ announced \in Seq(Ids) /\ cache \in Nat
  BY IdsAreNumbers DEF Inv, TypeOK, Lists
<1>2. /\ Len(announced) \in Nat /\ DOMAIN announced = 1 .. Len(announced)
      /\ Members(announced) \subseteq Ids /\ Members(applied) \subseteq Ids
  BY <1>1 DEF Members
<1>3. Members(announced) \subseteq Members(applied)
  BY DEF Inv, AnnouncedApplied
<1>. QED  BY <1>1, <1>2, <1>3, IdsAreNumbers

LEMMA FeedInitInv == FeedInit => FeedInv
<1>. SUFFICES ASSUME FeedInit PROVE FeedInv
  OBVIOUS
<1>1. Inv
  BY InitInv DEF FeedInit
<1>2. Members(announced) = {} /\ cache = 0
  BY DEF FeedInit, Init, Members
<1>. QED
  BY <1>1, <1>2 DEF FeedInit, Init, FeedInv, FanTypes, CachedBooks, EmittedAnnounced, ReadAfterJoin,
     SyncedNotBehind, Books, Trades

-----------------------------------------------------------------------------
(* The settled events.                                                     *)

(* A step of the event consumer announces at most the entry at hand, and a *)
(* book only when it is cached.                                            *)
LEMMA Announces ==
  ASSUME Inv, [Next]_vars
  PROVE  \/ announced' = announced /\ cache' = cache
         \/ /\ Entry \in Ids
            /\ announced' \in {announced, Append(announced, Entry)}
            /\ cache' \in {cache} \cup Books({Entry})
            /\ announced' # announced /\ Kinds[Entry] = "book" => cache' = Entry
<1>1. CASE PostProcess \/ PostProcessFails
  <2>1. Entry \in Ids
    BY <1>1, EntryIsPending DEF PostProcess, PostProcessFails, Handling, Inv
  <2>2. cache' \in {cache, Cached} /\ announced' \in {announced, Announced}
        /\ (announced' = announced \/ cache' = Cached)
    BY <1>1 DEF PostProcess, PostProcessFails
  <2>. QED  BY <2>1, <2>2 DEF Cached, Announced, Books
<1>2. CASE ~(PostProcess \/ PostProcessFails)
  <2>1. CASE Publish \/ CreateGroup \/ drainPending \/ processBatch \/ Skip \/ Apply \/ ThrowPoison \/ Ack
    BY <2>1 DEF Publish, CreateGroup, drainPending, processBatch, Skip, Apply, ThrowPoison, Ack, redisOut
  <2>2. CASE CreateGroupFails \/ DrainReadFails \/ Throw \/ AckFails \/ Restart
    BY <2>2 DEF CreateGroupFails, DrainReadFails, Throw, AckFails, Restart, redisOut
  <2>3. CASE UNCHANGED vars
    BY <2>3 DEF vars, redisOut
  <2>. QED  BY <1>2, <2>1, <2>2, <2>3 DEF Next, Consumer, Failure
<1>. QED  BY <1>1, <1>2

LEMMA MembersGrow ==
  ASSUME Inv, [Next]_vars
  PROVE  /\ Len(announced) <= Len(announced') /\ Members(announced) \subseteq Members(announced')
         /\ Members(announced') \subseteq Members(announced) \cup {Entry}
         /\ announced' = announced => Members(announced') = Members(announced)
<1>1. CASE announced' = announced
  BY <1>1, AnnouncedEntries DEF Members
<1>2. CASE announced' = Append(announced, Entry) /\ Entry \in Ids
  <2>1. announced \in Seq(Ids) /\ Len(announced) \in Nat
    BY DEF Inv, Lists
  <2>2. Len(announced') = Len(announced) + 1
    BY <1>2, <2>1, AppendProperties
  <2>3. Members(announced') = Members(announced) \cup {Entry}
    BY <1>2, <2>1, Appended
  <2>. QED  BY <2>1, <2>2, <2>3
<1>. QED  BY <1>1, <1>2, Announces

LEMMA SettlingInv ==
  ASSUME FeedInv, [Next]_vars, newest' = Max({newest, cache'}), UNCHANGED emitted,
         fanDelivered' = fanDelivered, fanReading' \subseteq fanReading,
         UNCHANGED client \/ Left
  PROVE  FeedInv'
<1>1. Inv'
  BY StepInv DEF FeedInv
<1>2. newest' \in Nat /\ newest' >= newest /\ newest' >= cache' /\ newest \in Nat
  BY <1>1, AnnouncedEntries, LargerOfTwo DEF FeedInv, FanTypes, Inv, TypeOK
<1>3. /\ Len(announced) <= Len(announced') /\ Members(announced) \subseteq Members(announced')
      /\ Len(announced) \in Nat /\ Len(announced') \in Nat
  BY <1>1, MembersGrow, AnnouncedEntries DEF FeedInv, Inv, Lists
<1>4. FanTypes'
  BY <1>2, <1>3 DEF FeedInv, FanTypes, client, Left
<1>5. CachedBooks'
  <2>1. cache' # 0 => cache' \in Books(Ids)
    BY Announces DEF FeedInv, CachedBooks, Books
  <2>2. ASSUME NEW e \in Books(Members(announced')) PROVE e <= newest'
    <3>1. CASE e \in Members(announced)
      BY <1>2, <2>2, <3>1, AnnouncedEntries DEF FeedInv, CachedBooks, Books
    <3>2. CASE e \notin Members(announced)
      BY <1>2, <2>2, <3>2, MembersGrow, Announces DEF FeedInv, Books
    <3>. QED  BY <3>1, <3>2
  <2>. QED  BY <1>2, <2>1, <2>2 DEF CachedBooks, Books
<1>6. EmittedAnnounced'
  BY <1>3 DEF FeedInv, EmittedAnnounced
<1>7. ReadAfterJoin' /\ SyncedNotBehind'
  BY DEF FeedInv, ReadAfterJoin, SyncedNotBehind, Books, Trades, client, Left
<1>. QED  BY <1>1, <1>4, <1>5, <1>6, <1>7 DEF FeedInv

-----------------------------------------------------------------------------
(* The fan-out and the client leave the event consumer alone; a failure of *)
(* theirs is one of the process.                                           *)

LEMMA ConsumerLeft ==
  ASSUME Inv, UNCHANGED <<length, group, loop, applied, redisOut>>, clean' \in {clean, FALSE}
  PROVE  Inv' /\ announced' = announced /\ cache' = cache
<1>1. /\ UNCHANGED <<length, first, delivered, pel, mode, reading, step, applied, cache, announced>>
      /\ clean' \in {clean, FALSE}
  BY DEF group, loop, redisOut
<1>2. UNCHANGED <<Taken, Entry, Members(applied), Members(announced)>>
  BY <1>1 DEF Taken, Entry
<1>3. TypeOK' /\ Lists' /\ Cursor' /\ Past'
  BY <1>1, <1>2 DEF Inv, TypeOK, Lists, Cursor, Past
<1>4. AppliedOnce' /\ AckedApplied' /\ AnnouncedApplied'
  BY <1>1, <1>2 DEF Inv, AppliedOnce, AckedApplied, AnnouncedApplied, Members
<1>5. CleanStartRepairs'
  BY <1>1 DEF Inv, CleanStartRepairs
<1>. QED  BY <1>1, <1>3, <1>4, <1>5 DEF Inv

LEMMA ReadsOn ==
  ASSUME FeedInv, FanCreateGroup \/ FanCreateGroupFails \/ FanRead \/ FanReadFails
  PROVE  FeedInv'
<1>1. Inv' /\ announced' = announced /\ cache' = cache
  BY ConsumerLeft DEF FeedInv, FanCreateGroup, FanCreateGroupFails, FanRead, FanReadFails, Fault, vars
<1>2. UNCHANGED <<joined, known, bookRead, tradesRead, emitted, newest>>
  BY DEF FanCreateGroup, FanCreateGroupFails, FanRead, FanReadFails, client
<1>3. Len(announced) \in Nat
  BY AnnouncedEntries DEF FeedInv
<1>4. FanTypes'
  <2>1. CASE FanCreateGroup \/ FanCreateGroupFails
    <3>1. fanDelivered' \in {fanDelivered, Len(announced)} /\ fanReading' = fanReading
      BY <2>1 DEF FanCreateGroup, FanCreateGroupFails
    <3>. QED  BY <1>1, <1>2, <1>3, <3>1 DEF FeedInv, FanTypes
  <2>2. CASE FanRead \/ FanReadFails
    <3>1. FanCount \in Nat /\ fanDelivered \in Nat /\ fanDelivered + FanCount \in Nat
      BY FanCountAssumption DEF FeedInv, FanTypes
    <3>2. /\ fanDelivered' = Min({fanDelivered + FanCount, Len(announced)})
          /\ fanReading' = fanDelivered + 1 .. fanDelivered' \/ fanReading' = {}
      BY <2>2 DEF FanRead, FanReadFails
    <3>3. fanDelivered' \in Nat /\ fanDelivered' <= Len(announced)
      BY <1>3, <3>1, <3>2, SmallerOfTwo
    <3>4. fanReading' \subseteq 1 .. fanDelivered'
      BY <3>1, <3>2, <3>3
    <3>. QED  BY <1>1, <1>2, <3>3, <3>4 DEF FeedInv, FanTypes
  <2>. QED  BY <2>1, <2>2
<1>5. CachedBooks' /\ EmittedAnnounced' /\ ReadAfterJoin' /\ SyncedNotBehind'
  BY <1>1, <1>2 DEF FeedInv, CachedBooks, EmittedAnnounced, ReadAfterJoin, SyncedNotBehind, Books,
     Trades, Members
<1>. QED  BY <1>1, <1>4, <1>5 DEF FeedInv

LEMMA Broadcasts ==
  ASSUME FeedInv, Broadcast \/ BroadcastAckFails
  PROVE  FeedInv'
<1>. DEFINE e == announced[Min(fanReading)]
<1>1. Inv' /\ announced' = announced /\ cache' = cache
  BY ConsumerLeft DEF FeedInv, Broadcast, BroadcastAckFails, Fault, vars
<1>2. /\ emitted' = emitted \cup {e} /\ known' = (IF joined THEN known \cup {e} ELSE known)
      /\ fanReading' \subseteq fanReading /\ UNCHANGED <<fanDelivered, joined, bookRead, tradesRead, newest>>
  BY DEF Broadcast, BroadcastAckFails, Emit
<1>3. e \in Members(announced) /\ e \in Ids
  <2>1. fanReading \subseteq 1 .. Len(announced) /\ fanReading \subseteq Nat /\ fanReading # {}
    BY AnnouncedEntries DEF FeedInv, FanTypes, Broadcast, BroadcastAckFails
  <2>2. Min(fanReading) \in 1 .. Len(announced)
    BY <2>1, SmallestOf
  <2>. QED  BY <2>2, AnnouncedEntries DEF FeedInv, Members
<1>. HIDE DEF e
<1>4. FanTypes'
  BY <1>1, <1>2, <1>3 DEF FeedInv, FanTypes
<1>5. CachedBooks' /\ EmittedAnnounced' /\ ReadAfterJoin'
  BY <1>1, <1>2, <1>3 DEF FeedInv, CachedBooks, EmittedAnnounced, ReadAfterJoin, Books, Members
<1>6. bookRead' => \A b \in Books(emitted') : \E k \in Books(known') : k >= b
  <2>. SUFFICES ASSUME bookRead, NEW b \in Books(emitted')
                PROVE  \E k \in Books(known') : k >= b
    BY <1>2
  <2>1. known' = known \cup {e}
    BY <1>2 DEF FeedInv, ReadAfterJoin
  <2>2. CASE b \in emitted
    BY <2>1, <2>2 DEF FeedInv, SyncedNotBehind, Books
  <2>3. CASE b = e
    <3>1. e \in Books(known') /\ e >= e
      BY <1>3, <2>1, <2>3, IdsAreNumbers DEF Books
    <3>. QED  BY <2>3, <3>1
  <2>. QED  BY <1>2, <2>2, <2>3 DEF Books
<1>7. tradesRead' => Trades(emitted') \subseteq known'
  BY <1>2 DEF FeedInv, SyncedNotBehind, ReadAfterJoin, Trades
<1>. QED  BY <1>1, <1>4, <1>5, <1>6, <1>7 DEF FeedInv, SyncedNotBehind

LEMMA ClientActs ==
  ASSUME FeedInv, handleSubscribe \/ handleUnsubscribe \/ getOrderBook \/ getRecentTrades
  PROVE  FeedInv'
<1>1. /\ Inv' /\ announced' = announced /\ cache' = cache
      /\ UNCHANGED <<fanDelivered, fanReading, emitted, newest>>
  BY ConsumerLeft DEF FeedInv, handleSubscribe, handleUnsubscribe, getOrderBook, getRecentTrades, vars, fan
<1>2. known' \subseteq Ids
  <2>1. {cache} \ {0} \subseteq Ids /\ Trades(Members(applied)) \subseteq Ids /\ known \subseteq Ids
    BY AnnouncedEntries DEF FeedInv, CachedBooks, FanTypes, Books, Trades
  <2>. QED  BY <2>1 DEF handleSubscribe, handleUnsubscribe, getOrderBook, getRecentTrades, Left
<1>3. FanTypes' /\ CachedBooks' /\ EmittedAnnounced'
  BY <1>1, <1>2 DEF FeedInv, FanTypes, CachedBooks, EmittedAnnounced, Books, Members
<1>4. ReadAfterJoin'
  BY DEF FeedInv, ReadAfterJoin, handleSubscribe, handleUnsubscribe, getOrderBook, getRecentTrades, Left
<1>5. SyncedNotBehind'
  <2>1. CASE handleSubscribe \/ handleUnsubscribe
    BY <1>1, <2>1 DEF FeedInv, SyncedNotBehind, handleSubscribe, handleUnsubscribe, Left, Books, Trades
  <2>2. CASE getOrderBook
    <3>1. known \subseteq known' /\ UNCHANGED <<emitted, tradesRead>>
      BY <2>2 DEF getOrderBook
    <3>2. CASE bookRead
      BY <3>1, <3>2 DEF FeedInv, SyncedNotBehind, Books
    <3>3. CASE cache = newest
      <4>1. \A b \in Books(emitted) : b <= cache /\ b \in Nat \ {0}
        BY <3>3, AnnouncedEntries DEF FeedInv, CachedBooks, EmittedAnnounced, Books
      <4>2. cache # 0 => cache \in Books(known')
        BY <2>2 DEF getOrderBook, FeedInv, CachedBooks, Books
      <4>3. \A b \in Books(emitted) : \E k \in Books(known') : k >= b
        BY <4>1, <4>2, AnnouncedEntries DEF FeedInv
      <4>. QED  BY <3>1, <4>3 DEF FeedInv, SyncedNotBehind, Books
    <3>4. CASE ~bookRead'
      BY <3>1, <3>4 DEF FeedInv, SyncedNotBehind
    <3>. QED  BY <2>2, <3>2, <3>3, <3>4 DEF getOrderBook
  <2>3. CASE getRecentTrades
    <3>1. known' = known \cup Trades(Members(applied)) /\ UNCHANGED <<emitted, bookRead>>
      BY <2>3 DEF getRecentTrades
    <3>2. Trades(emitted) \subseteq known'
      BY <3>1, AnnouncedEntries DEF FeedInv, EmittedAnnounced, Trades
    <3>. QED  BY <3>1, <3>2 DEF FeedInv, SyncedNotBehind, Books, Trades
  <2>. QED  BY <2>1, <2>2, <2>3
<1>. QED  BY <1>1, <1>3, <1>4, <1>5 DEF FeedInv

LEMMA FeedNextInv == FeedInv /\ [FeedNext]_feedVars => FeedInv'
<1>. SUFFICES ASSUME FeedInv, [FeedNext]_feedVars PROVE FeedInv'
  OBVIOUS
<1>1. CASE Settling
  <2>1. [Next]_vars
    BY <1>1, Zenon DEF Settling, Next, Failure
  <2>. QED  BY <1>1, <2>1, SettlingInv DEF Settling, fan
<1>2. CASE RestartAll
  <2>1. [Next]_vars
    BY <1>2, Zenon DEF RestartAll, Next, Failure
  <2>2. newest' = Max({newest, cache'})
    <3>1. cache' = cache /\ newest' = newest /\ cache <= newest /\ cache \in Nat /\ newest \in Nat
      BY <1>2, AnnouncedEntries DEF RestartAll, Restart, redisOut, FeedInv, CachedBooks, FanTypes
    <3>2. Max({newest, cache}) = newest
      BY <3>1 DEF Max
    <3>. QED  BY <3>1, <3>2
  <2>. QED  BY <1>2, <2>1, <2>2, SettlingInv DEF RestartAll
<1>3. CASE FanOut \/ FanCreateGroupFails \/ FanReadFails \/ BroadcastAckFails
  BY <1>3, ReadsOn, Broadcasts DEF FanOut
<1>4. CASE handleSubscribe \/ handleUnsubscribe \/ getOrderBook \/ getRecentTrades
  BY <1>4, ClientActs
<1>5. CASE UNCHANGED feedVars
  <2>1. Inv' /\ announced' = announced /\ cache' = cache
    BY <1>5, ConsumerLeft DEF FeedInv, feedVars, vars
  <2>2. UNCHANGED <<fanDelivered, fanReading, joined, known, bookRead, tradesRead, emitted, newest>>
    BY <1>5 DEF feedVars, fan, client
  <2>. QED
    BY <2>1, <2>2 DEF FeedInv, FanTypes, CachedBooks, EmittedAnnounced, ReadAfterJoin, SyncedNotBehind,
       Books, Trades, Members
<1>. QED  BY <1>1, <1>2, <1>3, <1>4, <1>5, Zenon DEF FeedNext

-----------------------------------------------------------------------------
(* The result.                                                             *)

(* A client that joins the rooms and then reads knows a book at least as   *)
(* new as each that was broadcast, and every trade that was.               *)
THEOREM JoinedClientInSync == FeedSpec => []SyncedNotBehind
<1>1. FeedInv => SyncedNotBehind
  BY DEF FeedInv
<1>. QED  BY <1>1, FeedInitInv, FeedNextInv, PTL DEF FeedSpec

=============================================================================
