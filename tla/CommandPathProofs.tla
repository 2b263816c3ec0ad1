------------------------- MODULE CommandPathProofs -------------------------
(***************************************************************************)
(* Proofs about the numbering of commands, for any number of orders,       *)
(* wallets, retries, failures and rows in a batch.                         *)
(***************************************************************************)
EXTENDS CommandPath, SequenceTheorems, FiniteSetTheorems, TLAPS

Statuses == {"PENDING", "PUBLISHED", "FAILED"}
Rows == [type : {"PlaceOrder", "CancelOrder"}, order : OrderIds, status : Statuses, retries : Nat]
Opening == [type : {"OpenMarket"}, status : Statuses, retries : Nat]

TxTypes ==
  /\ place \in [OrderIds -> {"idle", "funded", "numbered", "inserted", "queued", "committed", "aborted"}]
  /\ cancel \in [OrderIds -> {"idle", "locked", "queued", "committed"}]
  /\ wallet \in [OrderIds -> Wallets]
  /\ orderSeq \in [OrderIds -> Nat] /\ placeSeq \in [OrderIds -> Nat] /\ cancelSeq \in [OrderIds -> Nat]
  /\ lastOrder \in Nat /\ lastCommand \in Nat
  /\ commits \in Seq(Nat)

OutboxTypes ==
  /\ outbox = [n \in DOMAIN outbox |-> outbox[n]]
  /\ \A n \in DOMAIN outbox : outbox[n] \in Rows \cup Opening
  /\ \A n \in DOMAIN outbox : n \in Nat /\ n <= lastCommand

\* The numbers were drawn from the sequences.
Drawn == \A o \in OrderIds : orderSeq[o] <= lastOrder /\ placeSeq[o] <= lastCommand

\* The lock on its row lets one placing transaction at a time have a wallet.
WalletsHeld == \A x, y \in Funding : wallet[x] = wallet[y] => x = y

\* A transaction draws its orderSequence after those that had the wallet before.
DrawnLater ==
  \A x, y \in OrderIds :
    /\ wallet[x] = wallet[y]
    /\ place[x] = "committed" /\ place[y] \in {"numbered", "inserted", "queued"}
    => orderSeq[x] < orderSeq[y]

\* WalletInOrder, for the commands that are numbered and not committed too.
NumberedInOrder ==
  \A x, y \in OrderIds :
    /\ wallet[x] = wallet[y] /\ orderSeq[x] < orderSeq[y]
    /\ place[x] \in {"queued", "committed"} /\ place[y] \in {"queued", "committed"}
    => placeSeq[x] < placeSeq[y]

WalletInv == TxTypes /\ Drawn /\ WalletsHeld /\ DrawnLater /\ NumberedInOrder

\* The pair's row is locked by one cancel, or shared by inserted orders.
PairHeld ==
  /\ \A x, y \in Cancelling : x = y
  /\ Cancelling = {} \/ SharingPair = {}

\* A number is one transaction's.
NumbersApart ==
  \A x, y \in OrderIds :
    place[x] = "queued" /\ place[y] = "queued" /\ placeSeq[x] = placeSeq[y] => x = y

\* What committed after a placing transaction drew its number places an order too.
PlacesBehind ==
  \A o \in OrderIds : place[o] = "queued" =>
    /\ placeSeq[o] \notin DOMAIN outbox
    /\ \A n \in DOMAIN outbox : n > placeSeq[o] => outbox[n].type = "PlaceOrder"

\* A cancel that has its number is behind everything committed.
CancelBehind ==
  \A o \in OrderIds : cancel[o] = "queued" =>
    /\ cancelSeq[o] \in Nat /\ cancelSeq[o] <= lastCommand
    /\ \A n \in DOMAIN outbox : n < cancelSeq[o]

CommittedRows == \A i \in 1 .. Len(commits) : commits[i] \in DOMAIN outbox

PairInv ==
  /\ TxTypes /\ OutboxTypes /\ Drawn
  /\ PairHeld /\ NumbersApart /\ PlacesBehind /\ CancelBehind /\ CommittedRows /\ CancelsInOrder

\* What the poller holds is committed, and in the stream once it was sent.
Batch ==
  /\ batch \in Seq(Nat) /\ \A i \in 1 .. Len(batch) : batch[i] \in DOMAIN outbox
  /\ stream \in Seq(Nat) /\ sent \in BOOLEAN
  /\ sent => batch # <<>> /\ InStream(Head(batch))

HonestInv == PairInv /\ Batch /\ OutboxHonest

-----------------------------------------------------------------------------
(* The wallets.                                                            *)

LEMMA WalletInit == Init => WalletInv
BY DEF Init, WalletInv, TxTypes, Drawn, WalletsHeld, DrawnLater, NumberedInOrder, Funding

\* A step that leaves the placing transactions alone.
LEMMA WalletKept ==
  ASSUME WalletInv, TxTypes', UNCHANGED <<place, wallet, orderSeq, placeSeq, lastOrder>>,
         lastCommand <= lastCommand'
  PROVE  WalletInv'
<1>1. Drawn'
  BY DEF WalletInv, TxTypes, Drawn
<1>. QED
  BY <1>1 DEF WalletInv, WalletsHeld, DrawnLater, NumberedInOrder, Funding

LEMMA WalletLock ==
  ASSUME WalletInv, NEW o \in OrderIds, LockWallet(o)
  PROVE  WalletInv'
<1>1. TxTypes' /\ Drawn'
  BY DEF WalletInv, TxTypes, Drawn, LockWallet
<1>2. WalletsHeld'
  BY DEF WalletInv, TxTypes, WalletsHeld, Funding, LockWallet
<1>3. DrawnLater' /\ NumberedInOrder'
  BY DEF WalletInv, TxTypes, DrawnLater, NumberedInOrder, LockWallet
<1>. QED  BY <1>1, <1>2, <1>3 DEF WalletInv

LEMMA WalletNumber ==
  ASSUME WalletInv, NEW o \in OrderIds, nextOrderSequence(o)
  PROVE  WalletInv'
<1>1. TxTypes' /\ Drawn'
  BY DEF WalletInv, TxTypes, Drawn, nextOrderSequence
<1>2. WalletsHeld'
  BY DEF WalletInv, TxTypes, WalletsHeld, Funding, nextOrderSequence
<1>3. DrawnLater'
  BY DEF WalletInv, TxTypes, Drawn, DrawnLater, nextOrderSequence
<1>4. NumberedInOrder'
  BY DEF WalletInv, TxTypes, NumberedInOrder, nextOrderSequence
<1>. QED  BY <1>1, <1>2, <1>3, <1>4 DEF WalletInv

LEMMA WalletInsert ==
  ASSUME WalletInv, NEW o \in OrderIds, InsertOrder(o)
  PROVE  WalletInv'
<1>1. TxTypes' /\ Drawn'
  BY DEF WalletInv, TxTypes, Drawn, InsertOrder
<1>2. WalletsHeld'
  BY DEF WalletInv, TxTypes, WalletsHeld, Funding, InsertOrder
<1>3. DrawnLater' /\ NumberedInOrder'
  BY DEF WalletInv, TxTypes, DrawnLater, NumberedInOrder, InsertOrder
<1>. QED  BY <1>1, <1>2, <1>3 DEF WalletInv

\* The new number is the largest, and no other order of the wallet that has
\* one drew its orderSequence later.
LEMMA WalletQueue ==
  ASSUME WalletInv, NEW o \in OrderIds, QueuePlace(o)
  PROVE  WalletInv'
<1>1. TxTypes' /\ Drawn'
  BY DEF WalletInv, TxTypes, Drawn, QueuePlace
<1>2. WalletsHeld'
  BY DEF WalletInv, TxTypes, WalletsHeld, Funding, QueuePlace
<1>3. DrawnLater'
  BY DEF WalletInv, TxTypes, DrawnLater, QueuePlace
<1>4. NumberedInOrder'
  <2>. SUFFICES ASSUME NEW x \in OrderIds, NEW y \in OrderIds,
                       wallet'[x] = wallet'[y], orderSeq'[x] < orderSeq'[y],
                       place'[x] \in {"queued", "committed"}, place'[y] \in {"queued", "committed"}
                PROVE  placeSeq'[x] < placeSeq'[y]
    BY DEF NumberedInOrder
  <2>1. x # y
    BY DEF WalletInv, TxTypes, QueuePlace
  <2>2. CASE y = o
    BY <2>1, <2>2 DEF WalletInv, TxTypes, Drawn, QueuePlace
  <2>3. CASE x = o
    <3>1. place[y] \in {"queued", "committed"} /\ place[x] = "inserted" /\ wallet[x] = wallet[y]
          /\ orderSeq[x] < orderSeq[y]
      BY <2>1, <2>3 DEF WalletInv, TxTypes, QueuePlace
    <3>2. CASE place[y] = "queued"
      BY <2>1, <3>1, <3>2 DEF WalletInv, WalletsHeld, Funding
    <3>3. CASE place[y] = "committed"
      <4>1. orderSeq[y] < orderSeq[x]
        BY <3>1, <3>3 DEF WalletInv, DrawnLater
      <4>. QED  BY <3>1, <4>1 DEF WalletInv, TxTypes
    <3>. QED  BY <3>1, <3>2, <3>3
  <2>4. CASE x # o /\ y # o
    BY <2>4 DEF WalletInv, TxTypes, NumberedInOrder, QueuePlace
  <2>. QED  BY <2>2, <2>3, <2>4
<1>. QED  BY <1>1, <1>2, <1>3, <1>4 DEF WalletInv

LEMMA WalletCommit ==
  ASSUME WalletInv, NEW o \in OrderIds, CommitPlace(o)
  PROVE  WalletInv'
<1>1. TxTypes' /\ Drawn'
  BY DEF WalletInv, TxTypes, Drawn, CommitPlace
<1>2. WalletsHeld'
  BY DEF WalletInv, TxTypes, WalletsHeld, Funding, CommitPlace
<1>3. DrawnLater'
  BY DEF WalletInv, TxTypes, WalletsHeld, DrawnLater, Funding, CommitPlace
<1>4. NumberedInOrder'
  BY DEF WalletInv, TxTypes, NumberedInOrder, CommitPlace
<1>. QED  BY <1>1, <1>2, <1>3, <1>4 DEF WalletInv

LEMMA WalletAbort ==
  ASSUME WalletInv, NEW o \in OrderIds, AbortPlace(o)
  PROVE  WalletInv'
<1>1. TxTypes' /\ Drawn'
  BY DEF WalletInv, TxTypes, Drawn, AbortPlace
<1>2. WalletsHeld'
  BY DEF WalletInv, TxTypes, WalletsHeld, Funding, AbortPlace
<1>3. DrawnLater' /\ NumberedInOrder'
  BY DEF WalletInv, TxTypes, DrawnLater, NumberedInOrder, AbortPlace
<1>. QED  BY <1>1, <1>2, <1>3 DEF WalletInv

LEMMA PollerLeaves == Poller \/ Retry \/ Abandon \/ RetryTime => UNCHANGED txVars
<1>1. Fetch \/ Add \/ Mark => UNCHANGED txVars
  BY Zenon DEF Fetch, Add, Mark
<1>2. Retry \/ Abandon \/ RetryTime => UNCHANGED txVars
  BY Zenon DEF Retry, Abandon, RetryTime
<1>. QED  BY <1>1, <1>2, Zenon DEF Poller

LEMMA WalletNext == WalletInv /\ [Next]_vars => WalletInv'
<1>. SUFFICES ASSUME WalletInv, [Next]_vars PROVE WalletInv'
  OBVIOUS
<1>1. ASSUME NEW o \in OrderIds, LockWallet(o) PROVE WalletInv'
  BY <1>1, WalletLock
<1>2. ASSUME NEW o \in OrderIds, nextOrderSequence(o) PROVE WalletInv'
  BY <1>2, WalletNumber
<1>3. ASSUME NEW o \in OrderIds, InsertOrder(o) PROVE WalletInv'
  BY <1>3, WalletInsert
<1>4. ASSUME NEW o \in OrderIds, QueuePlace(o) PROVE WalletInv'
  BY <1>4, WalletQueue
<1>5. ASSUME NEW o \in OrderIds, CommitPlace(o) PROVE WalletInv'
  BY <1>5, WalletCommit
<1>6. ASSUME NEW o \in OrderIds, AbortPlace(o) PROVE WalletInv'
  BY <1>6, WalletAbort
<1>7. ASSUME NEW o \in OrderIds, LockOrderAndPair(o) PROVE WalletInv'
  <2>1. TxTypes' /\ UNCHANGED <<place, wallet, orderSeq, placeSeq, lastOrder>> /\ lastCommand <= lastCommand'
    BY <1>7 DEF WalletInv, TxTypes, LockOrderAndPair
  <2>. QED  BY <2>1, WalletKept
<1>8. ASSUME NEW o \in OrderIds, QueueCancel(o) PROVE WalletInv'
  <2>1. TxTypes' /\ UNCHANGED <<place, wallet, orderSeq, placeSeq, lastOrder>> /\ lastCommand <= lastCommand'
    BY <1>8 DEF WalletInv, TxTypes, QueueCancel
  <2>. QED  BY <2>1, WalletKept
<1>9. ASSUME NEW o \in OrderIds, CommitCancel(o) PROVE WalletInv'
  <2>1. TxTypes' /\ UNCHANGED <<place, wallet, orderSeq, placeSeq, lastOrder>> /\ lastCommand <= lastCommand'
    BY <1>9 DEF WalletInv, TxTypes, CommitCancel
  <2>. QED  BY <2>1, WalletKept
<1>10. ASSUME NEW o \in OrderIds, AbortCancel(o) PROVE WalletInv'
  <2>1. TxTypes' /\ UNCHANGED <<place, wallet, orderSeq, placeSeq, lastOrder>> /\ lastCommand <= lastCommand'
    BY <1>10 DEF WalletInv, TxTypes, AbortCancel
  <2>. QED  BY <2>1, WalletKept
<1>11. CASE UNCHANGED txVars
  <2>1. TxTypes' /\ UNCHANGED <<place, wallet, orderSeq, placeSeq, lastOrder>> /\ lastCommand <= lastCommand'
    BY <1>11 DEF WalletInv, TxTypes, txVars
  <2>. QED  BY <2>1, WalletKept
<1>12. CASE Transaction
  BY <1>1, <1>2, <1>3, <1>4, <1>5, <1>6, <1>7, <1>8, <1>9, <1>10, <1>12, Zenon DEF Transaction
<1>13. CASE UNCHANGED vars
  BY <1>11, <1>13 DEF vars
<1>. QED
  BY <1>11, <1>12, <1>13, PollerLeaves, Zenon DEF Next

-----------------------------------------------------------------------------
(* The pair's row.                                                         *)

LEMMA PairInit == Init => PairInv
<1>. SUFFICES ASSUME Init PROVE PairInv
  OBVIOUS
<1>1. TxTypes
  BY DEF Init, TxTypes
<1>2. DOMAIN outbox = {1} /\ outbox[1] = OpenMarket /\ outbox = [n \in {1} |-> OpenMarket]
  BY DEF Init
<1>3. OpenMarket \in Opening
  BY DEF OpenMarket, Opening, Statuses
<1>4. OutboxTypes
  BY <1>2, <1>3 DEF OutboxTypes, Init
<1>5. Drawn /\ PairHeld /\ NumbersApart /\ PlacesBehind /\ CancelBehind
  BY DEF Init, Drawn, PairHeld, NumbersApart, PlacesBehind, CancelBehind, Cancelling
<1>6. Len(commits) = 1 /\ commits[1] = 1
  BY DEF Init
<1>7. CommittedRows /\ CancelsInOrder
  BY <1>2, <1>6 DEF CommittedRows, CancelsInOrder
<1>. QED  BY <1>1, <1>4, <1>5, <1>7 DEF PairInv

\* Rows keep their type when they are marked or have failed.
LEMMA MarkedRow ==
  ASSUME NEW r \in Rows \cup Opening
  PROVE  /\ Published(r) \in Rows \cup Opening /\ Published(r).type = r.type
         /\ BackedOff(r) \in Rows \cup Opening /\ BackedOff(r).type = r.type
<1>. DEFINE next == IF r.retries + 1 >= MaxRetries THEN "FAILED" ELSE r.status
            tried == [r EXCEPT !.retries = r.retries + 1]
<1>3. BackedOff(r) = [tried EXCEPT !.status = next]
  BY Zenon DEF BackedOff
<1>1. CASE r \in Rows
  <2>1. /\ r = [type |-> r.type, order |-> r.order, status |-> r.status, retries |-> r.retries]
        /\ r.type \in {"PlaceOrder", "CancelOrder"} /\ r.order \in OrderIds
        /\ r.status \in Statuses /\ r.retries \in Nat
    BY <1>1 DEF Rows
  <2>2. Published(r) = [type |-> r.type, order |-> r.order, status |-> "PUBLISHED", retries |-> r.retries]
    BY <2>1 DEF Published
  <2>3. BackedOff(r) = [type |-> r.type, order |-> r.order, status |-> next, retries |-> r.retries + 1]
    <3>1. tried = [type |-> r.type, order |-> r.order, status |-> r.status, retries |-> r.retries + 1]
      BY <2>1
    <3>. HIDE DEF tried, next
    <3>. QED  BY <1>3, <3>1
  <2>4. next \in Statuses /\ "PUBLISHED" \in Statuses /\ r.retries + 1 \in Nat
    BY <2>1 DEF Statuses
  <2>. HIDE DEF next
  <2>. QED  BY <2>1, <2>2, <2>3, <2>4 DEF Rows
<1>2. CASE r \in Opening
  <2>1. /\ r = [type |-> r.type, status |-> r.status, retries |-> r.retries]
        /\ r.type = "OpenMarket" /\ r.status \in Statuses /\ r.retries \in Nat
    BY <1>2 DEF Opening
  <2>2. Published(r) = [type |-> r.type, status |-> "PUBLISHED", retries |-> r.retries]
    BY <2>1 DEF Published
  <2>3. BackedOff(r) = [type |-> r.type, status |-> next, retries |-> r.retries + 1]
    <3>1. tried = [type |-> r.type, status |-> r.status, retries |-> r.retries + 1]
      BY <2>1
    <3>. HIDE DEF tried, next
    <3>. QED  BY <1>3, <3>1
  <2>4. next \in Statuses /\ "PUBLISHED" \in Statuses /\ r.retries + 1 \in Nat
    BY <2>1 DEF Statuses
  <2>. HIDE DEF next
  <2>. QED  BY <2>1, <2>2, <2>3, <2>4 DEF Opening
<1>. QED  BY <1>1, <1>2

\* A failed attempt leaves a row's status or gives the row up.
LEMMA BackedOffStatus ==
  ASSUME NEW r \in Rows \cup Opening
  PROVE  BackedOff(r).status \in {r.status, "FAILED"}
<1>. DEFINE next == IF r.retries + 1 >= MaxRetries THEN "FAILED" ELSE r.status
            tried == [r EXCEPT !.retries = r.retries + 1]
<1>1. BackedOff(r) = [tried EXCEPT !.status = next]
  BY Zenon DEF BackedOff
<1>2. "status" \in DOMAIN tried
  BY DEF Rows, Opening
<1>3. BackedOff(r).status = next
  <2>. HIDE DEF tried, next
  <2>. QED  BY <1>1, <1>2
<1>. QED  BY <1>3

LEMMA PollerMarks ==
  ASSUME OutboxTypes, UNCHANGED txVars, UNCHANGED outbox \/ Mark \/ Retry
  PROVE  /\ DOMAIN outbox' = DOMAIN outbox /\ OutboxTypes'
         /\ \A n \in DOMAIN outbox : outbox'[n].type = outbox[n].type
<1>. DEFINE h == Head(batch)
<1>1. \/ outbox' = outbox
      \/ outbox' = [outbox EXCEPT ![h] = Published(outbox[h])]
      \/ outbox' = [outbox EXCEPT ![h] = BackedOff(outbox[h])]
  BY Zenon DEF Mark, Retry
<1>2. ASSUME NEW n \in DOMAIN outbox
      PROVE  /\ n \in Nat /\ n <= lastCommand /\ outbox[n] \in Rows \cup Opening
             /\ Published(outbox[n]) \in Rows \cup Opening /\ Published(outbox[n]).type = outbox[n].type
             /\ BackedOff(outbox[n]) \in Rows \cup Opening /\ BackedOff(outbox[n]).type = outbox[n].type
  BY <1>2, MarkedRow DEF OutboxTypes
<1>3. outbox = [n \in DOMAIN outbox |-> outbox[n]] /\ lastCommand' = lastCommand
  BY DEF OutboxTypes, txVars
<1>4. DOMAIN outbox' = DOMAIN outbox /\ outbox' = [n \in DOMAIN outbox' |-> outbox'[n]]
  BY <1>1, <1>3
<1>5. ASSUME NEW n \in DOMAIN outbox
      PROVE  outbox'[n] \in {outbox[n], Published(outbox[n]), BackedOff(outbox[n])}
  BY <1>1, <1>3, <1>5
<1>. QED  BY <1>2, <1>3, <1>4, <1>5 DEF OutboxTypes

LEMMA PairPoller ==
  ASSUME PairInv, UNCHANGED txVars, UNCHANGED outbox \/ Mark \/ Retry
  PROVE  PairInv'
<1>1. /\ DOMAIN outbox' = DOMAIN outbox /\ OutboxTypes'
      /\ \A n \in DOMAIN outbox : outbox'[n].type = outbox[n].type
  BY PollerMarks DEF PairInv
<1>2. TxTypes' /\ Drawn' /\ PairHeld' /\ NumbersApart'
  BY DEF PairInv, TxTypes, Drawn, PairHeld, NumbersApart, Cancelling, SharingPair, txVars
<1>3. PlacesBehind' /\ CancelBehind'
  BY <1>1 DEF PairInv, PlacesBehind, CancelBehind, txVars
<1>4. CommittedRows' /\ CancelsInOrder'
  BY <1>1 DEF PairInv, CommittedRows, CancelsInOrder, txVars
<1>. QED  BY <1>1, <1>2, <1>3, <1>4 DEF PairInv

\* A step of a transaction that commits nothing.
LEMMA PairUncommitted ==
  ASSUME PairInv, TxTypes', lastCommand <= lastCommand', UNCHANGED <<outbox, commits>>
  PROVE  OutboxTypes' /\ CommittedRows' /\ CancelsInOrder'
<1>1. OutboxTypes'
  BY DEF PairInv, TxTypes, OutboxTypes
<1>. QED  BY <1>1 DEF PairInv, CommittedRows, CancelsInOrder

\* The steps before the number is drawn.
LEMMA PairEarly ==
  ASSUME PairInv, NEW o \in OrderIds, LockWallet(o) \/ nextOrderSequence(o) \/ InsertOrder(o)
  PROVE  PairInv'
<1>1. ASSUME NEW new \in {"funded", "numbered", "inserted"}, place' = [place EXCEPT ![o] = new],
             new = "inserted" => Cancelling = {}, TxTypes', Drawn',
             UNCHANGED <<cancel, placeSeq, cancelSeq, lastCommand, outbox, commits>>
      PROVE  PairInv'
  <2>1. OutboxTypes' /\ CommittedRows' /\ CancelsInOrder'
    BY <1>1, PairUncommitted DEF PairInv, TxTypes
  <2>2. \A x \in OrderIds : place'[x] = "queued" => place[x] = "queued"
    BY <1>1 DEF PairInv, TxTypes
  <2>3. PairHeld'
    BY <1>1 DEF PairInv, TxTypes, PairHeld, Cancelling, SharingPair
  <2>4. NumbersApart' /\ PlacesBehind' /\ CancelBehind'
    BY <1>1, <2>2 DEF PairInv, NumbersApart, PlacesBehind, CancelBehind
  <2>. QED  BY <1>1, <2>1, <2>3, <2>4 DEF PairInv
<1>2. CASE LockWallet(o)
  <2>1. TxTypes' /\ Drawn'
    BY <1>2 DEF PairInv, TxTypes, Drawn, LockWallet
  <2>. QED  BY <1>1, <1>2, <2>1 DEF LockWallet
<1>3. CASE nextOrderSequence(o)
  <2>1. TxTypes' /\ Drawn'
    BY <1>3 DEF PairInv, TxTypes, Drawn, nextOrderSequence
  <2>. QED  BY <1>1, <1>3, <2>1 DEF nextOrderSequence
<1>4. CASE InsertOrder(o)
  <2>1. TxTypes' /\ Drawn'
    BY <1>4 DEF PairInv, TxTypes, Drawn, InsertOrder
  <2>. QED  BY <1>1, <1>4, <2>1 DEF InsertOrder
<1>. QED  BY <1>2, <1>3, <1>4

LEMMA PairQueue ==
  ASSUME PairInv, NEW o \in OrderIds, QueuePlace(o)
  PROVE  PairInv'
<1>1. TxTypes' /\ Drawn' /\ lastCommand' = lastCommand + 1 /\ UNCHANGED <<outbox, commits>>
  BY DEF PairInv, TxTypes, Drawn, QueuePlace
<1>2. OutboxTypes' /\ CommittedRows' /\ CancelsInOrder'
  BY <1>1, PairUncommitted DEF PairInv, TxTypes
<1>3. PairHeld'
  BY DEF PairInv, TxTypes, PairHeld, Cancelling, SharingPair, QueuePlace
<1>4. NumbersApart'
  BY DEF PairInv, TxTypes, Drawn, NumbersApart, QueuePlace
<1>5. PlacesBehind'
  <2>. SUFFICES ASSUME NEW x \in OrderIds, place'[x] = "queued"
                PROVE  /\ placeSeq'[x] \notin DOMAIN outbox
                       /\ \A n \in DOMAIN outbox : n > placeSeq'[x] => outbox[n].type = "PlaceOrder"
    BY <1>1 DEF PlacesBehind
  <2>1. CASE x = o
    <3>1. placeSeq'[x] = lastCommand + 1 /\ lastCommand \in Nat
      BY <2>1 DEF PairInv, TxTypes, QueuePlace
    <3>2. \A n \in DOMAIN outbox : n \in Nat /\ n < lastCommand + 1
      BY <3>1 DEF PairInv, OutboxTypes
    <3>. QED  BY <3>1, <3>2
  <2>2. CASE x # o
    BY <2>2 DEF PairInv, TxTypes, PlacesBehind, QueuePlace
  <2>. QED  BY <2>1, <2>2
<1>6. CancelBehind'
  BY <1>1 DEF PairInv, TxTypes, CancelBehind, QueuePlace
<1>. QED  BY <1>1, <1>2, <1>3, <1>4, <1>5, <1>6 DEF PairInv

LEMMA PairAbort ==
  ASSUME PairInv, NEW o \in OrderIds, AbortPlace(o)
  PROVE  PairInv'
<1>1. TxTypes' /\ Drawn' /\ lastCommand' = lastCommand /\ UNCHANGED <<outbox, commits>>
  BY DEF PairInv, TxTypes, Drawn, AbortPlace
<1>2. OutboxTypes' /\ CommittedRows' /\ CancelsInOrder'
  BY <1>1, PairUncommitted DEF PairInv, TxTypes
<1>3. PairHeld'
  BY DEF PairInv, TxTypes, PairHeld, Cancelling, SharingPair, AbortPlace
<1>4. NumbersApart' /\ PlacesBehind' /\ CancelBehind'
  BY DEF PairInv, TxTypes, NumbersApart, PlacesBehind, CancelBehind, AbortPlace
<1>. QED  BY <1>1, <1>2, <1>3, <1>4 DEF PairInv

\* A commit that takes the number k, with a row of the type it says.
LEMMA NewRow ==
  ASSUME PairInv, NEW o \in OrderIds, NEW type \in {"PlaceOrder", "CancelOrder"}, NEW k \in Nat,
         k <= lastCommand, k \notin DOMAIN outbox, TxTypes', lastCommand' = lastCommand,
         outbox' = [n \in DOMAIN outbox \cup {k} |-> IF n = k THEN Row(type, o) ELSE outbox[n]],
         commits' = Append(commits, k),
         \A n \in DOMAIN outbox : n > k => type = "PlaceOrder" /\ outbox[n].type = "PlaceOrder"
  PROVE  /\ OutboxTypes' /\ CommittedRows' /\ CancelsInOrder'
         /\ DOMAIN outbox' = DOMAIN outbox \cup {k} /\ outbox'[k].type = type
         /\ \A n \in DOMAIN outbox : outbox'[n] = outbox[n]
<1>1. Row(type, o) \in Rows /\ Row(type, o).type = type
  BY DEF Row, Rows, Statuses
<1>2. /\ DOMAIN outbox' = DOMAIN outbox \cup {k} /\ outbox'[k] = Row(type, o)
      /\ \A n \in DOMAIN outbox : outbox'[n] = outbox[n]
  OBVIOUS
<1>3. OutboxTypes'
  BY <1>1, <1>2 DEF PairInv, TxTypes, OutboxTypes
<1>. DEFINE m == Len(commits)
<1>4. /\ commits \in Seq(Nat) /\ m \in Nat /\ Len(commits') = m + 1 /\ commits'[m + 1] = k
      /\ \A i \in 1 .. m : commits'[i] = commits[i] /\ commits[i] \in DOMAIN outbox
  BY DEF PairInv, TxTypes, CommittedRows
<1>5. CommittedRows'
  BY <1>2, <1>4 DEF CommittedRows
<1>6. CancelsInOrder'
  <2>. SUFFICES ASSUME NEW i \in 1 .. m + 1, NEW j \in 1 .. m + 1, i < j, commits'[i] > commits'[j]
                PROVE  /\ outbox'[commits'[i]].type = "PlaceOrder"
                       /\ outbox'[commits'[j]].type = "PlaceOrder"
    BY <1>4 DEF CancelsInOrder
  <2>1. i \in 1 .. m
    BY <1>4
  <2>2. CASE j \in 1 .. m
    BY <1>2, <1>4, <2>1, <2>2 DEF PairInv, CancelsInOrder
  <2>3. CASE j = m + 1
    BY <1>1, <1>2, <1>4, <2>1, <2>3
  <2>. QED  BY <1>4, <2>2, <2>3
<1>. QED  BY <1>1, <1>2, <1>3, <1>5, <1>6

\* No cancel has the pair's row locked, so what has a later number and is
\* committed places an order; the other places that have theirs are apart.
LEMMA PairCommit ==
  ASSUME PairInv, NEW o \in OrderIds, CommitPlace(o)
  PROVE  PairInv'
<1>. DEFINE k == placeSeq[o]
<1>1. TxTypes' /\ Drawn' /\ lastCommand' = lastCommand
  BY DEF PairInv, TxTypes, Drawn, CommitPlace
<1>2. k \in Nat /\ k <= lastCommand /\ k \notin DOMAIN outbox
      /\ \A n \in DOMAIN outbox : n > k => outbox[n].type = "PlaceOrder"
  BY DEF PairInv, TxTypes, Drawn, PlacesBehind, CommitPlace
<1>3. /\ OutboxTypes' /\ CommittedRows' /\ CancelsInOrder'
      /\ DOMAIN outbox' = DOMAIN outbox \cup {k} /\ outbox'[k].type = "PlaceOrder"
      /\ \A n \in DOMAIN outbox : outbox'[n] = outbox[n]
  BY <1>1, <1>2, NewRow DEF CommitPlace
<1>4. Cancelling = {} /\ Cancelling' = {}
  BY DEF PairInv, PairHeld, SharingPair, Cancelling, CommitPlace
<1>5. PairHeld' /\ CancelBehind'
  BY <1>4 DEF PairHeld, CancelBehind, Cancelling
<1>6. NumbersApart'
  BY DEF PairInv, TxTypes, NumbersApart, CommitPlace
<1>7. PlacesBehind'
  <2>. SUFFICES ASSUME NEW x \in OrderIds, place'[x] = "queued"
                PROVE  /\ placeSeq[x] \notin DOMAIN outbox \cup {k}
                       /\ \A n \in DOMAIN outbox \cup {k} : n > placeSeq[x] => outbox'[n].type = "PlaceOrder"
    BY <1>3 DEF PlacesBehind, CommitPlace
  <2>1. x # o /\ place[x] = "queued" /\ place[o] = "queued"
    BY DEF PairInv, TxTypes, CommitPlace
  <2>2. placeSeq[x] # k
    BY <2>1 DEF PairInv, NumbersApart
  <2>. QED  BY <1>3, <2>1, <2>2 DEF PairInv, PlacesBehind
<1>. QED  BY <1>1, <1>3, <1>5, <1>6, <1>7 DEF PairInv

LEMMA PairLock ==
  ASSUME PairInv, NEW o \in OrderIds, LockOrderAndPair(o)
  PROVE  PairInv'
<1>1. TxTypes' /\ Drawn' /\ lastCommand' = lastCommand /\ UNCHANGED <<outbox, commits>>
  BY DEF PairInv, TxTypes, Drawn, LockOrderAndPair
<1>2. OutboxTypes' /\ CommittedRows' /\ CancelsInOrder'
  BY <1>1, PairUncommitted DEF PairInv, TxTypes
<1>3. PairHeld'
  BY DEF PairInv, TxTypes, PairHeld, Cancelling, SharingPair, LockOrderAndPair
<1>4. NumbersApart' /\ PlacesBehind' /\ CancelBehind'
  BY DEF PairInv, TxTypes, NumbersApart, PlacesBehind, CancelBehind, LockOrderAndPair
<1>. QED  BY <1>1, <1>2, <1>3, <1>4 DEF PairInv

LEMMA PairQueueCancel ==
  ASSUME PairInv, NEW o \in OrderIds, QueueCancel(o)
  PROVE  PairInv'
<1>1. TxTypes' /\ Drawn' /\ lastCommand' = lastCommand + 1 /\ UNCHANGED <<outbox, commits>>
  BY DEF PairInv, TxTypes, Drawn, QueueCancel
<1>2. OutboxTypes' /\ CommittedRows' /\ CancelsInOrder'
  BY <1>1, PairUncommitted DEF PairInv, TxTypes
<1>3. PairHeld'
  BY DEF PairInv, TxTypes, PairHeld, Cancelling, SharingPair, QueueCancel
<1>4. NumbersApart' /\ PlacesBehind'
  BY DEF PairInv, TxTypes, NumbersApart, PlacesBehind, QueueCancel
<1>5. CancelBehind'
  <2>. SUFFICES ASSUME NEW x \in OrderIds, cancel'[x] = "queued"
                PROVE  /\ cancelSeq'[x] \in Nat /\ cancelSeq'[x] <= lastCommand'
                       /\ \A n \in DOMAIN outbox : n < cancelSeq'[x]
    BY <1>1 DEF CancelBehind
  <2>1. x = o
    BY DEF PairInv, TxTypes, PairHeld, Cancelling, QueueCancel
  <2>2. cancelSeq'[x] = lastCommand + 1 /\ lastCommand \in Nat
    BY <2>1 DEF PairInv, TxTypes, QueueCancel
  <2>. QED  BY <1>1, <2>2 DEF PairInv, OutboxTypes
<1>. QED  BY <1>1, <1>2, <1>3, <1>4, <1>5 DEF PairInv

\* Nothing that committed has a later number, and no place has the pair's row.
LEMMA PairCommitCancel ==
  ASSUME PairInv, NEW o \in OrderIds, CommitCancel(o)
  PROVE  PairInv'
<1>. DEFINE k == cancelSeq[o]
<1>1. TxTypes' /\ Drawn' /\ lastCommand' = lastCommand
  BY DEF PairInv, TxTypes, Drawn, CommitCancel
<1>2. k \in Nat /\ k <= lastCommand /\ \A n \in DOMAIN outbox : n \in Nat /\ n < k
  BY DEF PairInv, OutboxTypes, CancelBehind, CommitCancel
<1>3. k \notin DOMAIN outbox /\ \A n \in DOMAIN outbox : ~(n > k)
  BY <1>2
<1>4. OutboxTypes' /\ CommittedRows' /\ CancelsInOrder'
  BY <1>1, <1>2, <1>3, NewRow DEF CommitCancel
<1>5. SharingPair = {} /\ SharingPair' = {} /\ Cancelling' = {}
  BY DEF PairInv, TxTypes, PairHeld, SharingPair, Cancelling, CommitCancel
<1>6. PairHeld' /\ NumbersApart' /\ PlacesBehind' /\ CancelBehind'
  BY <1>5 DEF PairHeld, NumbersApart, PlacesBehind, CancelBehind, Cancelling, SharingPair
<1>. QED  BY <1>1, <1>4, <1>6 DEF PairInv

LEMMA PairAbortCancel ==
  ASSUME PairInv, NEW o \in OrderIds, AbortCancel(o)
  PROVE  PairInv'
<1>1. TxTypes' /\ Drawn' /\ lastCommand' = lastCommand /\ UNCHANGED <<outbox, commits>>
  BY DEF PairInv, TxTypes, Drawn, AbortCancel
<1>2. OutboxTypes' /\ CommittedRows' /\ CancelsInOrder'
  BY <1>1, PairUncommitted DEF PairInv, TxTypes
<1>3. PairHeld'
  BY DEF PairInv, TxTypes, PairHeld, Cancelling, SharingPair, AbortCancel
<1>4. NumbersApart' /\ PlacesBehind' /\ CancelBehind'
  BY DEF PairInv, TxTypes, NumbersApart, PlacesBehind, CancelBehind, AbortCancel
<1>. QED  BY <1>1, <1>2, <1>3, <1>4 DEF PairInv

LEMMA PairNext == PairInv /\ [Next]_vars => PairInv'
<1>. SUFFICES ASSUME PairInv, [Next]_vars PROVE PairInv'
  OBVIOUS
<1>1. CASE Transaction
  BY <1>1, PairEarly, PairQueue, PairCommit, PairAbort, PairLock, PairQueueCancel, PairCommitCancel,
     PairAbortCancel, Zenon DEF Transaction
<1>2. CASE Poller \/ Retry \/ Abandon \/ RetryTime
  <2>1. UNCHANGED txVars
    BY <1>2, PollerLeaves
  <2>2. UNCHANGED outbox \/ Mark \/ Retry
    BY <1>2, Zenon DEF Poller, Fetch, Add, Abandon, RetryTime
  <2>. QED  BY <2>1, <2>2, PairPoller
<1>3. CASE UNCHANGED vars
  BY <1>3, PairPoller, Zenon DEF vars
<1>. QED
  BY <1>1, <1>2, <1>3, Zenon DEF Next

-----------------------------------------------------------------------------
(* The poller.                                                             *)

\* The first row of a batch and the rest of it.
LEMMA BatchParts ==
  ASSUME Batch, batch # <<>>
  PROVE  /\ Head(batch) \in DOMAIN outbox /\ Head(batch) \in Nat
         /\ Tail(batch) \in Seq(Nat)
         /\ \A i \in 1 .. Len(Tail(batch)) : Tail(batch)[i] \in DOMAIN outbox
<1>1. batch \in Seq(Nat) /\ Len(batch) \in Nat \ {0} /\ Head(batch) = batch[1]
  BY EmptySeq DEF Batch
<1>2. 1 \in 1 .. Len(batch)
  BY <1>1
<1>3. /\ Tail(batch) \in Seq(Nat) /\ Len(Tail(batch)) = Len(batch) - 1
      /\ \A i \in 1 .. Len(Tail(batch)) : Tail(batch)[i] = batch[i + 1]
  BY <1>1, HeadTailProperties
<1>4. \A i \in 1 .. Len(Tail(batch)) : i + 1 \in 1 .. Len(batch)
  BY <1>1, <1>3
<1>5. Head(batch) \in DOMAIN outbox
  BY <1>1, <1>2 DEF Batch
<1>6. Head(batch) \in Nat
  BY <1>1, <1>2, ElementOfSeq
<1>. QED  BY <1>3, <1>4, <1>5, <1>6 DEF Batch

\* A row that is added to the stream or not.
LEMMA StreamGrows ==
  ASSUME Batch, OutboxHonest, NEW n \in DOMAIN outbox, n \in Nat,
         stream' = stream \/ stream' = Append(stream, n)
  PROVE  /\ stream' \in Seq(Nat)
         /\ \A i \in 1 .. Len(stream') : stream'[i] \in DOMAIN outbox
         /\ \A m : InStream(m) => InStream(m)'
         /\ stream' = Append(stream, n) => InStream(n)'
<1>1. stream \in Seq(Nat) /\ Len(stream) \in Nat /\ \A i \in 1 .. Len(stream) : stream[i] \in DOMAIN outbox
  BY DEF Batch, OutboxHonest
<1>2. CASE stream' = stream
  <2>1. stream # Append(stream, n)
    BY <1>1, AppendProperties
  <2>. QED  BY <1>1, <1>2, <2>1 DEF InStream
<1>3. CASE stream' = Append(stream, n)
  <2>1. /\ stream' \in Seq(Nat) /\ Len(stream') = Len(stream) + 1 /\ stream'[Len(stream) + 1] = n
        /\ \A i \in 1 .. Len(stream) : stream'[i] = stream[i]
    BY <1>1, <1>3, AppendProperties
  <2>2. \A i \in 1 .. Len(stream') : stream'[i] \in DOMAIN outbox
    BY <1>1, <2>1
  <2>3. InStream(n)'
    BY <1>1, <2>1 DEF InStream
  <2>4. \A m : InStream(m) => InStream(m)'
    BY <1>1, <2>1 DEF InStream
  <2>. QED  BY <2>1, <2>2, <2>3, <2>4
<1>. QED  BY <1>2, <1>3

\* The batch of a query: rows that are due, in a list.
LEMMA Fetched ==
  ASSUME PairInv, Fetch
  PROVE  batch' \in Seq(Nat) /\ \A i \in 1 .. Len(batch') : batch'[i] \in DOMAIN outbox
<1>. DEFINE size == Min({BatchLimit, Cardinality(Due)})
<1>1. Due \subseteq 1 .. lastCommand \cup {0} /\ Due \subseteq DOMAIN outbox /\ Due \subseteq Nat
  BY DEF Due, PairInv, OutboxTypes
<1>2. IsFiniteSet(1 .. lastCommand \cup {0})
  <2>1. IsFiniteSet(1 .. lastCommand)
    BY FS_Interval DEF PairInv, TxTypes
  <2>. QED  BY <2>1, FS_AddElement
<1>3. Cardinality(Due) \in Nat
  BY <1>1, <1>2, FS_Subset, FS_CardinalityType
<1>4. size \in Nat
  <2>1. BatchLimit <= Cardinality(Due) \/ Cardinality(Due) <= BatchLimit
    BY <1>3, BatchLimitAssumption
  <2>2. \E x \in {BatchLimit, Cardinality(Due)} : \A y \in {BatchLimit, Cardinality(Due)} : x <= y
    BY <1>3, <2>1, BatchLimitAssumption
  <2>3. size \in {BatchLimit, Cardinality(Due)}
    BY <2>2 DEF Min
  <2>. QED  BY <1>3, <2>3, BatchLimitAssumption
<1>5. PICK rows \in [1 .. size -> Due] : batch' = rows
  BY DEF Fetch
<1>. HIDE DEF size
<1>6. rows \in [1 .. size -> Nat]
  BY <1>1, <1>5
<1>7. rows \in Seq(Nat) /\ Len(rows) = size
  BY <1>4, <1>6, LenProperties
<1>. QED  BY <1>1, <1>5, <1>7

LEMMA HonestPoller ==
  ASSUME HonestInv, Fetch \/ Add \/ Mark \/ Retry \/ Abandon \/ RetryTime
  PROVE  Batch' /\ OutboxHonest'
<1>. DEFINE h == Head(batch)
<1>1. /\ outbox = [n \in DOMAIN outbox |-> outbox[n]]
      /\ \A n \in DOMAIN outbox : outbox[n] \in Rows \cup Opening
  BY DEF HonestInv, PairInv, OutboxTypes
<1>2. Batch /\ OutboxHonest /\ PairInv /\ OutboxTypes
  BY DEF HonestInv, PairInv
<1>3. CASE Fetch
  <2>1. batch' \in Seq(Nat) /\ \A i \in 1 .. Len(batch') : batch'[i] \in DOMAIN outbox
    BY <1>2, <1>3, Fetched
  <2>2. UNCHANGED <<outbox, stream, sent>> /\ ~sent
    BY <1>2, <1>3 DEF Fetch, Batch
  <2>. QED  BY <1>2, <2>1, <2>2 DEF Batch, OutboxHonest, InStream
<1>4. CASE Add
  <2>1. batch # <<>> /\ stream' = Append(stream, h) /\ sent' = TRUE /\ UNCHANGED <<outbox, batch>>
    BY <1>4 DEF Add
  <2>2. PICK n \in DOMAIN outbox : n = h /\ n \in Nat
    BY <1>2, <2>1, BatchParts
  <2>. HIDE DEF h
  <2>3. stream' = Append(stream, n)
    BY <2>1, <2>2
  <2>4. /\ stream' \in Seq(Nat) /\ \A i \in 1 .. Len(stream') : stream'[i] \in DOMAIN outbox
        /\ \A m : InStream(m) => InStream(m)'
    BY <1>2, <2>2, <2>3, StreamGrows
  <2>5. InStream(n)'
    BY <1>2, <2>2, <2>3, StreamGrows
  <2>6. Head(batch') = n
    BY <2>1, <2>2 DEF h
  <2>7. InStream(Head(batch))'
    BY <2>5, <2>6 DEF InStream
  <2>8. Batch'
    BY <1>2, <2>1, <2>4, <2>7 DEF Batch
  <2>. QED  BY <1>2, <2>1, <2>4, <2>8 DEF OutboxHonest
<1>5. CASE Mark \/ Retry
  <2>1. batch # <<>> /\ batch' = Tail(batch) /\ sent' = FALSE
    BY <1>2, <1>5 DEF Mark, Retry, Batch
  <2>2. /\ h \in DOMAIN outbox /\ h \in Nat /\ Tail(batch) \in Seq(Nat)
        /\ \A i \in 1 .. Len(Tail(batch)) : Tail(batch)[i] \in DOMAIN outbox
    BY <1>2, <2>1, BatchParts
  <2>3. stream' = stream \/ stream' = Append(stream, h)
    BY <1>5 DEF Mark, Retry
  <2>4. UNCHANGED txVars
    BY <1>5, PollerLeaves DEF Poller
  <2>5. DOMAIN outbox' = DOMAIN outbox
    BY <1>2, <1>5, <2>4, PollerMarks
  <2>6. \/ Mark /\ sent /\ outbox' = [outbox EXCEPT ![h] = Published(outbox[h])]
        \/ outbox' = [outbox EXCEPT ![h] = BackedOff(outbox[h])]
    BY <1>5, Zenon DEF Mark, Retry
  <2>7. Mark => InStream(h) /\ stream' = stream
    BY <1>2 DEF Mark, Batch
  <2>. HIDE DEF h
  <2>8. ASSUME NEW n \in DOMAIN outbox, outbox'[n].status = "PUBLISHED"
        PROVE  InStream(n)
    <3>1. CASE n # h
      <4>1. outbox'[n] = outbox[n]
        BY <1>1, <2>6, <3>1
      <4>. QED  BY <1>2, <2>8, <4>1 DEF OutboxHonest
    <3>2. CASE n = h /\ outbox' = [outbox EXCEPT ![h] = BackedOff(outbox[h])]
      <4>1. outbox'[n] = BackedOff(outbox[n])
        BY <1>1, <2>2, <3>2
      <4>2. BackedOff(outbox[n]).status \in {outbox[n].status, "FAILED"}
        <5>1. outbox[n] \in Rows \cup Opening
          BY <1>1
        <5>. QED  BY <5>1, BackedOffStatus
      <4>. QED  BY <1>2, <2>8, <4>1, <4>2 DEF OutboxHonest
    <3>3. CASE n = h /\ Mark
      BY <2>7, <3>3
    <3>. QED  BY <2>6, <3>1, <3>2, <3>3
  <2>9. /\ stream' \in Seq(Nat) /\ \A i \in 1 .. Len(stream') : stream'[i] \in DOMAIN outbox
        /\ \A m : InStream(m) => InStream(m)'
    BY <1>2, <2>2, <2>3, StreamGrows
  <2>10. Batch'
    BY <2>1, <2>2, <2>5, <2>9 DEF Batch
  <2>11. OutboxHonest'
    BY <2>5, <2>8, <2>9 DEF OutboxHonest
  <2>. QED  BY <2>10, <2>11
<1>6. CASE Abandon
  <2>1. batch' = <<>> /\ sent' = FALSE /\ UNCHANGED <<outbox, stream>>
    BY <1>6 DEF Abandon
  <2>2. <<>> \in Seq(Nat) /\ Len(<<>>) = 0
    BY EmptySeq
  <2>3. Len(batch') = 0 /\ batch' \in Seq(Nat) /\ sent' \in BOOLEAN /\ ~sent'
    BY <2>1, <2>2
  <2>4. \A i \in 1 .. Len(batch') : batch'[i] \in DOMAIN outbox'
    BY <2>3
  <2>5. Batch'
    BY <1>2, <2>1, <2>3, <2>4 DEF Batch
  <2>. QED  BY <1>2, <2>1, <2>5 DEF OutboxHonest, InStream
<1>7. CASE RetryTime
  <2>1. UNCHANGED <<outbox, batch, sent, stream>>
    BY <1>7 DEF RetryTime
  <2>. QED  BY <1>2, <2>1 DEF Batch, OutboxHonest, InStream
<1>. QED  BY <1>3, <1>4, <1>5, <1>6, <1>7

\* A commit adds a row that is PENDING; nothing else in a transaction shows.
LEMMA HonestTransaction ==
  ASSUME HonestInv, Transaction
  PROVE  Batch' /\ OutboxHonest'
<1>1. UNCHANGED pollerVars
  BY Zenon DEF Transaction, LockWallet, nextOrderSequence, InsertOrder, QueuePlace, CommitPlace,
     AbortPlace, LockOrderAndPair, QueueCancel, CommitCancel, AbortCancel
<1>2. \/ outbox' = outbox
      \/ \E o \in OrderIds : CommitPlace(o) \/ CommitCancel(o)
  BY Zenon DEF Transaction, LockWallet, nextOrderSequence, InsertOrder, QueuePlace,
     AbortPlace, LockOrderAndPair, QueueCancel, AbortCancel
<1>. DEFINE Kept ==
  /\ DOMAIN outbox \subseteq DOMAIN outbox'
  /\ \A n \in DOMAIN outbox' : outbox'[n].status = "PUBLISHED" =>
       n \in DOMAIN outbox /\ outbox[n].status = "PUBLISHED"
<1>3. Kept
  <2>1. ASSUME NEW k, NEW r, r.status = "PENDING",
               outbox' = [n \in DOMAIN outbox \cup {k} |-> IF n = k THEN r ELSE outbox[n]]
        PROVE  Kept
    BY <2>1
  <2>. HIDE DEF Kept
  <2>2. ASSUME NEW o \in OrderIds, CommitPlace(o)
        PROVE  Kept
    <3>1. Row("PlaceOrder", o).status = "PENDING"
      BY DEF Row
    <3>. QED  BY <2>1, <2>2, <3>1 DEF CommitPlace
  <2>3. ASSUME NEW o \in OrderIds, CommitCancel(o)
        PROVE  Kept
    <3>1. Row("CancelOrder", o).status = "PENDING"
      BY DEF Row
    <3>. QED  BY <2>1, <2>3, <3>1 DEF CommitCancel
  <2>4. CASE outbox' = outbox
    BY <2>4 DEF Kept
  <2>. QED  BY <1>2, <2>2, <2>3, <2>4
<1>4. Batch'
  BY <1>1, <1>3 DEF HonestInv, Batch, InStream, pollerVars
<1>5. OutboxHonest'
  BY <1>1, <1>3 DEF HonestInv, OutboxHonest, InStream, pollerVars
<1>. QED  BY <1>4, <1>5

LEMMA HonestInit == Init => HonestInv
<1>. SUFFICES ASSUME Init PROVE HonestInv
  OBVIOUS
<1>1. <<>> \in Seq(Nat) /\ Len(<<>>) = 0
  BY EmptySeq
<1>2. Batch
  <2>1. batch = <<>> /\ stream = <<>> /\ sent = FALSE
    BY DEF Init
  <2>2. Len(batch) = 0 /\ batch \in Seq(Nat) /\ stream \in Seq(Nat) /\ sent \in BOOLEAN /\ ~sent
    BY <1>1, <2>1
  <2>3. \A i \in 1 .. Len(batch) : batch[i] \in DOMAIN outbox
    BY <2>2
  <2>. QED  BY <2>2, <2>3 DEF Batch
<1>3. DOMAIN outbox = {1} /\ outbox[1].status = "PENDING"
  BY DEF Init, OpenMarket
<1>4. OutboxHonest
  BY <1>1, <1>3 DEF Init, OutboxHonest
<1>. QED  BY <1>2, <1>4, PairInit DEF HonestInv

LEMMA HonestNext == HonestInv /\ [Next]_vars => HonestInv'
<1>. SUFFICES ASSUME HonestInv, [Next]_vars PROVE HonestInv'
  OBVIOUS
<1>1. PairInv'
  BY PairNext DEF HonestInv
<1>2. CASE Transaction
  BY <1>1, <1>2, HonestTransaction DEF HonestInv
<1>3. CASE Fetch \/ Add \/ Mark \/ Retry \/ Abandon \/ RetryTime
  BY <1>1, <1>3, HonestPoller DEF HonestInv
<1>4. CASE UNCHANGED vars
  BY <1>1, <1>4 DEF HonestInv, Batch, OutboxHonest, InStream, vars, pollerVars
<1>. QED  BY <1>2, <1>3, <1>4, Zenon DEF Next, Poller

-----------------------------------------------------------------------------
(* The results.                                                            *)

(* The lock on the wallet's row keeps the commands of a wallet in the      *)
(* order of its orders' sequences, in every behaviour of the backend.      *)
THEOREM WalletCommandsOrdered == Spec => []WalletInOrder
<1>1. WalletInv => WalletInOrder
  BY DEF WalletInv, NumberedInOrder, WalletInOrder
<1>. QED  BY <1>1, WalletInit, WalletNext, PTL DEF Spec

(* The lock on the pair's row keeps every cancel in its place among the    *)
(* commands: only places can commit out of the order of their numbers.     *)
THEOREM CancelsOrdered == Spec => []CancelsInOrder
<1>1. PairInv => CancelsInOrder
  BY DEF PairInv
<1>. QED  BY <1>1, PairInit, PairNext, PTL DEF Spec

(* What the stream has was committed, and what is marked as published is   *)
(* in the stream, whatever fails between the XADD and the UPDATE.          *)
THEOREM OutboxNeverLies == Spec => []OutboxHonest
<1>1. HonestInv => OutboxHonest
  BY DEF HonestInv
<1>. QED  BY <1>1, HonestInit, HonestNext, PTL DEF Spec
=============================================================================
