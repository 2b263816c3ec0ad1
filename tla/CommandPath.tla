---------------------------- MODULE CommandPath ----------------------------
(***************************************************************************)
(* How the commands of one market reach stream:engine:commands: the        *)
(* transactions of placeOrder and cancelOrder that number a command and    *)
(* put it in the outbox (orders.service, sequence.helper), and the poller  *)
(* that publishes the outbox (outbox-poller.service).                      *)
(*                                                                         *)
(* Requests run side by side, so their transactions interleave: each step  *)
(* of one is an action, between the row locks it takes and the numbers it  *)
(* draws with nextval, which no rollback gives back.  A step that waits    *)
(* for a lock is not enabled.  The checks of balances and statuses are in  *)
(* module Settlement; here a request is one that passed them.              *)
(***************************************************************************)
EXTENDS Integers, Sequences, FiniteSets, FiniteSetsExt

CONSTANTS
  OrderIds, Wallets,
  MaxRetries,   \* attempts after which a row is FAILED (5 in the code)
  BatchLimit,   \* rows the poller fetches at a time (50 in the code)
  MaxFaults     \* bound on the failures of one behaviour

ASSUME BatchLimitAssumption == BatchLimit \in Nat \ {0}

VARIABLES
  place,       \* place[o]: how far the transaction that places o is
  cancel,      \* cancel[o]: how far the one that cancels it is
  wallet,      \* wallet[o]: the wallet the placing transaction locks
  orderSeq,    \* orderSeq[o]: its orderSequence, 0 before
  placeSeq,    \* placeSeq[o], cancelSeq[o]: the commandSequences, 0 before
  cancelSeq,
  lastOrder,   \* the Postgres sequences order_seq_<pair> and cmd_seq_<pair>
  lastCommand,
  outbox,      \* commandSequence -> row of the outbox, for committed rows
  commits,     \* history: the commandSequences in the order they committed
  backoff,     \* the rows whose next_retry_at has not come
  batch,       \* the rows the poller has fetched and not dealt with
  sent,        \* whether the first of them is in the stream
  stream,      \* stream:engine:commands, as commandSequences
  faults

txVars == <<place, cancel, wallet, orderSeq, placeSeq, cancelSeq, lastOrder, lastCommand, commits>>
pollerVars == <<backoff, batch, sent, stream>>
vars == <<txVars, outbox, pollerVars, faults>>

\* The placing transactions that hold a wallet, and a share of the pair's row:
\* the row of the new order references it, so it is locked FOR KEY SHARE.
Funding == {o \in OrderIds : place[o] \in {"funded", "numbered", "inserted", "queued"}}
SharingPair == {o \in OrderIds : place[o] \in {"inserted", "queued"}}

\* The cancelling transactions, which lock their order and the pair FOR UPDATE.
Cancelling == {o \in OrderIds : cancel[o] \in {"locked", "queued"}}

Row(type, o) == [type |-> type, order |-> o, status |-> "PENDING", retries |-> 0]
OpenMarket == [type |-> "OpenMarket", status |-> "PENDING", retries |-> 0]

\* The bootstrap has put OpenMarket in the outbox, as command 1.
Init ==
  /\ place = [o \in OrderIds |-> "idle"]
  /\ cancel = [o \in OrderIds |-> "idle"]
  /\ wallet \in [OrderIds -> Wallets]
  /\ orderSeq = [o \in OrderIds |-> 0]
  /\ placeSeq = [o \in OrderIds |-> 0]
  /\ cancelSeq = [o \in OrderIds |-> 0]
  /\ lastOrder = 0
  /\ lastCommand = 1
  /\ outbox = [n \in {1} |-> OpenMarket]
  /\ commits = <<1>>
  /\ backoff = {} /\ batch = <<>> /\ sent = FALSE /\ stream = <<>>
  /\ faults = 0

Fault == faults < MaxFaults /\ faults' = faults + 1

-----------------------------------------------------------------------------
(* placeOrder.                                                             *)

\* Fault: lockRow reads the wallet without FOR UPDATE.
LockWalletNever(o) ==
  /\ place[o] = "idle"
  /\ place' = [place EXCEPT ![o] = "funded"]
  /\ UNCHANGED <<cancel, wallet, orderSeq, placeSeq, cancelSeq, lastOrder, lastCommand, commits,
                 outbox, pollerVars, faults>>

\* moveAvailableToLocked holds the wallet's row until the transaction ends.
LockWallet(o) ==
  /\ place[o] = "idle"
  /\ \A x \in Funding : wallet[x] # wallet[o]
  /\ place' = [place EXCEPT ![o] = "funded"]
  /\ UNCHANGED <<cancel, wallet, orderSeq, placeSeq, cancelSeq, lastOrder, lastCommand, commits,
                 outbox, pollerVars, faults>>

nextOrderSequence(o) ==
  /\ place[o] = "funded"
  /\ place' = [place EXCEPT ![o] = "numbered"]
  /\ lastOrder' = lastOrder + 1
  /\ orderSeq' = [orderSeq EXCEPT ![o] = lastOrder + 1]
  /\ UNCHANGED <<cancel, wallet, placeSeq, cancelSeq, lastCommand, commits, outbox, pollerVars, faults>>

\* order.create waits for a transaction that has the pair FOR UPDATE.
InsertOrder(o) ==
  /\ place[o] = "numbered"
  /\ Cancelling = {}
  /\ place' = [place EXCEPT ![o] = "inserted"]
  /\ UNCHANGED <<cancel, wallet, orderSeq, placeSeq, cancelSeq, lastOrder, lastCommand, commits,
                 outbox, pollerVars, faults>>

\* nextCommandSequence and the row of the outbox, which nobody else sees yet.
QueuePlace(o) ==
  /\ place[o] = "inserted"
  /\ place' = [place EXCEPT ![o] = "queued"]
  /\ lastCommand' = lastCommand + 1
  /\ placeSeq' = [placeSeq EXCEPT ![o] = lastCommand + 1]
  /\ UNCHANGED <<cancel, wallet, orderSeq, cancelSeq, lastOrder, commits, outbox, pollerVars, faults>>

CommitPlace(o) ==
  /\ place[o] = "queued"
  /\ place' = [place EXCEPT ![o] = "committed"]
  /\ outbox' = [n \in DOMAIN outbox \cup {placeSeq[o]} |->
       IF n = placeSeq[o] THEN Row("PlaceOrder", o) ELSE outbox[n]]
  /\ commits' = Append(commits, placeSeq[o])
  /\ UNCHANGED <<cancel, wallet, orderSeq, placeSeq, cancelSeq, lastOrder, lastCommand, pollerVars, faults>>

\* The transaction times out, loses its connection, or finds its idempotency
\* key taken by an identical request that committed first.
AbortPlace(o) ==
  /\ o \in Funding
  /\ Fault
  /\ place' = [place EXCEPT ![o] = "aborted"]
  /\ UNCHANGED <<cancel, wallet, orderSeq, placeSeq, cancelSeq, lastOrder, lastCommand, commits,
                 outbox, pollerVars>>

-----------------------------------------------------------------------------
(* cancelOrder.                                                            *)

\* Fault: the query locks the order's row and not the pair's.
LockOrderOnly(o) ==
  /\ place[o] = "committed" /\ cancel[o] = "idle"
  /\ cancel' = [cancel EXCEPT ![o] = "locked"]
  /\ UNCHANGED <<place, wallet, orderSeq, placeSeq, cancelSeq, lastOrder, lastCommand, commits,
                 outbox, pollerVars, faults>>

\* The order is visible once committed; its row and the pair's are locked.
LockOrderAndPair(o) ==
  /\ place[o] = "committed" /\ cancel[o] = "idle"
  /\ SharingPair = {} /\ Cancelling = {}
  /\ cancel' = [cancel EXCEPT ![o] = "locked"]
  /\ UNCHANGED <<place, wallet, orderSeq, placeSeq, cancelSeq, lastOrder, lastCommand, commits,
                 outbox, pollerVars, faults>>

QueueCancel(o) ==
  /\ cancel[o] = "locked"
  /\ cancel' = [cancel EXCEPT ![o] = "queued"]
  /\ lastCommand' = lastCommand + 1
  /\ cancelSeq' = [cancelSeq EXCEPT ![o] = lastCommand + 1]
  /\ UNCHANGED <<place, wallet, orderSeq, placeSeq, lastOrder, commits, outbox, pollerVars, faults>>

CommitCancel(o) ==
  /\ cancel[o] = "queued"
  /\ cancel' = [cancel EXCEPT ![o] = "committed"]
  /\ outbox' = [n \in DOMAIN outbox \cup {cancelSeq[o]} |->
       IF n = cancelSeq[o] THEN Row("CancelOrder", o) ELSE outbox[n]]
  /\ commits' = Append(commits, cancelSeq[o])
  /\ UNCHANGED <<place, wallet, orderSeq, placeSeq, cancelSeq, lastOrder, lastCommand, pollerVars, faults>>

\* The order's status goes back with the transaction: it may be tried again.
AbortCancel(o) ==
  /\ o \in Cancelling
  /\ Fault
  /\ cancel' = [cancel EXCEPT ![o] = "idle"]
  /\ cancelSeq' = [cancelSeq EXCEPT ![o] = 0]
  /\ UNCHANGED <<place, wallet, orderSeq, placeSeq, lastOrder, lastCommand, commits, outbox, pollerVars>>

Transaction ==
  \E o \in OrderIds :
    \/ LockWallet(o) \/ nextOrderSequence(o) \/ InsertOrder(o) \/ QueuePlace(o)
    \/ CommitPlace(o) \/ AbortPlace(o)
    \/ LockOrderAndPair(o) \/ QueueCancel(o) \/ CommitCancel(o) \/ AbortCancel(o)

-----------------------------------------------------------------------------
(* The poller.                                                             *)

\* Fault: only rows that never failed are fetched.
DueFirstTime == {n \in DOMAIN outbox : outbox[n].status = "PENDING" /\ outbox[n].retries = 0}

Due == {n \in DOMAIN outbox : outbox[n].status = "PENDING" /\ n \notin backoff}

\* Step 1: the rows due, by commandSequence.  Their locks end with the query's
\* transaction, before anything is published.
Fetch ==
  /\ batch = <<>> /\ Due # {}
  /\ LET size == Min({BatchLimit, Cardinality(Due)})
     IN \E rows \in [1 .. size -> Due] :
          /\ \A i, j \in 1 .. size : i < j => rows[i] < rows[j]
          /\ \A n \in Due : n < rows[size] => \E i \in 1 .. size : rows[i] = n
          /\ batch' = rows
  /\ UNCHANGED <<txVars, outbox, backoff, sent, stream, faults>>

\* Fault: a row that was added to the stream is marked before it is added.
AddMarksFirst ==
  /\ batch # <<>> /\ ~sent
  /\ outbox' = [outbox EXCEPT ![Head(batch)].status = "PUBLISHED"]
  /\ sent' = TRUE
  /\ UNCHANGED <<txVars, stream, backoff, batch, faults>>

\* Step 2: XADD.
Add ==
  /\ batch # <<>> /\ ~sent
  /\ stream' = Append(stream, Head(batch))
  /\ sent' = TRUE
  /\ UNCHANGED <<txVars, outbox, backoff, batch, faults>>

\* Step 3: the row is PUBLISHED.
Published(r) == [r EXCEPT !.status = "PUBLISHED"]

Mark ==
  /\ sent
  /\ outbox' = [outbox EXCEPT ![Head(batch)] = Published(@)]
  /\ batch' = Tail(batch)
  /\ sent' = FALSE
  /\ UNCHANGED <<txVars, backoff, stream, faults>>

\* The row after one more failed attempt.
BackedOff(r) ==
  [r EXCEPT !.retries = @ + 1,
            !.status = IF r.retries + 1 >= MaxRetries THEN "FAILED" ELSE @]

\* The XADD or the UPDATE throws: the row is tried again later, or given up.
\* An XADD whose answer was lost has added the row.
Retry ==
  /\ batch # <<>>
  /\ Fault
  /\ \/ sent /\ UNCHANGED stream
     \/ ~sent /\ stream' \in {stream, Append(stream, Head(batch))}
  /\ outbox' = [outbox EXCEPT ![Head(batch)] = BackedOff(@)]
  /\ backoff' = backoff \cup {Head(batch)}
  /\ batch' = Tail(batch)
  /\ sent' = FALSE
  /\ UNCHANGED txVars

\* The UPDATE of the catch block throws too, or the process dies: the batch is
\* forgotten, and its rows are as they were.
Abandon ==
  /\ batch # <<>>
  /\ Fault
  /\ batch' = <<>>
  /\ sent' = FALSE
  /\ UNCHANGED <<txVars, outbox, backoff, stream>>

\* next_retry_at comes.
RetryTime ==
  /\ \E n \in backoff : backoff' = backoff \ {n}
  /\ UNCHANGED <<txVars, outbox, batch, sent, stream, faults>>

Poller == Fetch \/ Add \/ Mark

Next == Transaction \/ Poller \/ Retry \/ Abandon \/ RetryTime

Spec == Init /\ [][Next]_vars

\* The poll loop never ends, and time passes.  Users may do nothing.
FairSpec == Spec /\ WF_vars(Poller) /\ WF_vars(RetryTime)

-----------------------------------------------------------------------------
(* Properties.                                                             *)

(* The commands of a wallet are in the order of its orders' sequences:     *)
(* requests of one user on one asset keep their time priority.             *)
WalletInOrder ==
  \A x, y \in OrderIds :
    /\ wallet[x] = wallet[y] /\ orderSeq[x] < orderSeq[y]
    /\ place[x] = "committed" /\ place[y] = "committed"
    => placeSeq[x] < placeSeq[y]

(* Commands commit out of the order of their numbers only when both place  *)
(* an order: the lock on the pair's row keeps every cancel in order, with  *)
(* the places and with the other cancels.                                  *)
CancelsInOrder ==
  \A i, j \in 1 .. Len(commits) :
    i < j /\ commits[i] > commits[j] =>
      /\ outbox[commits[i]].type = "PlaceOrder"
      /\ outbox[commits[j]].type = "PlaceOrder"

InStream(n) == \E i \in 1 .. Len(stream) : stream[i] = n

(* What the stream has committed, and what is marked as published is in    *)
(* the stream: no command is announced that was rolled back, and none is   *)
(* lost without a trace.                                                   *)
OutboxHonest ==
  /\ \A i \in 1 .. Len(stream) : stream[i] \in DOMAIN outbox
  /\ \A n \in DOMAIN outbox : outbox[n].status = "PUBLISHED" => InStream(n)

(* Every committed command is published or given up: the poller never      *)
(* stops trying a row while it is PENDING, whatever else fails.            *)
Settled(n) == n \in DOMAIN outbox => outbox[n].status # "PENDING"

OutboxDrained == \A n \in 1 .. 2 * Cardinality(OrderIds) + 1 : <>[]Settled(n)
=============================================================================
