------------------------------- MODULE Ledger -------------------------------
(***************************************************************************)
(* WalletBalanceService statement by statement, in transactions that run   *)
(* at once, and a user who pages through the ledger meanwhile              *)
(* (WalletsService.getMyLedger with cursor.helper).  Settlement has the    *)
(* same methods inside transactions of one action; here the row locks, the *)
(* values read under them and the rows they write are the subject.         *)
(*                                                                         *)
(* A row is stamped by the process that writes it: createdAt in            *)
(* milliseconds of its clock, and an id (uuid v7) that grows with each     *)
(* row.  Both are made under the wallet's lock and seen after the commit.  *)
(***************************************************************************)
EXTENDS Integers, Sequences, FiniteSets, Functions

CONSTANTS
  Wallets,       \* the wallets, which the seed makes: register makes none
  StartBalances, \* their balances
  StartRows,     \* and the ledger's rows, in order
  Transactions,  \* transactions that may be open at once
  Touched,       \* the wallets they change
  Read,          \* the wallets of the user who reads
  Amounts,       \* what they move
  Limit,         \* the page size asked for
  MaxWrites,     \* bound: wallet changes in all
  MaxClock       \* bound: the clock, in milliseconds since the seed

ASSUME TouchedAssumption == Touched \subseteq Wallets /\ Read \subseteq Wallets
ASSUME NoneAssumption == "none" \notin Wallets /\ "none" \notin Transactions
ASSUME AmountsAssumption == Amounts \subseteq Nat \ {0}  \* validateAmount
ASSUME LimitAssumption == Limit \in Nat \ {0}

VARIABLES
  wallets,    \* wallets[w]: the row as its last writer left it
  committed,  \* committed[w]: the row as others see it
  holder,     \* holder[w]: the transaction that has the row locked, or "none"
  open,       \* open[t]: the wallet it works on with the balances it read, and its rows
  ledger,     \* the committed ledger entries
  clock, ids, \* the clock and the number of ids given out
  writes,     \* wallet changes so far, for the bound
  got,        \* the rows the reader was given, in order
  cursor,     \* the row of the reader's cursor, in a set; empty at first
  hasMore,    \* what the last page said
  opening     \* history: the user's rows when the first page was read

dbVars == <<wallets, committed, holder, open, ledger, ids, writes>>
readVars == <<got, cursor, hasMore, opening>>
ledgerVars == <<dbVars, readVars, clock>>

Columns == {"available", "locked"}
Balances == [AVAILABLE |-> "available", LOCKED |-> "locked"]
Closed == [wallet |-> "none", read |-> [b \in Columns |-> 0], rows |-> {}]

-----------------------------------------------------------------------------
(* The ledger's rows and how they are listed.                              *)

\* The order of the list: createdAt, then id, both descending.
Newer(e, f) == e.at > f.at \/ (e.at = f.at /\ e.id > f.id)
Descending(rows) == [i \in 1 .. Cardinality(rows) |->
  CHOOSE e \in rows : Cardinality({f \in rows : Newer(f, e)}) = i - 1]

RowsOf(rows, w, type) == {e \in rows : e.wallet = w /\ e.type = type}

\* A list of the rows of one balance, newest first, accounts for it: the oldest
\* starts from nothing, each starts where the one before ended, and the newest
\* ends at the balance.
Accounts(list, balance) ==
  LET before(i) == IF i = Len(list) THEN 0 ELSE list[i + 1].after IN
  /\ \A i \in 1 .. Len(list) :
       list[i].before = before(i) /\ list[i].after = before(i) + list[i].amount
  /\ balance = before(0)

Explains(rows, balances) ==
  \A w \in Wallets, type \in DOMAIN Balances :
    Accounts(Descending(RowsOf(rows, w, type)), balances[w][Balances[type]])

StartLedger ==
  {[id |-> i, at |-> 0, wallet |-> StartRows[i].wallet, type |-> StartRows[i].type,
    amount |-> StartRows[i].amount, before |-> StartRows[i].before,
    after |-> StartRows[i].after] : i \in 1 .. Len(StartRows)}

\* The books are in order at the start.
ASSUME StartAssumption ==
  /\ StartBalances \in [Wallets -> [Columns -> Nat]]
  /\ StartRows \in Seq([wallet : Wallets, type : DOMAIN Balances,
                        amount : Int, before : Int, after : Int])
  /\ Explains(StartLedger, StartBalances)

LedgerInit ==
  /\ wallets = StartBalances
  /\ committed = StartBalances
  /\ holder = [w \in Wallets |-> "none"]
  /\ open = [t \in Transactions |-> Closed]
  /\ ledger = StartLedger
  /\ clock = 0 /\ ids = Len(StartRows) /\ writes = 0
  /\ got = <<>> /\ cursor = {} /\ hasMore = TRUE /\ opening = {}

-----------------------------------------------------------------------------
(* Transactions.                                                           *)

\* Fault: the row is read outside the transaction: the committed one.
ReadsCommitted(t, w) == committed[w]

\* What lockRow reads: the row itself, once no other transaction has it.
Reads(t, w) == wallets[w]

lockRow(t, w) ==
  /\ open[t].wallet = "none"
  /\ holder[w] \in {"none", t}
  /\ holder' = [holder EXCEPT ![w] = t]
  /\ open' = [open EXCEPT ![t].wallet = w, ![t].read = Reads(t, w)]
  /\ UNCHANGED <<wallets, committed, ledger, clock, ids, writes, readVars>>

\* The change of each balance by a method of the service.
Change(method, x) ==
  CASE method = "moveAvailableToLocked" -> [available |-> -x, locked |-> x]
    [] method = "moveLockedToAvailable" -> [available |-> x, locked |-> -x]
    [] method = "creditAvailable"       -> [available |-> x, locked |-> 0]
    [] method = "debitLocked"           -> [available |-> 0, locked |-> -x]
    [] method = "debitAvailable"        -> [available |-> -x, locked |-> 0]
Methods == {"moveAvailableToLocked", "moveLockedToAvailable", "creditAvailable",
            "debitLocked", "debitAvailable"}

\* The rows a change writes, the one for AVAILABLE first.
Entries(t, change) ==
  LET types == {type \in DOMAIN Balances : change[Balances[type]] # 0}
      entry(type) == LET b == Balances[type] IN
        [id |-> ids + (IF type = "LOCKED" /\ "AVAILABLE" \in types THEN 2 ELSE 1),
         at |-> clock, wallet |-> open[t].wallet, type |-> type,
         amount |-> change[b], before |-> open[t].read[b], after |-> open[t].read[b] + change[b]]
  IN {entry(type) : type \in types}

\* The rest of the method: the balances it read suffice, both columns move
\* by increments and the entries are written.
Write(t, method, x) ==
  LET w == open[t].wallet
      change == Change(method, x)
      rows == Entries(t, change) IN
  /\ writes < MaxWrites
  /\ w # "none"
  /\ \A b \in Columns : open[t].read[b] + change[b] >= 0
  /\ wallets' = [wallets EXCEPT ![w] = [b \in Columns |-> @[b] + change[b]]]
  /\ open' = [open EXCEPT ![t].wallet = "none", ![t].rows = @ \cup rows]
  /\ ids' = ids + Cardinality(rows)
  /\ writes' = writes + 1
  /\ UNCHANGED <<committed, holder, ledger, clock, readVars>>

Held(t) == {w \in Wallets : holder[w] = t}

Commit(t) ==
  /\ open[t].wallet = "none" /\ Held(t) # {}
  /\ committed' = [w \in Wallets |-> IF w \in Held(t) THEN wallets[w] ELSE committed[w]]
  /\ ledger' = ledger \cup open[t].rows
  /\ holder' = [w \in Wallets |-> IF w \in Held(t) THEN "none" ELSE holder[w]]
  /\ open' = [open EXCEPT ![t] = Closed]
  /\ UNCHANGED <<wallets, clock, ids, writes, readVars>>

\* A method throws, a statement fails, or the database breaks a deadlock.
Rollback(t) ==
  /\ Held(t) # {}
  /\ wallets' = [w \in Wallets |-> IF w \in Held(t) THEN committed[w] ELSE wallets[w]]
  /\ holder' = [w \in Wallets |-> IF w \in Held(t) THEN "none" ELSE holder[w]]
  /\ open' = [open EXCEPT ![t] = Closed]
  /\ UNCHANGED <<committed, ledger, clock, ids, writes, readVars>>

Tick ==
  /\ clock < MaxClock
  /\ clock' = clock + 1
  /\ UNCHANGED <<dbVars, readVars>>

-----------------------------------------------------------------------------
(* The reader.                                                             *)

Mine == {e \in ledger : e.wallet \in Read}

\* Fault: the filter compares createdAt alone.
AfterCursorByTime(e) == \A c \in cursor : e.at < c.at
\* buildCursorWhere: what the list has after the cursor's row.
AfterCursor(e) == \A c \in cursor : Newer(c, e)

\* getMyLedger asks for one row more than the page; buildPaginatedResult
\* keeps it off the page and gives the page's last row as the next cursor.
getMyLedger ==
  LET rows == Descending({e \in Mine : AfterCursor(e)})
      items == SubSeq(rows, 1, IF Len(rows) > Limit THEN Limit ELSE Len(rows)) IN
  /\ hasMore
  /\ hasMore' = (Len(rows) > Limit)
  /\ got' = got \o items
  /\ cursor' = IF items = <<>> THEN {} ELSE {items[Len(items)]}
  /\ opening' = IF got = <<>> THEN Mine ELSE opening
  /\ UNCHANGED <<dbVars, clock>>

LedgerNext ==
  \/ \E t \in Transactions :
       \/ \E w \in Touched : lockRow(t, w)
       \/ \E method \in Methods, x \in Amounts : Write(t, method, x)
       \/ Commit(t) \/ Rollback(t)
  \/ Tick
  \/ getMyLedger

LedgerSpec == LedgerInit /\ [][LedgerNext]_ledgerVars

-----------------------------------------------------------------------------
(* Properties.                                                             *)

(* The ledger explains every balance: listed in the order users see, the   *)
(* entries of a wallet's balance start from nothing, each starts where the *)
(* one before ended, and the last ends at the balance itself, whichever    *)
(* transactions overlapped, waited or rolled back.                         *)
LedgerExplains == Explains(ledger, committed)

(* Paging loses and repeats nothing: rows come in the order of the list,   *)
(* none twice, and every row there was at the first page has come once the *)
(* pages have passed it, though entries are committed in between, some     *)
(* with a createdAt the reader is past.                                    *)
PagesComplete ==
  /\ \A i, j \in DOMAIN got : i < j => Newer(got[i], got[j])
  /\ \A e \in opening : (hasMore => ~AfterCursor(e)) => e \in Range(got)
=============================================================================
