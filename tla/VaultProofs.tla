---------------------------- MODULE VaultProofs ----------------------------
(***************************************************************************)
(* Proofs about the contracts, for every set of accounts, tokens, amounts  *)
(* and references and any number of calls.                                 *)
(***************************************************************************)
EXTENDS Vault, TLAPS

Deposited == [reference : References, depositor : Callers, token : Tokens, amount : Amounts]
Claimed == [user : Callers, token : Tokens, at : Nat, cooldown : Nat]

Types ==
  /\ balances \in [Tokens -> [Accounts -> Nat]]
  /\ config \in [Tokens -> [supported : BOOLEAN, amount : Nat, cooldown : Nat]]
  /\ lastClaimAt \in [Tokens -> [Callers -> Nat]]
  /\ now \in Nat
  /\ total \in [Tokens -> Nat]
  /\ deposits \in Seq(Deposited)
  /\ claims \in Seq(Claimed)

\* A token that was never listed has no deposits: Backed alone would not
\* survive the recovery of a token that is not listed yet.
UnlistedEmpty == \A t \in Tokens \ delisted : t \notin supported => total[t] = 0

\* Every deposit's key is spent.
KeysSpent == \A i \in 1 .. Len(deposits) :
  <<deposits[i].reference, deposits[i].depositor>> \in usedKeys

\* lastClaimAt is never before a claim it stands for.
ClaimsPast == \A i \in 1 .. Len(claims) :
  claims[i].at <= lastClaimAt[claims[i].token][claims[i].user]

Inv == Types /\ Backed /\ UnlistedEmpty /\ KeysSpent /\ ReferencesOnce /\ ClaimsPast /\ Paced

-----------------------------------------------------------------------------
(* What the ERC-20 operators do to the vault's balance.                    *)

LEMMA TransferTypes ==
  ASSUME balances \in [Tokens -> [Accounts -> Nat]],
         NEW t \in Tokens, NEW from \in Accounts, NEW to \in Accounts, NEW x \in Nat,
         balances[t][from] >= x
  PROVE  Transferred(t, from, to, x) \in [Tokens -> [Accounts -> Nat]]
BY DEF Transferred

LEMMA TransferKeeps ==
  ASSUME balances \in [Tokens -> [Accounts -> Nat]],
         NEW t \in Tokens, NEW from \in Accounts, NEW to \in Accounts, NEW x \in Nat,
         from # TheVault, NEW s \in Tokens
  PROVE  Transferred(t, from, to, x)[s][TheVault] >= balances[s][TheVault]
BY DEF Transferred, Accounts

LEMMA TransferMoves ==
  ASSUME balances \in [Tokens -> [Accounts -> Nat]],
         NEW t \in Tokens, NEW from \in Accounts, NEW x \in Nat, from # TheVault
  PROVE  Transferred(t, from, TheVault, x)[t][TheVault] = balances[t][TheVault] + x
BY DEF Transferred, Accounts

LEMMA TransferElsewhere ==
  ASSUME balances \in [Tokens -> [Accounts -> Nat]],
         NEW t \in Tokens, NEW from \in Accounts, NEW to \in Accounts, NEW x \in Nat,
         NEW s \in Tokens, s # t
  PROVE  Transferred(t, from, to, x)[s] = balances[s]
BY DEF Transferred

LEMMA MintTypes ==
  ASSUME balances \in [Tokens -> [Accounts -> Nat]],
         NEW t \in Tokens, NEW to \in Accounts, NEW x \in Nat
  PROVE  /\ Minted(t, to, x) \in [Tokens -> [Accounts -> Nat]]
         /\ \A s \in Tokens : Minted(t, to, x)[s][TheVault] >= balances[s][TheVault]
<1>1. balances[t] \in [Accounts -> Nat]
  OBVIOUS
<1>2. [balances[t] EXCEPT ![to] = @ + x] \in [Accounts -> Nat]
  BY <1>1
<1>3. Minted(t, to, x) = [balances EXCEPT ![t] = [balances[t] EXCEPT ![to] = @ + x]]
  BY DEF Minted
<1>4. \A s \in Tokens : Minted(t, to, x)[s][TheVault] >= balances[s][TheVault]
  BY <1>2, <1>3 DEF Accounts
<1> QED BY <1>2, <1>3, <1>4

-----------------------------------------------------------------------------
(* Steps that leave the histories of deposits and claims alone preserve    *)
(* the invariant when they keep the types and take nothing from the vault. *)

HistoryKept == UNCHANGED <<usedKeys, deposits, total, delisted, claims, lastClaimAt>>
VaultKeeps == \A s \in Tokens : balances'[s][TheVault] >= balances[s][TheVault]

LEMMA Harmless ==
  ASSUME Inv, Types', HistoryKept, VaultKeeps, supported \subseteq supported'
  PROVE  Inv'
<1>1. Backed'
  <2> SUFFICES ASSUME NEW t \in Tokens, t \notin delisted
               PROVE  balances'[t][TheVault] >= total[t]
    BY DEF Backed, HistoryKept
  <2>1. balances[t][TheVault] >= total[t]
    BY DEF Inv, Backed
  <2>2. balances'[t][TheVault] >= balances[t][TheVault]
    BY DEF VaultKeeps
  <2>3. TheVault \in Accounts
    BY DEF Accounts
  <2>4. balances[t][TheVault] \in Nat /\ balances'[t][TheVault] \in Nat /\ total[t] \in Nat
    BY <2>3 DEF Inv, Types
  <2> QED BY <2>1, <2>2, <2>4
<1>2. UnlistedEmpty'
  BY DEF Inv, UnlistedEmpty, HistoryKept
<1>3. KeysSpent' /\ ReferencesOnce' /\ ClaimsPast' /\ Paced'
  BY DEF Inv, KeysSpent, ReferencesOnce, ClaimsPast, Paced, HistoryKept
<1> QED BY <1>1, <1>2, <1>3 DEF Inv

LEMMA InitInv == Init => Inv
<1> SUFFICES ASSUME Init PROVE Inv
  OBVIOUS
<1>1. Types
  BY AmountsAssumption DEF Init, Types
<1>2. Backed /\ UnlistedEmpty
  BY DEF Init, Backed, UnlistedEmpty, Accounts
<1>3. KeysSpent /\ ReferencesOnce /\ ClaimsPast /\ Paced
  BY DEF Init, KeysSpent, ReferencesOnce, ClaimsPast, Paced
<1> QED BY <1>1, <1>2, <1>3 DEF Inv

LEMMA DepositInv ==
  ASSUME Inv, NEW u \in Callers, NEW t \in Tokens, NEW x \in Amounts, NEW ref \in References,
         Deposit(u, t, x, ref)
  PROVE  Inv'
<1> DEFINE e == [reference |-> ref, depositor |-> u, token |-> t, amount |-> x]
<1>1. x \in Nat /\ u \in Accounts /\ TheVault \in Accounts /\ u # TheVault
  BY AmountsAssumption, AccountsAssumption DEF Callers, Accounts
<1>2. /\ deposits' = Append(deposits, e) /\ e \in Deposited
      /\ <<ref, u>> \notin usedKeys /\ usedKeys' = usedKeys \cup {<<ref, u>>}
  BY DEF Deposit, DepositKey, Deposited
<1>3. Types'
  <2>1. balances' \in [Tokens -> [Accounts -> Nat]]
    BY <1>1, TransferTypes DEF Deposit, Inv, Types
  <2>2. total' \in [Tokens -> Nat]
    BY <1>1 DEF Deposit, Inv, Types
  <2>3. deposits' \in Seq(Deposited)
    BY <1>2 DEF Inv, Types
  <2> QED BY <2>1, <2>2, <2>3 DEF Deposit, Inv, Types, faucetVars
<1>4. Backed'
  <2> SUFFICES ASSUME NEW s \in Tokens, s \notin delisted
               PROVE  balances'[s][TheVault] >= total'[s]
    BY DEF Backed, Deposit
  <2>1. balances[s][TheVault] >= total[s] /\ balances[s][TheVault] \in Nat /\ total[s] \in Nat
    BY <1>1 DEF Inv, Backed, Types
  <2>2. CASE s = t
    <3>1. balances'[s][TheVault] = balances[s][TheVault] + x
      BY <1>1, <2>2, TransferMoves DEF Deposit, Inv, Types
    <3>2. total'[s] = total[s] + x
      BY <2>2 DEF Deposit, Inv, Types
    <3> QED BY <1>1, <2>1, <3>1, <3>2
  <2>3. CASE s # t
    <3>1. balances'[s] = balances[s]
      BY <1>1, <2>3 DEF Deposit, Transferred, Inv, Types
    <3>2. total'[s] = total[s]
      BY <2>3 DEF Deposit, Inv, Types
    <3> QED BY <2>1, <3>1, <3>2
  <2> QED BY <2>2, <2>3
<1>5. UnlistedEmpty'
  BY DEF Inv, Types, UnlistedEmpty, Deposit
<1>6. \A i \in 1 .. Len(deposits') : deposits'[i] = IF i <= Len(deposits) THEN deposits[i] ELSE e
  BY <1>2 DEF Inv, Types
<1>7. Len(deposits') = Len(deposits) + 1 /\ Len(deposits) \in Nat
  BY <1>2 DEF Inv, Types
<1>8. KeysSpent'
  <2> SUFFICES ASSUME NEW i \in 1 .. Len(deposits')
               PROVE  <<deposits'[i].reference, deposits'[i].depositor>> \in usedKeys'
    BY DEF KeysSpent
  <2>1. CASE i <= Len(deposits)
    BY <1>2, <1>6, <1>7, <2>1 DEF Inv, KeysSpent
  <2>2. CASE ~(i <= Len(deposits))
    BY <1>2, <1>6, <2>2
  <2> QED BY <2>1, <2>2
<1>9. ReferencesOnce'
  <2> SUFFICES ASSUME NEW i \in 1 .. Len(deposits'), NEW j \in 1 .. Len(deposits'),
                      deposits'[i].reference = deposits'[j].reference,
                      deposits'[i].depositor = deposits'[j].depositor
               PROVE  i = j
    BY DEF ReferencesOnce
  <2>1. CASE i <= Len(deposits) /\ j <= Len(deposits)
    BY <1>6, <1>7, <2>1 DEF Inv, ReferencesOnce
  <2>2. CASE i <= Len(deposits) /\ ~(j <= Len(deposits))
    <3>1. deposits[i].reference = ref /\ deposits[i].depositor = u
      BY <1>6, <2>2
    <3> QED BY <1>2, <1>7, <2>2, <3>1 DEF Inv, KeysSpent
  <2>3. CASE ~(i <= Len(deposits)) /\ j <= Len(deposits)
    <3>1. deposits[j].reference = ref /\ deposits[j].depositor = u
      BY <1>6, <2>3
    <3> QED BY <1>2, <1>7, <2>3, <3>1 DEF Inv, KeysSpent
  <2>4. CASE ~(i <= Len(deposits)) /\ ~(j <= Len(deposits))
    BY <1>7, <2>4
  <2> QED BY <2>1, <2>2, <2>3, <2>4
<1>10. ClaimsPast' /\ Paced'
  BY DEF Deposit, Inv, ClaimsPast, Paced, faucetVars
<1> QED BY <1>3, <1>4, <1>5, <1>8, <1>9, <1>10 DEF Inv

LEMMA RecoverInv ==
  ASSUME Inv, NEW t \in Tokens, NEW to \in Callers, NEW x \in Amounts, RecoverERC20(t, to, x)
  PROVE  Inv'
<1>1. x \in Nat /\ to \in Accounts /\ TheVault \in Accounts
  BY AmountsAssumption DEF Callers, Accounts
<1>2. Types'
  <2>1. balances' \in [Tokens -> [Accounts -> Nat]]
    BY <1>1, TransferTypes DEF RecoverERC20, Inv, Types
  <2> QED BY <2>1 DEF RecoverERC20, Inv, Types, faucetVars, vaultVars
<1>3. Backed'
  <2> SUFFICES ASSUME NEW s \in Tokens, s \notin delisted
               PROVE  balances'[s][TheVault] >= total[s]
    BY DEF Backed, RecoverERC20, vaultVars
  <2>1. CASE s = t
    <3>1. total[s] = 0
      BY <2>1 DEF RecoverERC20, Recoverable, Inv, UnlistedEmpty
    <3> QED BY <1>1, <1>2, <3>1 DEF Types
  <2>2. CASE s # t
    <3>1. balances'[s] = balances[s]
      BY <1>1, <2>2, TransferElsewhere, SMTT(60) DEF RecoverERC20, Inv, Types
    <3> QED BY <3>1 DEF Inv, Backed
  <2> QED BY <2>1, <2>2
<1>4. UnlistedEmpty' /\ KeysSpent' /\ ReferencesOnce' /\ ClaimsPast' /\ Paced'
  BY DEF Inv, UnlistedEmpty, KeysSpent, ReferencesOnce, ClaimsPast, Paced, RecoverERC20,
         vaultVars, faucetVars
<1> QED BY <1>2, <1>3, <1>4 DEF Inv

LEMMA ClaimInv ==
  ASSUME Inv, NEW u \in Callers, NEW t \in Tokens, Claim(u, t)
  PROVE  Inv'
<1> DEFINE e == [user |-> u, token |-> t, at |-> now, cooldown |-> config[t].cooldown]
<1>1. u \in Accounts /\ config[t].amount \in Nat /\ config[t].cooldown \in Nat
  BY DEF Callers, Accounts, Inv, Types
<1>2. claims' = Append(claims, e) /\ e \in Claimed
  BY <1>1 DEF Claim, Claimed, Inv, Types
<1>3. /\ balances' \in [Tokens -> [Accounts -> Nat]]
      /\ \A s \in Tokens : balances'[s][TheVault] >= balances[s][TheVault]
  BY <1>1, MintTypes DEF Claim, Inv, Types
<1>4. /\ lastClaimAt' \in [Tokens -> [Callers -> Nat]]
      /\ lastClaimAt'[t][u] = now
      /\ \A s \in Tokens, v \in Callers : lastClaimAt[s][v] <= lastClaimAt'[s][v]
  <2>1. lastClaimAt' = [lastClaimAt EXCEPT ![t][u] = now]
    BY DEF Claim, ClaimedNow
  <2>2. lastClaimAt[t][u] <= now
    BY <1>1 DEF Claim, Inv, Types
  <2> QED BY <2>1, <2>2 DEF Inv, Types
<1>5. Types'
  BY <1>2, <1>3, <1>4 DEF Claim, Inv, Types, vaultVars
<1>6. Backed' /\ UnlistedEmpty'
  <2>1. Backed'
    <3> SUFFICES ASSUME NEW s \in Tokens, s \notin delisted
                 PROVE  balances'[s][TheVault] >= total[s]
      BY DEF Backed, Claim, vaultVars
    <3>1. balances[s][TheVault] >= total[s]
      BY DEF Inv, Backed
    <3>2. TheVault \in Accounts
      BY DEF Accounts
    <3>3. balances[s][TheVault] \in Nat /\ balances'[s][TheVault] \in Nat /\ total[s] \in Nat
      BY <1>3, <3>2 DEF Inv, Types
    <3> QED BY <1>3, <3>1, <3>3
  <2> QED BY <2>1 DEF Inv, UnlistedEmpty, Claim, vaultVars
<1>7. KeysSpent' /\ ReferencesOnce'
  BY DEF Inv, KeysSpent, ReferencesOnce, Claim, vaultVars
<1>8. /\ Len(claims') = Len(claims) + 1 /\ Len(claims) \in Nat
      /\ \A i \in 1 .. Len(claims') : claims'[i] = IF i <= Len(claims) THEN claims[i] ELSE e
  BY <1>2 DEF Inv, Types
<1>9. \A i \in 1 .. Len(claims) : claims[i] \in Claimed
  BY DEF Inv, Types
<1>10. ClaimsPast'
  <2> SUFFICES ASSUME NEW i \in 1 .. Len(claims')
               PROVE  claims'[i].at <= lastClaimAt'[claims'[i].token][claims'[i].user]
    BY DEF ClaimsPast
  <2>1. CASE i <= Len(claims)
    <3>1. claims'[i] = claims[i] /\ claims[i] \in Claimed
      BY <1>8, <1>9, <2>1
    <3>2. claims[i].at <= lastClaimAt[claims[i].token][claims[i].user]
      BY <1>8, <2>1 DEF Inv, ClaimsPast
    <3>3. /\ claims[i].token \in Tokens /\ claims[i].user \in Callers /\ claims[i].at \in Nat
      BY <3>1 DEF Claimed
    <3>4. /\ lastClaimAt[claims[i].token][claims[i].user] \in Nat
          /\ lastClaimAt'[claims[i].token][claims[i].user] \in Nat
      BY <1>4, <3>3 DEF Inv, Types
    <3> QED BY <1>4, <3>1, <3>2, <3>3, <3>4
  <2>2. CASE ~(i <= Len(claims))
    <3>1. claims'[i] = e
      BY <1>8, <2>2
    <3> QED BY <1>4, <3>1 DEF Inv, Types
  <2> QED BY <2>1, <2>2
<1>11. Paced'
  <2> SUFFICES ASSUME NEW i \in 1 .. Len(claims'), NEW j \in 1 .. Len(claims'), i < j,
                      claims'[i].user = claims'[j].user, claims'[i].token = claims'[j].token
               PROVE  claims'[j].at >= claims'[i].at + claims'[j].cooldown
    BY DEF Paced
  <2>1. i <= Len(claims) /\ claims'[i] = claims[i] /\ claims[i] \in Claimed
    BY <1>8, <1>9
  <2>2. CASE j <= Len(claims)
    BY <1>8, <2>1, <2>2 DEF Inv, Paced
  <2>3. CASE ~(j <= Len(claims))
    <3>1. claims'[j] = e
      BY <1>8, <2>3
    <3>2. claims[i].at <= lastClaimAt[t][u]
      BY <1>8, <2>1, <3>1 DEF Inv, ClaimsPast
    <3>3. now >= lastClaimAt[t][u] + config[t].cooldown
      BY DEF Claim
    <3>4. claims[i].at \in Nat /\ lastClaimAt[t][u] \in Nat /\ now \in Nat
      BY <2>1 DEF Claimed, Inv, Types
    <3> QED BY <1>1, <2>1, <3>1, <3>2, <3>3, <3>4
  <2> QED BY <2>2, <2>3
<1> QED BY <1>5, <1>6, <1>7, <1>10, <1>11 DEF Inv

LEMMA DelistInv ==
  ASSUME Inv, NEW t \in Tokens, NEW yes \in BOOLEAN, SetSupportedToken(t, yes)
  PROVE  Inv'
<1>1. Types'
  BY DEF SetSupportedToken, Inv, Types, tokenVars, faucetVars
<1>2. Backed' /\ UnlistedEmpty'
  BY DEF SetSupportedToken, Inv, Backed, UnlistedEmpty, tokenVars
<1>3. KeysSpent' /\ ReferencesOnce' /\ ClaimsPast' /\ Paced'
  BY DEF SetSupportedToken, Inv, KeysSpent, ReferencesOnce, ClaimsPast, Paced, faucetVars
<1> QED BY <1>1, <1>2, <1>3 DEF Inv

-----------------------------------------------------------------------------
LEMMA ConfigureInv ==
  ASSUME Inv, NEW t \in Tokens,
         NEW c \in [supported : BOOLEAN, amount : Nat, cooldown : Nat], Configure(t, c)
  PROVE  Inv'
<1>1. Types'
  BY DEF Configure, Inv, Types, tokenVars, vaultVars
<1>2. HistoryKept /\ VaultKeeps /\ supported \subseteq supported'
  <2>1. TheVault \in Accounts
    BY DEF Accounts
  <2> QED BY <2>1 DEF Configure, HistoryKept, VaultKeeps, Inv, Types, tokenVars, vaultVars
<1> QED BY <1>1, <1>2, Harmless

LEMMA SameBalances ==
  ASSUME Inv, balances' = balances
  PROVE  VaultKeeps
BY DEF VaultKeeps, Inv, Types, Accounts

LEMMA DeployInv ==
  ASSUME Inv, NEW i \in 1 .. TokenCount, Deploy(i)
  PROVE  Inv'
<1>1. TokenConfigs[i] \in Tokens
  BY DEF Tokens
<1>2. CASE DeployFaucet(i)
  <2>1. CASE Configure(TokenConfigs[i], [supported |-> TRUE, amount |-> ClaimAmount, cooldown |-> Cooldown])
    BY <1>1, <2>1, ConfigureInv, AmountsAssumption
  <2>2. CASE /\ minters' = minters \cup {<<TokenConfigs[i], Faucet>>}
             /\ UNCHANGED <<balances, faucetVars, vaultVars, paused, now>>
    <3>1. Types' /\ HistoryKept /\ supported \subseteq supported'
      BY <2>2 DEF Inv, Types, HistoryKept, faucetVars, vaultVars
    <3> QED BY <2>2, <3>1, SameBalances, Harmless
  <2> QED BY <1>2, <2>1, <2>2 DEF DeployFaucet
<1>3. CASE DeployVault(i)
  <2>1. Types' /\ HistoryKept /\ supported \subseteq supported' /\ balances' = balances
    BY <1>3 DEF DeployVault, Inv, Types, HistoryKept, tokenVars, faucetVars
  <2> QED BY <2>1, SameBalances, Harmless
<1> QED BY <1>2, <1>3 DEF Deploy

LEMMA HolderInv ==
  ASSUME Inv, NEW t \in Tokens, NEW x \in Amounts, NEW to \in Accounts
  PROVE  /\ \A from \in Callers : Transfer(t, from, to, x) => Inv'
         /\ Mint(t, to, x) => Inv'
         /\ SetClaimAmount(t, x) => Inv'
<1>1. x \in Nat
  BY AmountsAssumption
<1>2. ASSUME NEW from \in Callers, Transfer(t, from, to, x)
      PROVE  Inv'
  <2>1. from \in Accounts /\ from # TheVault
    BY AccountsAssumption DEF Callers, Accounts
  <2>2. Types'
    <3>1. balances' \in [Tokens -> [Accounts -> Nat]]
      BY <1>1, <1>2, <2>1, TransferTypes DEF Transfer, Inv, Types
    <3> QED BY <1>2, <3>1 DEF Transfer, Inv, Types, faucetVars, vaultVars
  <2>3. VaultKeeps
    BY <1>1, <1>2, <2>1, TransferKeeps DEF Transfer, VaultKeeps, Inv, Types
  <2>4. HistoryKept /\ supported \subseteq supported'
    BY <1>2 DEF Transfer, HistoryKept, faucetVars, vaultVars
  <2> QED BY <2>2, <2>3, <2>4, Harmless
<1>3. ASSUME Mint(t, to, x)
      PROVE  Inv'
  <2>1. Types' /\ VaultKeeps
    BY <1>1, <1>3, MintTypes DEF Mint, VaultKeeps, Inv, Types, faucetVars, vaultVars
  <2>2. HistoryKept /\ supported \subseteq supported'
    BY <1>3 DEF Mint, HistoryKept, faucetVars, vaultVars
  <2> QED BY <2>1, <2>2, Harmless
<1>4. ASSUME SetClaimAmount(t, x)
      PROVE  Inv'
  <2>1. [config[t] EXCEPT !.amount = x] \in [supported : BOOLEAN, amount : Nat, cooldown : Nat]
    BY <1>1 DEF Inv, Types
  <2> QED BY <1>4, <2>1, ConfigureInv DEF SetClaimAmount
<1> QED BY <1>2, <1>3, <1>4

LEMMA QuietInv ==
  ASSUME Inv
  PROVE  /\ \A t \in Tokens : GrantMinter(t) => Inv'
         /\ \A c \in {TheVault, Faucet} : Pause(c) => Inv'
         /\ Tick => Inv'
         /\ UNCHANGED vars => Inv'
<1>1. ASSUME Types', HistoryKept, supported' = supported, balances' = balances
      PROVE  Inv'
  BY <1>1, SameBalances, Harmless
<1>2. ASSUME NEW t \in Tokens, GrantMinter(t)
      PROVE  Inv'
  BY <1>1, <1>2 DEF GrantMinter, Inv, Types, HistoryKept, faucetVars, vaultVars
<1>3. ASSUME NEW c \in {TheVault, Faucet}, Pause(c)
      PROVE  Inv'
  BY <1>1, <1>3 DEF Pause, Inv, Types, HistoryKept, tokenVars, faucetVars, vaultVars
<1>4. ASSUME Tick
      PROVE  Inv'
  BY <1>1, <1>4 DEF Tick, Inv, Types, HistoryKept, tokenVars, faucetVars, vaultVars
<1>5. ASSUME UNCHANGED vars
      PROVE  Inv'
  BY <1>1, <1>5 DEF vars, Inv, Types, HistoryKept, tokenVars, faucetVars, vaultVars
<1> QED BY <1>2, <1>3, <1>4, <1>5

LEMMA NextInv == Inv /\ [Next]_vars => Inv'
<1> SUFFICES ASSUME Inv, [Next]_vars PROVE Inv'
  OBVIOUS
<1>1. CASE \E i \in 1 .. TokenCount : Deploy(i)
  BY <1>1, DeployInv
<1>2. ASSUME NEW t \in Tokens, NEW x \in Amounts,
             \/ \E from \in Callers, to \in Accounts : Transfer(t, from, to, x)
             \/ \E to \in Callers : Mint(t, to, x)
             \/ SetClaimAmount(t, x)
      PROVE  Inv'
  <2>1. Admin \in Accounts /\ Callers \subseteq Accounts
    BY DEF Callers, Accounts
  <2> QED BY <1>2, <2>1, HolderInv
<1>3. ASSUME NEW t \in Tokens, NEW x \in Amounts, NEW u \in Callers, NEW ref \in References,
             Deposit(u, t, x, ref)
      PROVE  Inv'
  BY <1>3, DepositInv
<1>4. ASSUME NEW t \in Tokens, NEW x \in Amounts, NEW to \in Callers, RecoverERC20(t, to, x)
      PROVE  Inv'
  BY <1>4, RecoverInv
<1>5. ASSUME NEW t \in Tokens, NEW yes \in BOOLEAN, SetSupportedToken(t, yes)
      PROVE  Inv'
  BY <1>5, DelistInv
<1>6. ASSUME NEW u \in Callers, NEW t \in Tokens, Claim(u, t)
      PROVE  Inv'
  BY <1>6, ClaimInv
<1>7. ASSUME NEW t \in Tokens, NEW yes \in BOOLEAN, NEW cooldown \in {0, Cooldown},
             \/ SetTokenConfig(t, yes, ClaimAmount, Cooldown)
             \/ SetFaucetSupport(t, yes)
             \/ SetClaimCooldown(t, cooldown)
      PROVE  Inv'
  <2>1. config[t] \in [supported : BOOLEAN, amount : Nat, cooldown : Nat]
    BY DEF Inv, Types
  <2>2. CASE SetTokenConfig(t, yes, ClaimAmount, Cooldown)
    BY <2>2, AmountsAssumption, ConfigureInv DEF SetTokenConfig
  <2>3. CASE SetFaucetSupport(t, yes)
    <3>1. [config[t] EXCEPT !.supported = yes] \in [supported : BOOLEAN, amount : Nat, cooldown : Nat]
      BY <2>1
    <3> QED BY <2>3, <3>1, ConfigureInv DEF SetFaucetSupport
  <2>4. CASE SetClaimCooldown(t, cooldown)
    <3>1. [config[t] EXCEPT !.cooldown = cooldown] \in [supported : BOOLEAN, amount : Nat, cooldown : Nat]
      BY <2>1, AmountsAssumption
    <3> QED BY <2>4, <3>1, ConfigureInv DEF SetClaimCooldown
  <2> QED BY <1>7, <2>2, <2>3, <2>4
<1> QED BY <1>1, <1>2, <1>3, <1>4, <1>5, <1>6, <1>7, QuietInv DEF Next

-----------------------------------------------------------------------------
THEOREM Invariance == Spec => []Inv
<1>1. Init => Inv
  BY InitInv
<1>2. Inv /\ [Next]_vars => Inv'
  BY NextInv
<1> QED BY <1>1, <1>2, PTL DEF Spec

(* What Deposited reported of a token that stayed listed is in the vault.  *)
THEOREM VaultBacked == Spec => []Backed
<1>1. Inv => Backed
  BY DEF Inv
<1> QED BY <1>1, Invariance, PTL

(* A depositor's reference is spent by its first deposit, in any token.    *)
THEOREM ReferencesSpent == Spec => []ReferencesOnce
<1>1. Inv => ReferencesOnce
  BY DEF Inv
<1> QED BY <1>1, Invariance, PTL

(* Claims keep the cooldown through every change of the configuration.     *)
THEOREM ClaimsPaced == Spec => []Paced
<1>1. Inv => Paced
  BY DEF Inv
<1> QED BY <1>1, Invariance, PTL
=============================================================================
