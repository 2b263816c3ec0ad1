------------------------------- MODULE Vault -------------------------------
(***************************************************************************)
(* The contracts: ExchangeVault, which takes deposits of supported ERC-20  *)
(* tokens, TokenFaucet, which mints test tokens, MockERC20, and the script *)
(* that deploys and configures them (contracts/scripts/deploy.ts).         *)
(*                                                                         *)
(* A transaction is one action: the chain orders transactions, and one     *)
(* that reverts changes nothing and is an action that is not enabled.  So  *)
(* amounts are positive and References and Accounts leave out the zero     *)
(* reference and the zero address, which deposit and recoverERC20 refuse.  *)
(* Allowances are left out: a depositor approves the vault beforehand.     *)
(***************************************************************************)
EXTENDS Naturals, Sequences

CONSTANTS
  TokenConfigs,    \* the tokens of TOKEN_CONFIGS, in the order of the script
  Users,           \* who holds tokens; they deposit, claim and transfer
  Admin, TheVault, Faucet,  \* the deployer and the addresses of two contracts
  References,      \* accountReferences
  Amounts,         \* amounts of a deposit, transfer, mint or recovery
  ClaimAmount, Cooldown,    \* faucetClaimAmount and faucetCooldown
  MaxCalls         \* bound: transactions other than the script's

ASSUME AccountsAssumption == /\ Admin \notin Users \cup {TheVault, Faucet}
                             /\ TheVault \notin Users \cup {Faucet}
                             /\ Faucet \notin Users
ASSUME AmountsAssumption == Amounts \subseteq Nat \ {0} /\ ClaimAmount \in Nat /\ Cooldown \in Nat

VARIABLES
  balances,    \* balances[t][a]: MockERC20 t's balance of account a
  minters,     \* pairs <<t, a>>: a has MINTER_ROLE on t
  config,      \* config[t]: TokenFaucet's supported, amount and cooldown of t
  lastClaimAt, \* lastClaimAt[t][u]
  supported,   \* the vault's supportedTokens
  usedKeys,    \* the vault's usedDepositKeys: pairs <<reference, depositor>>
  paused,      \* the contracts that are paused
  now,         \* block.timestamp, in cooldowns
  deployed,    \* configuration transactions the script has made
  calls,       \* other transactions so far, for the bound
  deposits,    \* history: the Deposited events
  total,       \* history: total[t], the sum of the amounts of t's Deposited
  delisted,    \* history: the tokens ever taken off supportedTokens
  claims       \* history: the faucet's claims, with the cooldown in force

tokenVars == <<balances, minters>>
faucetVars == <<config, lastClaimAt, claims>>
vaultVars == <<supported, usedKeys, deposits, total, delisted>>
vars == <<tokenVars, faucetVars, vaultVars, paused, now, deployed, calls>>

TokenCount == Len(TokenConfigs)
Tokens == {TokenConfigs[i] : i \in 1 .. TokenCount}
Accounts == Users \cup {Admin, TheVault, Faucet}
Callers == Users \cup {Admin}   \* who signs transactions

Called == calls < MaxCalls /\ calls' = calls + 1 /\ UNCHANGED deployed

-----------------------------------------------------------------------------
(* ERC20 (OpenZeppelin) and MockERC20.                                     *)

Transferred(t, from, to, x) ==
  [balances EXCEPT ![t][from] = @ - x, ![t][to] = @ + x]
Minted(t, to, x) == [balances EXCEPT ![t][to] = @ + x]

\* transfer by a holder: to the vault too, which no Deposited then reports.
Transfer(t, from, to, x) ==
  /\ Called
  /\ balances[t][from] >= x
  /\ balances' = Transferred(t, from, to, x)
  /\ UNCHANGED <<minters, faucetVars, vaultVars, paused, now>>

\* The administrator makes itself a minter.
GrantMinter(t) ==
  /\ Called
  /\ minters' = minters \cup {<<t, Admin>>}
  /\ UNCHANGED <<balances, faucetVars, vaultVars, paused, now>>

Mint(t, to, x) ==
  /\ Called
  /\ <<t, Admin>> \in minters
  /\ balances' = Minted(t, to, x)
  /\ UNCHANGED <<minters, faucetVars, vaultVars, paused, now>>

-----------------------------------------------------------------------------
(* ExchangeVault.                                                          *)

\* Fault: the key of a deposit holds its amount instead of its depositor.
KeyByAmount(u, ref, t, x) == <<ref, t>>
\* depositKey: one use per reference and depositor, whatever the token.
DepositKey(u, ref, t, x) == <<ref, u>>

Deposit(u, t, x, ref) ==
  /\ Called
  /\ TheVault \notin paused
  /\ t \in supported
  /\ DepositKey(u, ref, t, x) \notin usedKeys
  /\ usedKeys' = usedKeys \cup {DepositKey(u, ref, t, x)}
  /\ balances[t][u] >= x
  /\ balances' = Transferred(t, u, TheVault, x)
  /\ deposits' = Append(deposits, [reference |-> ref, depositor |-> u, token |-> t, amount |-> x])
  /\ total' = [total EXCEPT ![t] = @ + x]
  /\ UNCHANGED <<minters, faucetVars, supported, delisted, paused, now>>

SetSupportedToken(t, yes) ==
  /\ Called
  /\ supported' = IF yes THEN supported \cup {t} ELSE supported \ {t}
  /\ delisted' = IF yes THEN delisted ELSE delisted \cup {t}
  /\ UNCHANGED <<tokenVars, faucetVars, usedKeys, deposits, total, paused, now>>

\* Fault: recoverERC20 compares with nothing.
RecoverableAlways(t) == t \in Tokens
\* recoverERC20 refuses a supported token.
Recoverable(t) == t \notin supported

RecoverERC20(t, to, x) ==
  /\ Called
  /\ Recoverable(t)
  /\ balances[t][TheVault] >= x
  /\ balances' = Transferred(t, TheVault, to, x)
  /\ UNCHANGED <<minters, faucetVars, vaultVars, paused, now>>

\* pause and unpause of either contract; each reverts when it has no effect.
Pause(c) ==
  /\ Called
  /\ paused' = IF c \in paused THEN paused \ {c} ELSE paused \cup {c}
  /\ UNCHANGED <<tokenVars, faucetVars, vaultVars, now>>

-----------------------------------------------------------------------------
(* TokenFaucet.                                                            *)

\* Fault: the next cooldown is counted from the end of the one before.
ClaimedAtLeast(t, u) == [lastClaimAt EXCEPT ![t][u] = @ + config[t].cooldown]
\* A claim starts the caller's next cooldown, for this token.
ClaimedNow(t, u) == [lastClaimAt EXCEPT ![t][u] = now]

Claim(u, t) ==
  /\ Called
  /\ Faucet \notin paused
  /\ config[t].supported
  /\ config[t].amount > 0
  /\ now >= lastClaimAt[t][u] + config[t].cooldown
  /\ <<t, Faucet>> \in minters
  /\ lastClaimAt' = ClaimedNow(t, u)
  /\ balances' = Minted(t, u, config[t].amount)
  /\ claims' = Append(claims, [user |-> u, token |-> t, at |-> now, cooldown |-> config[t].cooldown])
  /\ UNCHANGED <<minters, config, vaultVars, paused, now>>

Configure(t, c) ==
  /\ config' = [config EXCEPT ![t] = c]
  /\ UNCHANGED <<tokenVars, lastClaimAt, claims, vaultVars, paused, now>>

SetTokenConfig(t, yes, amount, cooldown) ==
  Called /\ Configure(t, [supported |-> yes, amount |-> amount, cooldown |-> cooldown])
SetFaucetSupport(t, yes) == Called /\ Configure(t, [config[t] EXCEPT !.supported = yes])
SetClaimAmount(t, amount) == Called /\ Configure(t, [config[t] EXCEPT !.amount = amount])
SetClaimCooldown(t, cooldown) == Called /\ Configure(t, [config[t] EXCEPT !.cooldown = cooldown])

-----------------------------------------------------------------------------
(* deploy.ts: the contracts exist from the start, with no role or support  *)
(* granted.  Its configuration transactions follow in order, while others  *)
(* already call the contracts; it may stop after any of them.              *)

Init ==
  /\ balances = [t \in Tokens |-> [a \in Accounts |-> 0]]
  /\ minters = {}
  /\ config = [t \in Tokens |-> [supported |-> FALSE, amount |-> 0, cooldown |-> 0]]
  /\ lastClaimAt = [t \in Tokens |-> [u \in Callers |-> 0]]
  /\ supported = {} /\ usedKeys = {} /\ paused = {}
  /\ now = Cooldown
  /\ deployed = 0 /\ calls = 0
  /\ deposits = <<>> /\ claims = <<>> /\ delisted = {}
  /\ total = [t \in Tokens |-> 0]

\* The minter role of the faucet and its configuration, token by token.
DeployFaucet(i) ==
  \/ /\ deployed = 2 * i - 2
     /\ minters' = minters \cup {<<TokenConfigs[i], Faucet>>}
     /\ UNCHANGED <<balances, faucetVars, vaultVars, paused, now>>
  \/ /\ deployed = 2 * i - 1
     /\ Configure(TokenConfigs[i], [supported |-> TRUE, amount |-> ClaimAmount, cooldown |-> Cooldown])

\* The vault's support, token by token.
DeployVault(i) ==
  /\ deployed = 2 * TokenCount + i - 1
  /\ supported' = supported \cup {TokenConfigs[i]}
  /\ UNCHANGED <<tokenVars, faucetVars, usedKeys, deposits, total, delisted, paused, now>>

Deploy(i) ==
  /\ DeployFaucet(i) \/ DeployVault(i)
  /\ deployed' = deployed + 1
  /\ UNCHANGED calls

\* The next block's time.
Tick ==
  /\ Called
  /\ now' = now + 1
  /\ UNCHANGED <<tokenVars, faucetVars, vaultVars, paused>>

Next ==
  \/ \E i \in 1 .. TokenCount : Deploy(i)
  \/ \E t \in Tokens, x \in Amounts :
       \/ \E from \in Callers, to \in Accounts : Transfer(t, from, to, x)
       \/ \E to \in Callers : Mint(t, to, x)
       \/ \E u \in Callers, ref \in References : Deposit(u, t, x, ref)
       \/ \E to \in Callers : RecoverERC20(t, to, x)
       \/ SetClaimAmount(t, x)
  \/ \E t \in Tokens : GrantMinter(t)
  \/ \E t \in Tokens, yes \in BOOLEAN : SetSupportedToken(t, yes)
  \/ \E c \in {TheVault, Faucet} : Pause(c)
  \/ \E u \in Callers, t \in Tokens : Claim(u, t)
  \/ \E t \in Tokens, yes \in BOOLEAN : SetTokenConfig(t, yes, ClaimAmount, Cooldown)
  \/ \E t \in Tokens, yes \in BOOLEAN : SetFaucetSupport(t, yes)
  \/ \E t \in Tokens, cooldown \in {0, Cooldown} : SetClaimCooldown(t, cooldown)
  \/ Tick

Spec == Init /\ [][Next]_vars

-----------------------------------------------------------------------------
(* Properties.                                                             *)

(* The backend credits what Deposited reports: of a token that was never   *)
(* taken off the list, the vault holds all of it.  Mistaken transfers may  *)
(* be recovered before the token is listed, deposits never.                *)
Backed == \A t \in Tokens \ delisted : balances[t][TheVault] >= total[t]

(* A depositor uses a reference once, in one token, so a Deposited event   *)
(* never answers a deposit intent that an earlier one of its depositor     *)
(* answered (another depositor may use the same reference: the intent's    *)
(* depositor tells them apart).                                            *)
ReferencesOnce ==
  \A i, j \in 1 .. Len(deposits) :
    /\ deposits[i].reference = deposits[j].reference
    /\ deposits[i].depositor = deposits[j].depositor
    => i = j

(* However the administrator changes the faucet between them, two claims   *)
(* of one user for one token are the cooldown of the later one apart.      *)
Paced ==
  \A i, j \in 1 .. Len(claims) :
    /\ i < j
    /\ claims[i].user = claims[j].user /\ claims[i].token = claims[j].token
    => claims[j].at >= claims[i].at + claims[j].cooldown
=============================================================================
