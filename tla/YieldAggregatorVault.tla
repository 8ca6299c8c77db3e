----------------------- MODULE YieldAggregatorVault ------------------------
(***************************************************************************)
(* The yield vault contract (yield-aggregator-vault/src/lib.rs): users     *)
(* deposit for shares and withdraw against them, the admin moves tokens to *)
(* a pool.  The totals are one number for all tokens, and the token of a   *)
(* call is whatever its caller names.  Nothing but rebalance asks that the *)
(* vault be initialized, and initialize sets the totals to zero.           *)
(***************************************************************************)
EXTENDS SorobanLedger

CONSTANTS VaultContract, YieldPool,
          MaxMoved       \* bound: on what rebalances and plain transfers move

ASSUME VaultAssumption ==
    /\ {VaultContract, YieldPool} \subseteq Contracts \ Funded /\ VaultContract # YieldPool
    /\ "none" \notin Accounts /\ MaxMoved \in Nat

NoAdmin == "none"

VARIABLES vaultAdmin, totalShares, totalAssets, userShares,
          orphaned,   \* history: the shares of deposits that initialize ran over
          movedOut    \* history: what rebalances took away, less plain transfers in

vaultVars == <<ledgerVars, vaultAdmin, totalShares, totalAssets, userShares, orphaned, movedOut>>

VaultInit ==
    /\ LedgerInit
    /\ vaultAdmin = NoAdmin
    /\ totalShares = 0 /\ totalAssets = 0
    /\ userShares = [u \in Accounts |-> 0]
    /\ orphaned = 0 /\ movedOut = 0

vault_initialize(admin) ==
    /\ vaultAdmin = NoAdmin
    /\ vaultAdmin' = admin
    /\ totalShares' = 0 /\ totalAssets' = 0
    /\ orphaned' = totalShares
    /\ UNCHANGED <<ledgerVars, userShares, movedOut>>

\* Mutant: the price already counts the deposit that is being priced.
SharesAfterTransfer(amount) ==
    IF totalShares = 0 THEN amount ELSE Quot(amount * totalShares, totalAssets + amount)

SharesFor(amount) ==
    IF totalShares = 0 THEN amount ELSE Quot(amount * totalShares, totalAssets)

vault_deposit(user, token, amount) ==
    /\ amount > 0
    /\ CanPay(balance, token, user, amount)
    /\ totalShares # 0 => totalAssets # 0
    /\ balance' = Paid(balance, token, user, VaultContract, amount)
    /\ userShares' = [userShares EXCEPT ![user] = @ + SharesFor(amount)]
    /\ totalShares' = totalShares + SharesFor(amount)
    /\ totalAssets' = totalAssets + amount
    /\ UNCHANGED <<now, vaultAdmin, orphaned, movedOut>>

vault_withdraw(user, token, shares) ==
    LET assets == Quot(shares * totalAssets, totalShares) IN
    /\ shares > 0 /\ userShares[user] >= shares
    /\ totalShares # 0
    /\ CanPay(balance, token, VaultContract, assets)
    /\ balance' = Paid(balance, token, VaultContract, user, assets)
    /\ userShares' = [userShares EXCEPT ![user] = @ - shares]
    /\ totalShares' = totalShares - shares
    /\ totalAssets' = totalAssets - assets
    /\ UNCHANGED <<now, vaultAdmin, orphaned, movedOut>>

\* The addresses a token may move to or from: the users', a pool, the vault's own.
Parties == Accounts \cup {YieldPool, VaultContract}

\* to_pool is any address the admin names; from_pool is only written to the event.
rebalance(to_pool, token, amount) ==
    /\ vaultAdmin # NoAdmin
    /\ amount > 0
    /\ CanPay(balance, token, VaultContract, amount)
    /\ balance' = Paid(balance, token, VaultContract, to_pool, amount)
    /\ movedOut' = IF to_pool = VaultContract THEN movedOut ELSE movedOut + amount
    /\ movedOut' <= MaxMoved
    /\ UNCHANGED <<now, vaultAdmin, totalShares, totalAssets, userShares, orphaned>>

\* A plain transfer of the token contract to the vault, of which it learns nothing.
PlainTransfer(from, token, amount) ==
    /\ CanPay(balance, token, from, amount)
    /\ balance' = Paid(balance, token, from, VaultContract, amount)
    /\ movedOut' = movedOut - amount /\ -MaxMoved <= movedOut'
    /\ UNCHANGED <<now, vaultAdmin, totalShares, totalAssets, userShares, orphaned>>

VaultNext ==
    \/ \E u \in Accounts : vault_initialize(u)
    \/ \E u \in Accounts, t \in Tokens, a \in Amounts :
         vault_deposit(u, t, a) \/ vault_withdraw(u, t, a)
    \/ \E p \in Parties, t \in Tokens, a \in Amounts :
         rebalance(p, t, a) \/ (p # VaultContract /\ PlainTransfer(p, t, a))

VaultSpec == VaultInit /\ [][VaultNext]_vaultVars
-----------------------------------------------------------------------------
VaultTypeOK ==
    /\ vaultAdmin \in Accounts \cup {NoAdmin}
    /\ totalShares \in Int /\ totalAssets \in Int
    /\ orphaned \in Nat /\ movedOut \in Int
    /\ userShares \in [Accounts -> Nat]

\* The users' shares add up to the total that prices them after any sequence of
\* deposits and withdrawals; an initialize that runs over deposits leaves the
\* total short by exactly the shares it ran over, for ever (initialize).
SharesAddUp == totalShares + orphaned = Total(userShares, Accounts)

\* The vault's books.  What it holds, of all tokens together, and what was moved
\* out of it by rebalances, less plain transfers in, is what it accounts for and
\* what initialize ran over: rounding never creates an asset and never drops one.
\* It does not say that the vault can pay: what was moved out, and what was paid
\* in another token than the one a withdrawal asks for, is not there to be paid.
AssetsBacked ==
    totalAssets + orphaned
      = Total([t \in Tokens |-> balance[t][VaultContract]], Tokens) + movedOut

\* The two totals that price a share stay equal, so neither division rounds: a
\* deposit mints a share per asset and a withdrawal burns a share per asset.
\* What a pool earns, or a plain transfer brings, is never booked.  It does not
\* say that an old share can be redeemed: after an initialize over deposits the
\* totals are zero, withdraw panics on the division, and later deposits pay the
\* old shares (deposit, withdraw, rebalance, initialize).
ShareWorthOneAsset == totalAssets = totalShares
=============================================================================
