-------------------------- MODULE RoyaltySplitter --------------------------
(***************************************************************************)
(* The royalty splitter contract (royalty-splitter/src/lib.rs): split      *)
(* pulls an amount in and pays every recipient its basis points of it,     *)
(* rounded down, and the last recipient what rounding left over.           *)
(***************************************************************************)
EXTENDS SorobanLedger, Sequences, SequencesExt

CONSTANTS SplitterContract,
          RecipientLists      \* the lists that initialize is tried with

Recipient == [address : Accounts, bps : 0 .. 10000]

ASSUME RoyaltyAssumption ==
    /\ SplitterContract \in Contracts \ Funded
    /\ RecipientLists \subseteq Seq(Recipient)

VARIABLE recipients           \* <<>> until initialized

royaltyVars == <<ledgerVars, recipients>>

RoyaltyInit == LedgerInit /\ recipients = <<>>

TotalBps(list) == Total([i \in DOMAIN list |-> list[i].bps], DOMAIN list)

royalty_initialize(list) ==
    /\ recipients = <<>>
    /\ TotalBps(list) = 10000
    /\ recipients' = list
    /\ UNCHANGED ledgerVars

Share(amount, r) == (amount * r.bps) \div 10000

Shares(amount, list) == [i \in DOMAIN list |-> Share(amount, list[i])]
Distributed(amount, list) == Total(Shares(amount, list), DOMAIN list)
Dust(amount, list) == amount - Distributed(amount, list)

\* The balances b after the loop over the recipients has paid their shares: one call,
\* so the order of its transfers shows nowhere.
SharesPaid(b, token, amount) ==
    LET due(a) == Total(Shares(amount, recipients),
                        {i \in DOMAIN recipients : recipients[i].address = a})
    IN  [b EXCEPT ![token] = [a \in Accounts \cup Contracts |->
           IF a = SplitterContract THEN b[token][a] - Distributed(amount, recipients)
           ELSE b[token][a] + due(a)]]

split(sender, token, amount) ==
    LET pulled == Paid(balance, token, sender, SplitterContract, amount) IN
    /\ recipients # <<>>
    /\ CanPay(balance, token, sender, amount)
    /\ balance' = Paid(SharesPaid(pulled, token, amount), token, SplitterContract,
                       Last(recipients).address, Dust(amount, recipients))
    /\ UNCHANGED <<now, recipients>>

RoyaltyNext ==
    \/ \E list \in RecipientLists : royalty_initialize(list)
    \/ \E s \in Accounts, t \in Tokens, a \in Amounts : split(s, t, a)

RoyaltySpec == RoyaltyInit /\ [][RoyaltyNext]_royaltyVars
-----------------------------------------------------------------------------
\* The splitter never keeps a token and never pays one it was not given,
\* however the shares round (split).
SplitterKeepsNothing == \A t \in Tokens : balance[t][SplitterContract] = 0

\* With any amount, the dust is not negative and smaller than the number of
\* recipients, so the last recipient is favoured by less than one unit per
\* recipient (split, lines 61 to 74).
DustBelowRecipients ==
    recipients # <<>> =>
      \A amount \in Amounts : amount >= 0 =>
        Dust(amount, recipients) \in 0 .. Len(recipients) - 1
=============================================================================
