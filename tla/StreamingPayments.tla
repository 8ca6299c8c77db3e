------------------------- MODULE StreamingPayments -------------------------
(***************************************************************************)
(* The money streams contract (streaming-payments/src/lib.rs).  All the    *)
(* streams of a token share the contract's one balance of it, so that what *)
(* one stream is overpaid another one lacks.                               *)
(***************************************************************************)
EXTENDS SorobanLedger, Sequences

CONSTANTS StreamContract,   \* the contract's address
          MaxStreams        \* bound: streams created

ASSUME StreamAssumption == StreamContract \in Contracts \ Funded /\ MaxStreams \in Nat

VARIABLE streams        \* the stream with id i is streams[i]

streamVars == <<ledgerVars, streams>>

Stream == [sender : Accounts, recipient : Accounts, token : Tokens, amount : Int,
           start : 0 .. MaxTime, stop : 0 .. MaxTime, withdrawn : Int,
           cancelled : BOOLEAN]

StreamInit == LedgerInit /\ streams = <<>>

\* The amount that has flowed by now, which withdraw and cancel_stream compute
\* alike.
Streamed(s) ==
    IF now <= s.start THEN 0
    ELSE IF now >= s.stop THEN s.amount
    ELSE (s.amount * (now - s.start)) \div (s.stop - s.start)

\* Mutant: what was withdrawn is not deducted.
ShareForgetsWithdrawn(s) == Streamed(s)

\* What cancel_stream still owes the recipient.
RecipientShare(s) == Max({0, Streamed(s) - s.withdrawn})

create_stream(sender, recipient, token, amount, start, stop) ==
    /\ Len(streams) < MaxStreams
    /\ amount > 0 /\ stop > start
    /\ CanPay(balance, token, sender, amount)
    /\ balance' = Paid(balance, token, sender, StreamContract, amount)
    /\ streams' = Append(streams,
         [sender |-> sender, recipient |-> recipient, token |-> token,
          amount |-> amount, start |-> start, stop |-> stop, withdrawn |-> 0,
          cancelled |-> FALSE])
    /\ UNCHANGED now

stream_withdraw(id, amount) ==
    LET s == streams[id] IN
    /\ amount > 0 /\ ~s.cancelled
    /\ amount <= Streamed(s) - s.withdrawn
    /\ CanPay(balance, s.token, StreamContract, amount)
    /\ streams' = [streams EXCEPT ![id].withdrawn = @ + amount]
    /\ balance' = Paid(balance, s.token, StreamContract, s.recipient, amount)
    /\ UNCHANGED now

cancel_stream(id) ==
    LET s == streams[id]
        toSender == Max({0, s.amount - Streamed(s)})
    IN
    /\ ~s.cancelled
    /\ CanPay(balance, s.token, StreamContract, RecipientShare(s) + toSender)
    /\ streams' = [streams EXCEPT ![id].cancelled = TRUE, ![id].withdrawn = Streamed(s)]
    /\ balance' = Paid(Paid(balance, s.token, StreamContract, s.recipient, RecipientShare(s)),
                       s.token, StreamContract, s.sender, toSender)
    /\ UNCHANGED now

StreamNext ==
    \/ CloseLedger /\ UNCHANGED streams
    \/ \E s, r \in Accounts, t \in Tokens, a \in Amounts, i, j \in 0 .. MaxTime :
         create_stream(s, r, t, a, i, j)
    \/ \E id \in DOMAIN streams :
         cancel_stream(id) \/ \E a \in Amounts : stream_withdraw(id, a)

StreamSpec == StreamInit /\ [][StreamNext]_streamVars
-----------------------------------------------------------------------------
StreamTypeOK == streams \in Seq(Stream)

\* What a stream still has to pay out, to its two parties together.
Outstanding(id) ==
    IF streams[id].cancelled THEN 0 ELSE streams[id].amount - streams[id].withdrawn

\* The contract always holds of every token exactly what its open streams have
\* still to pay out: no order of withdrawals and cancellations, rounding
\* included, lets one stream be paid from another's deposit or leaves a
\* remainder behind (create_stream, withdraw and cancel_stream).
StreamsSolvent ==
    \A t \in Tokens :
      balance[t][StreamContract] =
        Total([id \in DOMAIN streams |-> Outstanding(id)],
              {id \in DOMAIN streams : streams[id].token = t})

\* A recipient has never drawn more than the straight line from start_time to
\* stop_time allows, whatever the steps it was withdrawn in; the line is stated
\* without the contract's division (calculate_withdrawable).
WithdrawnWithinSchedule ==
    \A id \in DOMAIN streams :
      LET s == streams[id]
          elapsed == Max({0, Min({now, s.stop}) - s.start})
      IN  0 <= s.withdrawn /\ s.withdrawn * (s.stop - s.start) <= s.amount * elapsed
=============================================================================
