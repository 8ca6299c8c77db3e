--------------------------- MODULE MonotoneNonces ---------------------------
(***************************************************************************)
(* What the nonce guard of the Node server promises                        *)
(* (server/src/signing/nonceGuard.ts): for each signer key, the nonces     *)
(* handed out for signing strictly increase until the key is reset.        *)
(***************************************************************************)
EXTENDS Integers, Sequences

CONSTANTS Keys, Nonces

VARIABLE signed   \* signed[k]: the nonces handed out since the last reset, in order

NoncesInit == signed = [k \in Keys |-> <<>>]

Sign(k, n) ==
    /\ \A i \in 1 .. Len(signed[k]) : n > signed[k][i]
    /\ signed' = [signed EXCEPT ![k] = Append(@, n)]

Forget(k) == signed' = [signed EXCEPT ![k] = <<>>]

NoncesNext ==
    \E k \in Keys : (\E n \in Nonces : Sign(k, n)) \/ Forget(k)

NoncesSpec == NoncesInit /\ [][NoncesNext]_signed
=============================================================================
