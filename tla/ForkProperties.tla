---------------------------- MODULE ForkProperties ----------------------------
(***************************************************************************)
(* What the price a client was told is worth while the best chain may turn *)
(* out not to be the one that is finalized.                                *)
(***************************************************************************)
EXTENDS Forks

\* Nobody has signed a call that buys votes for u on the authority of the
\* sudo key, for which no nonce of u is asked.
VotesAreOwn(u) ==
  \A x \in signed :
    x.call[1] = "sudo_as" /\ Resolves(x.call[2]) /\ x.call[2][2] = u =>
      x.call[3][1] # "vote"

\* A vote that was signed with the nonce the account had when it asked for
\* the price, at a finalized block, costs that price or, when the transfer
\* fails, nothing: however long it is under way, whoever votes in the
\* meantime, whatever else the account signed and whichever chain becomes
\* the best one, no vote of its own slips in between, unless the sudo key
\* votes for it (quadratic-funding lib.rs:279-285, 346-351;
\* runtime/src/lib.rs:260, 391, 537).
ChargedAsQuoted ==
  [][LET x == current.extrinsic
         paid == balances[x.signer] - balances'[x.signer]
     IN  /\ current # NoExtrinsic
         /\ x.call[1] = "vote"
         /\ ProjectVotes' # ProjectVotes
         /\ x \in firm
         /\ x.nonce = x.asked
         /\ x.life = lives[x.signer]
         /\ VotesAreOwn(x.signer)
         => paid \in {0, Funding!cal_amount(x.quote, FALSE)}]_vars

=============================================================================
