-------------------------- MODULE RuntimeProperties --------------------------
(***************************************************************************)
(* What the runtime owes to those who sign extrinsics, whatever becomes of *)
(* the extrinsics between signature and block.                             *)
(***************************************************************************)
EXTENDS Runtime

\* The accounts stay typed and no balance and no nonce is negative, also
\* when a panic undoes a charge (runtime/src/lib.rs:386-394).
TypeOK ==
  /\ balances \in [Accounts -> Nat]
  /\ nonce \in [Users -> Nat]
  /\ key \in Users
  /\ \A x \in signed : x.signer \in Users /\ x.call \in Calls[x.signer]
  /\ current # NoExtrinsic => current.extrinsic \in signed

\* An extrinsic is applied at most once in the life of the account that
\* signed it, and so is every other one with its nonce, however often it is
\* sent.  When the account is reaped its nonces start anew, and what it
\* signed before may be applied again (runtime/src/lib.rs:391).
AppliedOnce ==
  [][\A x \in signed :
       current = NoExtrinsic /\ current' # NoExtrinsic
         /\ current'.extrinsic = x => Place(x) \notin used]_vars

-----------------------------------------------------------------------------
(* Whose money an extrinsic may take.                                      *)

Named(address) == IF Resolves(address) THEN {address[2]} ELSE {}

\* The accounts that may pay for a call of who: its own one, and an account
\* that the sudo key names as the source of a transfer or gives a balance.
MayPay(who, c) ==
  {who} \cup IF who = key /\ c[1] \in {"force_transfer", "set_balance"}
             THEN Named(c[2]) ELSE {}

\* The signer pays and, when the sudo key acts as another account, that one.
Payers(x) ==
  MayPay(x.signer, x.call)
    \cup IF x.signer = key /\ x.call[1] = "sudo_as"
         THEN UNION {MayPay(who, x.call[3]) : who \in Named(x.call[2])}
         ELSE {}

\* Nobody's balance falls but by an extrinsic that one has signed oneself or
\* by one in which the sudo key names the account: no other call, neither of
\* the pallets' handlers nor a transfer, takes a user's money, and nor do a
\* refusal and the undoing of a charge (moloch-v1 lib.rs:265, 294, 439-460,
\* 497, 527; quadratic-funding lib.rs:183, 234, 285; runtime/src/lib.rs:260,
\* 365-367).
OwnMoneyOnly ==
  [][\A u \in Users :
       balances'[u] < balances[u] =>
         LET step == IF current = NoExtrinsic THEN current' ELSE current
         IN  step # NoExtrinsic /\ u \in Payers(step.extrinsic)]_vars

=============================================================================
