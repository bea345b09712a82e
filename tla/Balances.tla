------------------------------ MODULE Balances ------------------------------
(***************************************************************************)
(* The Currency of both pallets: pallet_balances 2.0.1, a dependency that  *)
(* is not part of the repository.  It is modelled from the calls the       *)
(* pallets make, T::Currency::transfer and T::Currency::free_balance.      *)
(* Nothing in the repository reserves or locks funds, so the balance of an *)
(* account is its free balance and 0 stands for an account that does not   *)
(* exist.                                                                  *)
(***************************************************************************)
EXTENDS Naturals

CONSTANT ExistentialDeposit   \* an account below this balance is reaped

ASSUME ExistentialDepositAssumption == ExistentialDeposit \in Nat

\* The two ExistenceRequirements a caller of transfer chooses from.
KeepAlive  == "KeepAlive"     \* the sender has to survive the transfer
AllowDeath == "AllowDeath"    \* the sender may be reaped by it

\* transfer succeeds: the sender has the funds, the receiver exists
\* afterwards, and a sender that has to survive does.
CanTransfer(balances, from, to, value, requirement) ==
  /\ balances[from] >= value
  /\ balances[to] + value >= ExistentialDeposit
  /\ requirement = KeepAlive => balances[from] - value >= ExistentialDeposit

\* What the sender keeps: a remainder below the existential deposit is dust
\* and is burned with the account.
Remainder(balance, value) ==
  IF balance - value < ExistentialDeposit THEN 0 ELSE balance - value

\* The balances after transfer(from, to, value, requirement).  Both pallets
\* discard the result (let _ = ...), so a transfer that fails is one that
\* changes nothing.  A transfer of zero or to oneself succeeds vacuously.
Transfer(balances, from, to, value, requirement) ==
  IF /\ value > 0
     /\ from # to
     /\ CanTransfer(balances, from, to, value, requirement)
  THEN [balances EXCEPT ![from] = Remainder(@, value), ![to] = @ + value]
  ELSE balances

=============================================================================
