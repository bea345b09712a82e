-------------------------------- MODULE Forks --------------------------------
(***************************************************************************)
(* The chain as a client of a full node sees it, node/src/service.rs: Aura *)
(* authorities extend the best chain, GRANDPA finalizes blocks of it, and  *)
(* LongestChain may turn from the best chain to another one that extends   *)
(* the finalized block as well.  What was applied since that block is then *)
(* undone, and its extrinsics may be applied once more, in another order.  *)
(* The state of Runtime is the state at the best block, where the RPC      *)
(* answers; consensus and block import are dependencies, of which only     *)
(* this effect is modelled.                                                *)
(***************************************************************************)
EXTENDS Runtime

CONSTANT MaxForks         \* bound on how often the best chain is left

VARIABLES
  final,                  \* the state of the chain at the finalized block
  firm,                   \* the extrinsics signed while it was the best one
  forks                   \* how often the best chain was left

\* Everything a block holds: all of Runtime but the extrinsics under way.
Chain ==
  [now |-> now, SummonTime |-> SummonTime, settings |-> settings,
   TotalShares |-> TotalShares, TotalSharesRequested |-> TotalSharesRequested,
   Members |-> Members, AddressOfDelegates |-> AddressOfDelegates,
   ProposalQueue |-> ProposalQueue, ProposalVotes |-> ProposalVotes,
   ApplicantCustody |-> ApplicantCustody, Rounds |-> Rounds,
   Projects |-> Projects, ProjectVotes |-> ProjectVotes,
   balances |-> balances, nonce |-> nonce, lives |-> lives, key |-> key,
   used |-> used]

ForkInit == Init /\ final = Chain /\ firm = {} /\ forks = 0

RuntimeStep ==
  /\ Next
  /\ firm' = firm \cup (IF Chain = final THEN signed' \ signed ELSE {})
  /\ UNCHANGED <<final, forks>>

\* The best chain up to here is finalized; a block ends between extrinsics.
Finalize ==
  /\ current = NoExtrinsic
  /\ forks < MaxForks
  /\ final' = Chain
  /\ UNCHANGED <<vars, firm, forks>>

\* Another chain becomes the best one.  It is built up from the finalized
\* block by the steps that follow.
Retract ==
  /\ current = NoExtrinsic
  /\ forks < MaxForks
  /\ forks' = forks + 1
  /\ now' = final.now
  /\ SummonTime' = final.SummonTime
  /\ settings' = final.settings
  /\ TotalShares' = final.TotalShares
  /\ TotalSharesRequested' = final.TotalSharesRequested
  /\ Members' = final.Members
  /\ AddressOfDelegates' = final.AddressOfDelegates
  /\ ProposalQueue' = final.ProposalQueue
  /\ ProposalVotes' = final.ProposalVotes
  /\ ApplicantCustody' = final.ApplicantCustody
  /\ Rounds' = final.Rounds
  /\ Projects' = final.Projects
  /\ ProjectVotes' = final.ProjectVotes
  /\ balances' = final.balances
  /\ nonce' = final.nonce
  /\ lives' = final.lives
  /\ key' = final.key
  /\ used' = final.used
  /\ UNCHANGED <<signed, current, final, firm>>

ForkNext == RuntimeStep \/ Finalize \/ Retract

ForkSpec == ForkInit /\ [][ForkNext]_<<vars, final, firm, forks>>

=============================================================================
