-------------------------- MODULE ProposalLifecycle --------------------------
(***************************************************************************)
(* What the DAO pallet promises about shares, without members, votes,      *)
(* money or time: a queue of requests for new shares.  A request is        *)
(* pending until it is aborted or settled; requests are settled once, in   *)
(* the order they were made; only a pending one can pass, and passing is   *)
(* the only way shares are issued once the DAO is founded.  At no time do  *)
(* the shares in circulation and those still requested exceed the cap.     *)
(***************************************************************************)
EXTENDS Naturals, Sequences, FiniteSets

CONSTANT Cap                  \* the most shares there may ever be

VARIABLES requests,           \* sequence of [status, shares]
          supply              \* shares in circulation

vars == <<requests, supply>>

Pending   == "pending"
Aborted   == "aborted"        \* by the applicant, and not yet settled
Withdrawn == "withdrawn"      \* aborted and settled
Passed    == "passed"
Failed    == "failed"

Unsettled == {k \in 1 .. Len(requests) :
                requests[k].status \in {Pending, Aborted}}

\* The shares requested and not settled, one element for each share.
Reserved == UNION {{k} \X (1 .. requests[k].shares) : k \in Unsettled}

\* The request that is settled next.
IsFirst(k) == \A j \in Unsettled : k <= j

Init == requests = << >> /\ supply = 0

Found ==
  /\ supply = 0
  /\ requests = << >>
  /\ supply' = 1
  /\ UNCHANGED requests

Request(n) ==
  /\ supply + Cardinality(Reserved) + n <= Cap
  /\ requests' = Append(requests, [status |-> Pending, shares |-> n])
  /\ UNCHANGED supply

AbortRequest(k) ==
  /\ requests[k].status = Pending
  /\ requests' = [requests EXCEPT ![k].status = Aborted]
  /\ UNCHANGED supply

SettlePassed(k) ==
  /\ requests[k].status = Pending
  /\ IsFirst(k)
  /\ requests' = [requests EXCEPT ![k].status = Passed]
  /\ supply' = supply + requests[k].shares

SettleFailed(k) ==
  /\ IsFirst(k)
  /\ requests' = [requests EXCEPT
       ![k].status = IF @ = Aborted THEN Withdrawn ELSE Failed]
  /\ UNCHANGED supply

Burn(n) ==
  /\ n <= supply
  /\ supply' = supply - n
  /\ UNCHANGED requests

Next ==
  \/ Found
  \/ \E n \in 0 .. Cap : Request(n)
  \/ \E k \in Unsettled :
       AbortRequest(k) \/ SettlePassed(k) \/ SettleFailed(k)
  \/ \E n \in 1 .. Cap : Burn(n)

Spec == Init /\ [][Next]_vars

=============================================================================
