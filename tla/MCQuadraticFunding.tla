------------------------- MODULE MCQuadraticFunding -------------------------
(***************************************************************************)
(* Small rounds of funding for TLC.  Users own projects, vote and donate,  *)
(* so they are interchangeable.                                            *)
(***************************************************************************)
EXTENDS QuadraticFundingProperties, TLC

CONSTANTS Alice, Bob, Carol, Fund

TwoUsers   == {Alice, Bob}
ThreeUsers == {Alice, Bob, Carol}

\* More than all the votes and donations within the bounds cost.
Rich == [u \in Users |-> 100]

\* Enough for a single vote, so that transfers fail.
Poor == [u \in Users |-> 5]

UsersAlike == Permutations(Users)

=============================================================================
