------------------------------ MODULE MCVoting ------------------------------
(* Instances of Voting for TLC. *)
EXTENDS Voting, TLC

\* Users and requests are interchangeable, and so are the content types.  No
\* liveness property is checked in a run that uses this.
Symmetry == Permutations(User) \cup Permutations(Request)
                \cup Permutations(ContentType)
=============================================================================
