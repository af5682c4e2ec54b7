--------------------------- MODULE MCClipSubmission ---------------------------
(***************************************************************************)
(* ClipSubmission on a small instance: one tweet, two X users of whom one  *)
(* wrote it, and fewer OAuth states than there are logins one would like   *)
(* to make, so that each is a choice.                                      *)
(***************************************************************************)
EXTENDS ClipSubmission, TLC

CONSTANTS alice, bob

MCXUsers == {alice, bob}
MCAuthor == [t \in Tweets |-> alice]

Symmetry == Permutations(States) \cup Permutations(Requests) \cup Permutations(Users)
              \cup Permutations(Wallets) \cup Permutations(Browsers)
=============================================================================
