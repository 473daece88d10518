----------------------------- MODULE MCCatalog -----------------------------
(* Catalog for TLC: the sessions are clients without a name of their own,   *)
(* and every property checked is one of states or of single steps.         *)
EXTENDS Catalog

SessionSymmetry == Permutations(Sessions)

(* What was read where no entry is: a database twice, one of them with two  *)
(* users of one name.                                                       *)
TwiceRead ==
  LET user == FirstDatabase.users[1] IN
  {<<FirstDatabase, [FirstDatabase EXCEPT !.users = <<user, [user EXCEPT !.password = NoPassword]>>]>>}
=============================================================================
