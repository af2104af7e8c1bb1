----------------------------- MODULE MCAccounts -----------------------------
(* Instances of Accounts for TLC. *)
EXTENDS Accounts

CONSTANT page

NoneOrBoth == {<<>>, <<Own, page>>}
=============================================================================
