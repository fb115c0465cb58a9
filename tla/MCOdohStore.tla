----------------------------- MODULE MCOdohStore ------------------------------
(* OdohStore on two targets and one query.                                   *)
EXTENDS OdohStore

MCSwap == <<"resolution", "swap">>

=============================================================================
