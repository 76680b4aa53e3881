------------------------------ MODULE MCBilling ------------------------------
(* The catalogs of credit packs with which TLC checks Billing. *)
EXTENDS Billing

OnePack == {[price |-> 2, credit |-> 3]}
NoPacks == {}

=============================================================================
