---------------------------- MODULE MCAccounts -----------------------------
(* Slots, users and e-mail addresses are interchangeable: no action and no *)
(* property tells two of them apart.                                       *)
EXTENDS Accounts, TLC

Interchangeable == Permutations(Requests) \cup Permutations(Users) \cup Permutations(Emails)
=============================================================================
