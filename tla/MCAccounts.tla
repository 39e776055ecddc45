---- MODULE MCAccounts ----
(* A small instance of Accounts: two clients, up to three users. *)
EXTENDS Accounts, TLC

(* Ids, addresses and passwords are interchangeable: no liveness is checked. *)
MCSymmetry == Permutations(Ids) \cup Permutations(Passwords) \cup Permutations(Clients)
====
