---------------------------- MODULE MCAccounts ----------------------------
(* Accounts for TLC: the threads are interchangeable, and so are the ways to *)
(* try an account.                                                           *)
EXTENDS Accounts, TLC

Interchangeable == Permutations(Thread) \cup Permutations(Via)

===========================================================================
