------------------------------- MODULE MCAccounts -------------------------------
(***************************************************************************)
(* A small instance of Accounts for TLC: two tenants, two robots, three    *)
(* keys and one request that registers, next to the transactions that      *)
(* requests cut by a crash left behind.                                    *)
(***************************************************************************)
EXTENDS Accounts, TLC

\* Nothing tells the tenants, the robots or the registering requests apart.
Alike == Permutations(Tenants) \cup Permutations(Robots) \cup Permutations(Calls)

\* Bound: the last key is made and used while no robot is being registered, which touches
\* no key.
NothingRegistering == pending = {} /\ \A c \in Calls : calls[c] = Idle

MCNext == AccountsNext /\ (keyCount' = MaxKeys => NothingRegistering')

MCSpec == AccountsInit /\ [][MCNext]_accountVars
================================================================================
