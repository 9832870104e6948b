------------------------------ MODULE MCPlugin ------------------------------
(***************************************************************************)
(* Values for the constants of Plugin under TLC.  Times are scaled down: a *)
(* ticket is fresh at age 0, ageing at age 1 and expired at age 2.         *)
(***************************************************************************)
EXTENDS Plugin, TLC

\* Every key belongs to the one account: credentials of the same account.
OneAccount == [k \in Key |-> CHOOSE a \in Account : TRUE]

\* All accounts in scope; or also suspended, as after a failed login.
InScope   == {<<Account, {}>>}
AnyConfig == {<<Account, {}>>, <<Account, Account>>}

\* Handlers are interchangeable.
RequestSymmetry == Permutations(Request)
=============================================================================
