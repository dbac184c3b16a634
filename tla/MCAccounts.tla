------------------------------ MODULE MCAccounts ------------------------------
(***************************************************************************)
(* Two people who claim one address and a third with an address of her     *)
(* own.                                                                    *)
(***************************************************************************)
EXTENDS Accounts, TLC

MCCredentials ==
    [c \in Clients |->
      [email |-> IF c = "carol" THEN "carol@x" ELSE "a@x", password |-> c]]
MCSymmetry == Permutations(UserIds)
=============================================================================
