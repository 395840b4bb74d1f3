---------------------------- MODULE MCAccountUse ----------------------------
(* Accounts `steve` and `alex`, and a login `steveAgain` to the profile of `steve`. *)
EXTENDS AccountUse

CONSTANTS steve, alex, steveAgain

MCProfileOf == [a \in Account |-> IF a = alex THEN "p2" ELSE "p1"]
MCOne == {<<steve>>}
MCTwo == {<<steve, alex>>}
=============================================================================
