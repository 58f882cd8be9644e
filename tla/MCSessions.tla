------------------------------ MODULE MCSessions ------------------------------
(* Small sets for the runs of Sessions. *)
EXTENDS Sessions, TLC

CONSTANTS u1, u2, d1

OneUser == {u1}
TwoUsers == {u1, u2}
OneAccount == {d1}
MCMailOf == [d \in Accounts |-> CHOOSE m \in Mails : TRUE]

SymmetricAccounts == Permutations(Requests) \cup Permutations(Users)
===============================================================================
