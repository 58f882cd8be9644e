------------------------ MODULE MCNotificationBilling ------------------------
(* Model values and small sets for the runs of NotificationBilling. *)
EXTENDS NotificationBilling, TLC

CONSTANTS u1, g1, t1, t2

OneUser == {u1}
OneGuild == {g1}
TwoTasks == {t1, t2}

\* Requests are interchangeable.
SymmetricTasks == Permutations({t1, t2})
=============================================================================
