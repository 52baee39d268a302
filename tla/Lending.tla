------------------------------- MODULE Lending -------------------------------
(***************************************************************************)
(* What a pool of objects promises its users, whatever its implementation: *)
(* an object is on loan to at most one user, a loan starts only for an     *)
(* object nobody has, and it ends when its user gives the object back.     *)
(* db/Pool.java is shown to implement this (module Pool).                  *)
(***************************************************************************)
CONSTANTS Users,     \* the threads that borrow
          Things     \* the objects that are lent

VARIABLE loans       \* the set of <<user, object>> pairs on loan

Init == loans = {}

Take(u, h) ==
    /\ \A v \in Users : <<v, h>> \notin loans
    /\ loans' = loans \cup {<<u, h>>}

GiveBack(u, h) ==
    /\ <<u, h>> \in loans
    /\ loans' = loans \ {<<u, h>>}

Next == \E u \in Users : \E h \in Things : Take(u, h) \/ GiveBack(u, h)

Spec == Init /\ [][Next]_loans
==============================================================================
