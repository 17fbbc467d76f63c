------------------------------- MODULE Permits -------------------------------
(***************************************************************************)
(* What the session manager promises to the rest of the system: a token is *)
(* one user's from when it is granted until it is withdrawn, and no user   *)
(* holds more than a bounded number of them.                               *)
(***************************************************************************)
EXTENDS Integers, FiniteSets

CONSTANTS Tokens, Users, Bound, Nobody

ASSUME NobodyAssumption == Nobody \notin Users

VARIABLE holder   \* whose session a token is

HolderOK == holder \in [Tokens -> Users \cup {Nobody}]

Unheld == holder = [t \in Tokens |-> Nobody]

Held(u) == {t \in Tokens : holder[t] = u}

Grant(t, u) ==
  /\ holder[t] = Nobody
  /\ Cardinality(Held(u)) < Bound
  /\ holder' = [holder EXCEPT ![t] = u]

Withdraw(S) == holder' = [t \in Tokens |-> IF t \in S THEN Nobody ELSE holder[t]]

PermitNext == \/ \E t \in Tokens, u \in Users : Grant(t, u)
              \/ \E S \in SUBSET Tokens : Withdraw(S)

PermitSpec == Unheld /\ [][PermitNext]_holder
=============================================================================
