------------------------------- MODULE RwLocks -------------------------------
(***************************************************************************)
(* tokio::sync::RwLock, as the components use it: any number of readers or *)
(* one writer, served in the order they asked; a reader that comes after a *)
(* writer waits for it, even while other readers hold the lock.            *)
(*                                                                         *)
(* A lock is what each task wants of it and which tasks asked before it    *)
(* and have not released it since.                                         *)
(***************************************************************************)

Ask     == {"none", "read", "write"}
Lock(T) == [T -> [want: Ask, ahead: SUBSET T]]

Apart   == [want |-> "none", ahead |-> {}]
Open(T) == [t \in T |-> Apart]

Asking(q)    == {t \in DOMAIN q : q[t].want # "none"}
Asked(q, t, want) == [q EXCEPT ![t] = [want |-> want, ahead |-> Asking(q)]]

Released(q, t) ==
  [r \in DOMAIN q |-> IF r = t THEN Apart ELSE [q[r] EXCEPT !.ahead = @ \ {t}]]

\* A writer is served when nobody is ahead of it, a reader when only readers are.
Holds(q, t) ==
  /\ q[t].want # "none"
  /\ \A r \in q[t].ahead : q[t].want = "read" /\ q[r].want = "read"

Writes(q, t) == q[t].want = "write" /\ Holds(q, t)

\* Of two tasks that ask for the lock, one is ahead of the other, with all that are ahead
\* of it.
InOrder(q) ==
  /\ \A t \in DOMAIN q : q[t].want = "none" => q[t].ahead = {}
  /\ \A t \in DOMAIN q : q[t].ahead \subseteq Asking(q) \ {t}
  /\ \A t, r \in Asking(q) : t # r => (t \in q[r].ahead \/ r \in q[t].ahead)
  /\ \A t \in DOMAIN q : \A r \in q[t].ahead : q[r].ahead \subseteq q[t].ahead

\* A writer holds the lock alone.
Exclusive(q) == \A t, r \in DOMAIN q : Writes(q, t) /\ Holds(q, r) => r = t
=============================================================================
