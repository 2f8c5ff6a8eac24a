----------------------------- MODULE IdPromises -----------------------------
(***************************************************************************)
(* What a process that talks to TWS relies on when it has been given a     *)
(* client id, whatever keeps the books: the id is its own up to an instant *)
(* that it was promised.  Until then nobody else is promised it, nobody    *)
(* but its owner gives it back, and asking again never makes the promise   *)
(* shorter; no promise reaches further ahead than the term.                *)
(* ClientIdLeases implements this module.                                  *)
(***************************************************************************)
EXTENDS Integers

CONSTANTS Owner, Ids, Term

VARIABLES
    time,
    promised    \* of each id: the promises that have not run out

vars == <<time, promised>>

Init ==
    /\ time \in Nat
    /\ promised = [id \in Ids |-> {}]

(* Taken, or renewed. *)
Take(o, id) ==
    /\ \E t \in time + 1 .. time + Term :
          /\ \A p \in promised[id] : p.owner = o /\ p.until <= t
          /\ promised' = [promised EXCEPT ![id] = {[owner |-> o, until |-> t]}]
    /\ time' = time

Give(o, id) ==
    /\ \A p \in promised[id] : p.owner = o
    /\ promised' = [promised EXCEPT ![id] = {}]
    /\ time' = time

Pass ==
    /\ time' = time + 1
    /\ promised' = [id \in Ids |-> {p \in promised[id] : p.until > time'}]

Next == Pass \/ \E o \in Owner, id \in Ids : Take(o, id) \/ Give(o, id)

Spec == Init /\ [][Next]_vars

(* The id is the owner's alone: two promises for it are one promise. *)
Exclusive == \A id \in Ids : \A p, q \in promised[id] : p = q
=============================================================================
