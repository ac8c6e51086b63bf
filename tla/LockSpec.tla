------------------------------ MODULE LockSpec -------------------------------
(***************************************************************************)
(* What struct lock promises its callers: a lock with one owner at a time, *)
(* which the owner may take again and must give back as often.             *)
(***************************************************************************)
EXTENDS Naturals

CONSTANTS Threads, NoThread

VARIABLES owner,  \* who is between lock_acquire and the matching lock_release
          count   \* how many times

vars == <<owner, count>>

Init == owner = NoThread /\ count = 0

Acquire(t) ==
    /\ owner \in {NoThread, t}
    /\ owner' = t
    /\ count' = count + 1

Release(t) ==
    /\ owner = t
    /\ count' = count - 1
    /\ owner' = IF count = 1 THEN NoThread ELSE t

Next == \E t \in Threads : Acquire(t) \/ Release(t)

Spec == Init /\ [][Next]_vars
=============================================================================
