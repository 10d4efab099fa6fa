------------------------------- MODULE Family -------------------------------
(***************************************************************************)
(* What fork, wait and exit promise: a tree of processes rooted at init.   *)
(* A process that exits leaves its children to init and stays behind, for  *)
(* its father to learn of, until the father's wait takes it away.          *)
(***************************************************************************)
CONSTANTS Processes, Root, None

VARIABLES state,   \* "unused", "alive", "exited" or "gone"
          father   \* the process that may wait for it

familyVars == <<state, father>>

Children(p) == {c \in Processes : father[c] = p /\ state[c] \in {"alive", "exited"}}

Init ==
    /\ state = [p \in Processes |-> IF p = Root THEN "alive" ELSE "unused"]
    /\ father = [p \in Processes |-> None]

Fork(p, c) ==
    /\ state[p] = "alive" /\ state[c] = "unused"
    /\ state' = [state EXCEPT ![c] = "alive"]
    /\ father' = [father EXCEPT ![c] = p]

\* The children of a process that exits go to init.
Exit(p) ==
    /\ p # Root /\ state[p] = "alive"
    /\ state' = [state EXCEPT ![p] = "exited"]
    /\ father' = [c \in Processes |-> IF c \in Children(p) THEN Root ELSE father[c]]

Reap(p, c) ==
    /\ state[p] = "alive" /\ state[c] = "exited" /\ father[c] = p
    /\ state' = [state EXCEPT ![c] = "gone"]
    /\ father' = [father EXCEPT ![c] = None]

Next ==
    \/ \E p, c \in Processes : Fork(p, c) \/ Reap(p, c)
    \/ \E p \in Processes : Exit(p)

Spec == Init /\ [][Next]_familyVars
=============================================================================
