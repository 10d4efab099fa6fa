-------------------------------- MODULE Lock --------------------------------
(***************************************************************************)
(* What a mutex promises its callers: one owner at a time, and, while      *)
(* threads are trying for a free mutex, some thread gets it.  It does not  *)
(* promise that a given thread does: an acquirer that has not waited may   *)
(* overtake one that has.                                                  *)
(***************************************************************************)
CONSTANTS Threads, Mutexes, None

VARIABLES owner,  \* the thread each mutex belongs to
          trying  \* the threads that wait for it

lockVars == <<owner, trying>>

Init ==
    /\ owner = [m \in Mutexes |-> None]
    /\ trying = [m \in Mutexes |-> {}]

Try(t, m) ==
    /\ owner[m] # None /\ t \notin trying[m]
    /\ trying' = [trying EXCEPT ![m] = @ \cup {t}]
    /\ UNCHANGED owner

Acquire(t, m) ==
    /\ owner[m] = None
    /\ owner' = [owner EXCEPT ![m] = t]
    /\ trying' = [trying EXCEPT ![m] = @ \ {t}]

Release(t, m) ==
    /\ owner[m] = t
    /\ owner' = [owner EXCEPT ![m] = None]
    /\ UNCHANGED trying

Next == \E t \in Threads, m \in Mutexes :
            Try(t, m) \/ Acquire(t, m) \/ Release(t, m)

Spec == Init /\ [][Next]_lockVars

\* A free mutex that threads are trying for is acquired.
Progress == \A m \in Mutexes :
    WF_lockVars(trying[m] # {} /\ \E t \in Threads : Acquire(t, m))

FairSpec == Spec /\ Progress
=============================================================================
