---------------------------- MODULE TaskLifecycle ----------------------------
(***************************************************************************)
(* What the task registry promises a browser that polls it: every task     *)
(* goes queued -> running -> done or failed and stays there, and no two    *)
(* tasks are active for the same playlist and format.  A restart of the    *)
(* server may lose every task at once.                                     *)
(***************************************************************************)
CONSTANTS Tasks,     \* task ids that may ever be handed out
          Keys,      \* what a task is about: a playlist and a format
          NoKey      \* the key of a task that was not created yet

VARIABLES state,     \* task -> where it stands
          key        \* task -> its key

vars == <<state, key>>

States == {"unborn", "queued", "running", "done", "failed", "lost"}

Active(t) == state[t] \in {"queued", "running"}

Init ==
    /\ state = [t \in Tasks |-> "unborn"]
    /\ key   = [t \in Tasks |-> NoKey]

Create(t, k) ==
    /\ state[t] = "unborn"
    /\ \A u \in Tasks : Active(u) => key[u] # k
    /\ state' = [state EXCEPT ![t] = "queued"]
    /\ key'   = [key EXCEPT ![t] = k]

Start(t) ==
    /\ state[t] = "queued"
    /\ state' = [state EXCEPT ![t] = "running"]
    /\ UNCHANGED key

Complete(t) ==
    /\ state[t] = "running"
    /\ state' = [state EXCEPT ![t] = "done"]
    /\ UNCHANGED key

Fail(t) ==
    /\ Active(t)
    /\ state' = [state EXCEPT ![t] = "failed"]
    /\ UNCHANGED key

\* The registry is process memory: a restart forgets every task in it.
LoseAll ==
    /\ state' = [t \in Tasks |-> IF state[t] = "unborn" THEN "unborn" ELSE "lost"]
    /\ UNCHANGED key

Next ==
    \/ \E t \in Tasks : \/ \E k \in Keys : Create(t, k)
                        \/ Start(t)
                        \/ Complete(t)
                        \/ Fail(t)
    \/ LoseAll

Spec == Init /\ [][Next]_vars
=============================================================================
