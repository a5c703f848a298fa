----------------------------- MODULE FlowScope -----------------------------
(***************************************************************************)
(* What the server promises about the values a flow binds with @set: every *)
(* flow, that is every (Claude session, document) pair, owns one scope.    *)
(* The scope starts fresh, only visits of a phase of that same flow change *)
(* it, and it is given up when the flow finishes, when it has been idle    *)
(* for more than TTL, or when the server process goes away.                *)
(* Nothing here knows of a table, of keys or of collecting expired         *)
(* entries: FlowSession implements this module.                            *)
(***************************************************************************)
EXTENDS Naturals

CONSTANTS
    Flow,       \* the flows: (session id, document) pairs
    Scope,      \* what a scope can hold
    Fresh,      \* the scope a flow starts from
    Released,   \* what stands for the absence of a scope
    TTL,        \* the longest idle time a scope survives
    Leaves(_)   \* Leaves(s): the scopes a visit that starts from s may leave

VARIABLES
    now,        \* the clock
    held,       \* held[f]: the scope of flow f and when it was last used
    view        \* the scope the last call saw

vars == <<now, held, view>>

Holding == [scope : Scope, lastTouched : Nat]

TypeOK ==
    /\ now \in Nat
    /\ held \in [Flow -> Holding \cup {Released}]
    /\ view \in Scope

Init ==
    /\ now = 0
    /\ held = [f \in Flow |-> Released]
    /\ view = Fresh

Current(f) == IF held[f] = Released THEN Fresh ELSE held[f].scope

\* A phase of flow f is rendered: it sees the scope of f and changes no other.
Visit(f) ==
    /\ \E s \in Leaves(Current(f)) :
          held' = [held EXCEPT ![f] = [scope |-> s, lastTouched |-> now]]
    /\ view' = Current(f)
    /\ UNCHANGED now

\* Flow f is rendered a last time: it sees its scope and gives it up.
Finish(f) ==
    /\ held' = [held EXCEPT ![f] = Released]
    /\ view' = Current(f)
    /\ UNCHANGED now

\* A call that belongs to no flow: it sees no flow's scope, and leaves none.
Aside ==
    /\ view' = Fresh
    /\ UNCHANGED <<now, held>>

\* Time passes, and exactly the scopes that are idle for too long are lost.
Elapse ==
    /\ now' \in Nat
    /\ now' > now
    /\ held' = [f \in Flow |->
                   IF held[f] # Released /\ now' - held[f].lastTouched > TTL
                   THEN Released ELSE held[f]]
    /\ UNCHANGED view

\* The server process ends and another one starts.
Restart ==
    /\ held' = [f \in Flow |-> Released]
    /\ view' = Fresh
    /\ UNCHANGED now

Next ==
    \/ \E f \in Flow : Visit(f) \/ Finish(f)
    \/ Aside
    \/ Elapse
    \/ Restart

Spec == Init /\ [][Next]_vars

=============================================================================
