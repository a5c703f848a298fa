------------------------------ MODULE EventBus ------------------------------
(***************************************************************************)
(* What @event promises: a copy of an event is handed over for a transport *)
(* and reaches a sink at most once, if it reaches one.  Copies one process *)
(* hands over arrive in that order, except where Unordered says otherwise. *)
(* Nothing promises that a copy arrives at all: dispatch is fire-and-forget*)
(* and a process may end before its worker has written.                    *)
(***************************************************************************)
EXTENDS Naturals, Sequences

CONSTANTS Procs, Copies, Sinks,
          Owner(_),    \* the process that hands a copy over
          Unordered    \* sinks that copies race to

VARIABLES sent,   \* sent[p]: the copies p handed over, in order
          got     \* got[s]: the copies that reached s, in order

vars == <<sent, got>>

Init == sent = [p \in Procs |-> <<>>] /\ got = [s \in Sinks |-> <<>>]

Send(p, c) ==
    /\ c \in Copies /\ Owner(c) = p
    /\ sent' = [sent EXCEPT ![p] = Append(@, c)]
    /\ UNCHANGED got

\* c was handed over, and d, if it was handed over by the same process, before.
Precedes(d, c) ==
    Owner(d) = Owner(c) =>
        \E j \in DOMAIN sent[Owner(c)] : \E i \in 1..(j - 1) :
            sent[Owner(c)][i] = d /\ sent[Owner(c)][j] = c

Arrive(s, c) ==
    /\ \E j \in DOMAIN sent[Owner(c)] : sent[Owner(c)][j] = c
    /\ \A t \in Sinks : \A i \in DOMAIN got[t] : got[t][i] # c
    /\ s \notin Unordered => \A i \in DOMAIN got[s] : Precedes(got[s][i], c)
    /\ got' = [got EXCEPT ![s] = Append(@, c)]
    /\ UNCHANGED sent

Next == \/ \E p \in Procs, c \in Copies : Send(p, c)
        \/ \E s \in Sinks, c \in Copies : Arrive(s, c)

Spec == Init /\ [][Next]_vars
=============================================================================
