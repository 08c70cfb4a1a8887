---------------------------- MODULE TicketQueue -----------------------------
(***************************************************************************)
(* What match.Queue promises its callers: a ticket enters the pool at most *)
(* once, leaves it once, with the whole group a matchmaker chose or on its *)
(* own by a Cancel, and is told its outcome only when nobody can claim it  *)
(* any more.                                                               *)
(***************************************************************************)
CONSTANTS
    Tickets,
    Claimers,         \* the matchmakers
    Groups            \* the sets of tickets that make up a match

VARIABLES
    entered,          \* the tickets whose Enqueue has returned
    pool,             \* those Pending offers and Claim may take
    decided,          \* those a terminal event was published for
    chosen,           \* the group each matchmaker is going to claim, {} if none
    withdrawn         \* the tickets some Cancel is about to take out

queueState == <<entered, pool, decided, chosen, withdrawn>>

Init ==
    /\ entered = {} /\ pool = {} /\ decided = {} /\ withdrawn = {}
    /\ chosen = [w \in Claimers |-> {}]

\* Enqueue; one that fails may have taken effect or not.
Enqueue(t) ==
    /\ t \notin entered
    /\ entered' = entered \cup {t}
    /\ pool' \in {pool, pool \cup {t}}
    /\ UNCHANGED <<decided, chosen, withdrawn>>

\* A matchmaker picks a group out of what Pending shows it.
Choose(w, G) ==
    /\ chosen[w] = {}
    /\ G \subseteq pool
    /\ chosen' = [chosen EXCEPT ![w] = G]
    /\ UNCHANGED <<entered, pool, decided, withdrawn>>

\* "Claim atomically removes the tickets from the pending pool, returning true
\* only if every one was still pending".
Claim(w) ==
    /\ chosen[w] \subseteq pool
    /\ pool' = pool \ chosen[w]
    /\ chosen' = [chosen EXCEPT ![w] = {}]
    /\ UNCHANGED <<entered, decided, withdrawn>>

\* A claim that lost a race or failed takes nothing.
GiveUp(w) ==
    /\ chosen' = [chosen EXCEPT ![w] = {}]
    /\ UNCHANGED <<entered, pool, decided, withdrawn>>

\* A Cancel has found the ticket undecided.
Withdraw(t) ==
    /\ t \in entered
    /\ withdrawn' = withdrawn \cup {t}
    /\ UNCHANGED <<entered, pool, decided, chosen>>

\* It takes the ticket, and no other, out of the pool; one that fails may have
\* taken effect or not, and a second Cancel of the ticket may still be under way.
Cancel(t) ==
    /\ t \in withdrawn
    /\ pool' \in {pool, pool \ {t}}
    /\ withdrawn' \in {withdrawn, withdrawn \ {t}}
    /\ UNCHANGED <<entered, decided, chosen>>

\* Publish of a terminal event, the last thing that happens to a ticket.
Publish(t) ==
    /\ t \in entered \ pool
    /\ decided' = decided \cup {t}
    /\ UNCHANGED <<entered, pool, chosen, withdrawn>>

Next ==
    \/ \E t \in Tickets : Enqueue(t) \/ Withdraw(t) \/ Cancel(t) \/ Publish(t)
    \/ \E w \in Claimers : Claim(w) \/ GiveUp(w) \/ \E G \in Groups : Choose(w, G)

Spec == Init /\ [][Next]_queueState
=============================================================================
