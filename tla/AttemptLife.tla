------------------------------- MODULE AttemptLife -------------------------------
(***************************************************************************)
(* What every queue promises about an attempt, seen in its row: it is open *)
(* until it is closed for good; its agent is booked, and returned to the   *)
(* pool only if nobody has been served; an agent who has served keeps the  *)
(* attempt to its end, unless it is handed to another one; a report is     *)
(* asked only of an agent who has served.                                  *)
(***************************************************************************)
CONSTANTS
    Agents,   \* agents of the team
    NoAgent   \* agent_id null

VARIABLES
    phase,    \* "open", "reporting" or "closed"
    agent,    \* the agent of the row
    served,   \* the agent was connected with the member
    moved     \* a leg of the call has been transferred

vars == <<phase, agent, served, moved>>

TypeOK ==
    /\ phase \in {"open", "reporting", "closed"}
    /\ agent \in Agents \cup {NoAgent}
    /\ {served, moved} \subseteq BOOLEAN

Init ==
    /\ phase = "open"
    /\ agent \in Agents \cup {NoAgent}
    /\ served = FALSE
    /\ moved = FALSE

Book(g) ==
    /\ phase = "open" /\ agent = NoAgent
    /\ agent' = g
    /\ UNCHANGED <<phase, served, moved>>

\* The agent missed the attempt or is not needed; after a transfer the new agent
\* may be given back although the old one has served.
Release ==
    /\ phase = "open" /\ (~served \/ moved)
    /\ agent' = NoAgent
    /\ UNCHANGED <<phase, served, moved>>

\* An agent may accept an attempt that was closed meanwhile.
Serve ==
    /\ agent # NoAgent
    /\ served' = TRUE
    /\ UNCHANGED <<phase, agent, moved>>

Move ==
    /\ phase # "closed" /\ agent # NoAgent
    /\ moved' = TRUE
    /\ UNCHANGED <<phase, agent, served>>

Handover(g) ==
    /\ phase = "open" /\ moved
    /\ agent' = g
    /\ served' \in {served, FALSE}
    /\ UNCHANGED <<phase, moved>>

AskReport ==
    /\ phase = "open" /\ served /\ agent # NoAgent
    /\ phase' = "reporting"
    /\ UNCHANGED <<agent, served, moved>>

Close ==
    /\ phase # "closed"
    /\ phase' = "closed"
    /\ UNCHANGED <<agent, served, moved>>

Next ==
    \/ \E g \in Agents : Book(g) \/ Handover(g)
    \/ Release \/ Serve \/ Move \/ AskReport \/ Close

Spec == Init /\ [][Next]_vars
=============================================================================
