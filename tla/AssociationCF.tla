--------------------------- MODULE AssociationCF ---------------------------
(***************************************************************************)
(* What the association control function promises: an association is       *)
(* closed, or open with a session (the mechanism, the application context, *)
(* the titles and challenges of the exchange that opened it).  The session *)
(* decides whether it opens at once or stays pending, and it is the same   *)
(* one until the association is closed.  Unproven are the sessions that    *)
(* should not open, and do: nothing is promised of who opens one, only     *)
(* that it does not change.                                                *)
(***************************************************************************)
CONSTANTS
    Assos,          \* the associations of the logical device
    Immediate,      \* per association, the sessions that open at once
    Challenged,     \* per association, those that wait for a challenge
    Unproven,       \* per association, those that open without the proof they ask for
    None            \* no session

VARIABLES
    state,          \* state of the control function, per association
    session         \* session in force, per association

cfVars == <<state, session>>

CfInit ==
    /\ state = [a \in Assos |-> "IDLE"]
    /\ session = [a \in Assos |-> None]

\* The session that opens is whatever the peers agreed on, among those that
\* the association admits.
Open(a) ==
    /\ state[a] = "IDLE"
    /\ \/ /\ session'[a] \in Immediate[a] \cup Unproven[a]
          /\ state' = [state EXCEPT ![a] = "ASSOCIATED"]
       \/ /\ session'[a] \in Challenged[a]
          /\ state' = [state EXCEPT ![a] = "PENDING"]
    /\ session' = [session EXCEPT ![a] = session'[a]]

Close(a) ==
    /\ state[a] # "IDLE"
    /\ state' = [state EXCEPT ![a] = "IDLE"]
    /\ session' = [session EXCEPT ![a] = None]

CfNext == \E a \in Assos : Open(a) \/ Close(a)

CfSpec == CfInit /\ [][CfNext]_cfVars

=============================================================================
