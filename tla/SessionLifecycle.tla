-------------------------- MODULE SessionLifecycle --------------------------
(***************************************************************************)
(* What a StreamSession promises (spec 4.3), without queues or threads:   *)
(* a session is opened, arbitrates once, becomes Active with the role the *)
(* device decided or aborts establishment, and an Active session is      *)
(* closed.  Closed and Aborted are terminal.  This client opens the       *)
(* channel and enters arbitration in one step (set_up_stream then         *)
(* handshake), so Connecting has no duration here.                        *)
(***************************************************************************)

VARIABLES
    state,   \* "Disconnected", "Arbitrating", "Active", "Closing",
             \* "Closed" or "Aborted"
    role     \* "none" until arbitration, then "master" or "slave"

vars == <<state, role>>

Init ==
    /\ state = "Disconnected"
    /\ role = "none"

\* open(): the stream is established and the arbitration request sent.
Connect ==
    /\ state = "Disconnected"
    /\ state' = "Arbitrating"
    /\ UNCHANGED role

\* The arbitration response arrives; mastership is its status.
Establish ==
    /\ state = "Arbitrating"
    /\ \E r \in {"master", "slave"} : role' = r
    /\ state' = "Active"

\* No response (timeout or closing sentinel): establishment is aborted.
Abort ==
    /\ state = "Arbitrating"
    /\ state' = "Aborted"
    /\ UNCHANGED role

\* close(): the closing sentinel is enqueued ...
BeginClose ==
    /\ state = "Active"
    /\ state' = "Closing"
    /\ UNCHANGED role

\* ... the receiver is waited for and the channel released.
FinishClose ==
    /\ state = "Closing"
    /\ state' = "Closed"
    /\ UNCHANGED role

Next == Connect \/ Establish \/ Abort \/ BeginClose \/ FinishClose

\* Arbitration always ends, and an Active session is always closed; a
\* session may stay Disconnected (the device id does not resolve).
Spec == Init /\ [][Next]_vars
             /\ WF_vars(Abort) /\ WF_vars(BeginClose) /\ WF_vars(FinishClose)

=============================================================================
