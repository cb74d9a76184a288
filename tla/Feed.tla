-------------------------------- MODULE Feed --------------------------------
(***************************************************************************)
(* What the WebSocket feed of ticks promises a browser: from the moment it *)
(* has joined it is shown ticks broadcast after that moment, in the order  *)
(* of the broadcasts and none of them twice, until its connection ends.    *)
(* Ticks may be missing.                                                   *)
(***************************************************************************)
EXTENDS Naturals

CONSTANT Clients   \* WebSocket connections, over the life of the server

VARIABLES
    published,     \* the number of ticks broadcast
    shown,         \* for each client, the newest tick it has been shown
    state          \* for each client: "new", "on" or "off"

vars == <<published, shown, state>>

Init ==
    /\ published = 0
    /\ shown = [c \in Clients |-> 0]
    /\ state = [c \in Clients |-> "new"]

Publish ==
    /\ published' = published + 1
    /\ UNCHANGED <<shown, state>>

\* A client joins; the connection may have ended before the server knew it.
Join(c) ==
    /\ state[c] = "new"
    /\ \E s \in {"on", "off"} : state' = [state EXCEPT ![c] = s]
    /\ shown' = [shown EXCEPT ![c] = published]
    /\ UNCHANGED published

Show(c) ==
    /\ state[c] = "on"
    /\ \E m \in (shown[c] + 1)..published : shown' = [shown EXCEPT ![c] = m]
    /\ UNCHANGED <<published, state>>

Leave(c) ==
    /\ state[c] = "on"
    /\ state' = [state EXCEPT ![c] = "off"]
    /\ UNCHANGED <<published, shown>>

Next == Publish \/ \E c \in Clients : Join(c) \/ Show(c) \/ Leave(c)

Spec == Init /\ [][Next]_vars
=============================================================================
