------------------------------ MODULE Dashboard ------------------------------
(***************************************************************************)
(* A page of the web client: the connection state of the store, the        *)
(* connect calls under way, and the WebSocket clients App has made.        *)
(*                                                                         *)
(* App's effect makes a WSClient when connState becomes "connected" and    *)
(* calls its disconnect() when it stops being so; React runs the effect    *)
(* before the page handles another event, so it is part of the action that *)
(* changes connState.  A WSClient outlives its disconnect() as long as an  *)
(* event handler or a timer refers to it; once none does its name is used  *)
(* again.                                                                  *)
(*                                                                         *)
(* Delays are left out: a timer that is set may fire.  The disconnect      *)
(* button is drawn beside a current node only, and nothing ever writes     *)
(* currentNodeId (see CurrentNodeKnown), so it is no action of the page.   *)
(***************************************************************************)
EXTENDS Naturals, FiniteSets

CONSTANTS
    Nodes,     \* node ids
    Calls,     \* bound: fetches of POST /api/v1/connect
    Clients,   \* names of the WSClient objects in memory
    None

ASSUME NoneAssumption == None \notin Nodes \cup Calls \cup Clients
ASSUME ClientAssumption == /\ IsFiniteSet(Calls) /\ IsFiniteSet(Clients)
                           /\ Cardinality(Calls) <= Cardinality(Clients)

VARIABLES
    connState,   \* store: connState
    nodeId,      \* store: what setMeta stores its node as
    currentNodeId, \* store: the node whose snapshot the panels show
    snapshots,   \* store: nodes that snapshots has an entry for
    nodes,       \* store, persisted: saved nodes
    call,        \* fetches: "idle", "sent" or "done"
    target,      \* the saved node a fetch connects, None for the welcome form
    busy,        \* the fetch the mounted WelcomeScreen waits for
    wsRef,       \* App: the client of the mounted effect
    ws,          \* each client's socket: "none", "connecting", "open" or "closed"
    timer,       \* clients with a reconnectTimer
    closing      \* clients whose former socket has yet to report its close

meta    == <<nodeId, currentNodeId>>
store   == <<connState, meta, snapshots>>
fetches == <<call, target, busy>>
sockets == <<ws, timer, closing>>
vars    == <<store, nodes, fetches, wsRef, sockets>>

Init ==
    /\ connState = "disconnected"
    /\ nodeId = None
    /\ currentNodeId = None
    /\ snapshots = {}
    /\ nodes \in SUBSET Nodes
    /\ call = [k \in Calls |-> "idle"]
    /\ target = [k \in Calls |-> None]
    /\ busy = None
    /\ wsRef = None
    /\ ws = [c \in Clients |-> "none"]
    /\ timer = {}
    /\ closing = {}
-----------------------------------------------------------------------------
(***************************************************************************)
(* App's effect.                                                           *)
(***************************************************************************)
Garbage == {c \in Clients \ (timer \cup closing \cup {wsRef}) : ws[c] \in {"none", "closed"}}

\* new WSClient, on, connect.
OpenClient ==
    \E c \in Garbage :
        /\ ws' = [ws EXCEPT ![c] = "connecting"]
        /\ wsRef' = c
        /\ UNCHANGED <<timer, closing>>

\* (mutant) disconnect() does not clear the timer.
DisconnectKeepingTimer ==
    /\ closing' = IF ws[wsRef] \in {"connecting", "open"} THEN closing \cup {wsRef} ELSE closing
    /\ ws' = [ws EXCEPT ![wsRef] = "none"]
    /\ wsRef' = None
    /\ UNCHANGED timer

\* The cleanup: disconnect() clears the timer, closes the socket and drops it,
\* with its onclose handler still set.
Disconnect ==
    /\ timer' = timer \ {wsRef}
    /\ closing' = IF ws[wsRef] \in {"connecting", "open"} THEN closing \cup {wsRef} ELSE closing
    /\ ws' = [ws EXCEPT ![wsRef] = "none"]
    /\ wsRef' = None

\* setConn, and what it mounts and unmounts.
SetConn(s) ==
    /\ connState' = s
    /\ IF connState /= "connected" /\ s = "connected" THEN OpenClient
       ELSE IF connState = "connected" /\ s /= "connected" THEN Disconnect
       ELSE UNCHANGED <<wsRef, sockets>>
-----------------------------------------------------------------------------
(***************************************************************************)
(* Connect calls.                                                          *)
(***************************************************************************)

\* set({...m}): the field of m is called nodeId.
SetMeta(n) ==
    /\ nodeId' = n
    /\ UNCHANGED currentNodeId

\* WelcomeScreen: the form is submitted.
Submit(k) ==
    /\ call[k] = "idle"
    /\ connState /= "connected" /\ busy = None
    /\ call' = [call EXCEPT ![k] = "sent"]
    /\ busy' = k
    /\ SetConn("connecting")
    /\ UNCHANGED <<meta, snapshots, nodes, target>>

\* NodeSwitcher: a saved node is picked, among two or more.
Switch(k) ==
    /\ call[k] = "idle"
    /\ connState = "connected" /\ Cardinality(nodes) > 1
    /\ \E n \in nodes : target' = [target EXCEPT ![k] = n]
    /\ call' = [call EXCEPT ![k] = "sent"]
    /\ SetConn("connecting")
    /\ UNCHANGED <<meta, snapshots, nodes, busy>>

\* The answer is ok: setConn and setMeta; the dashboard takes the form's place.
AnswerOk(k) ==
    /\ call[k] = "sent"
    /\ call' = [call EXCEPT ![k] = "done"]
    /\ \E n \in IF target[k] = None THEN Nodes ELSE {target[k]} : SetMeta(n)
    /\ busy' = None
    /\ SetConn("connected")
    /\ UNCHANGED <<snapshots, nodes, target>>

\* (mutant) An exception of the fetch is not caught.
AnswerFailsUncaught(k) ==
    /\ call[k] = "sent"
    /\ call' = [call EXCEPT ![k] = "done"]
    /\ UNCHANGED <<store, nodes, target, busy, wsRef, sockets>>

\* (mutant) The form has no finally clause.
AnswerFailsStayingBusy(k) ==
    /\ call[k] = "sent"
    /\ call' = [call EXCEPT ![k] = "done"]
    /\ SetConn("error")
    /\ UNCHANGED <<meta, snapshots, nodes, target, busy>>

\* The answer is an error, or the fetch throws.
AnswerFails(k) ==
    /\ call[k] = "sent"
    /\ call' = [call EXCEPT ![k] = "done"]
    /\ busy' = IF busy = k THEN None ELSE busy
    /\ SetConn("error")
    /\ UNCHANGED <<meta, snapshots, nodes, target>>
-----------------------------------------------------------------------------
(***************************************************************************)
(* WSClient and its socket.                                                *)
(***************************************************************************)
OnOpen(c) ==
    /\ ws[c] = "connecting"
    /\ ws' = [ws EXCEPT ![c] = "open"]
    /\ UNCHANGED <<store, nodes, fetches, wsRef, timer, closing>>

\* A tick of any node; without a current node it is to become that.
OnMessage(c) ==
    /\ ws[c] = "open"
    /\ \E n \in Nodes :
         /\ snapshots' = snapshots \cup {n}
         /\ IF currentNodeId = None THEN SetMeta(n) ELSE UNCHANGED meta
    /\ UNCHANGED <<connState, nodes, fetches, wsRef, sockets>>

\* (mutant) A socket that fails before it opens sets no timer.
OnCloseWhileOpen(c) ==
    /\ \/ /\ ws[c] \in {"connecting", "open"}
          /\ timer' = IF ws[c] = "open" THEN timer \cup {c} ELSE timer
          /\ ws' = [ws EXCEPT ![c] = "closed"]
          /\ UNCHANGED closing
       \/ /\ c \in closing
          /\ closing' = closing \ {c}
          /\ timer' = timer \cup {c}
          /\ UNCHANGED ws
    /\ UNCHANGED <<store, nodes, fetches, wsRef>>

\* The socket fails or the server closes it, or a closing socket is closed:
\* scheduleReconnect.
OnClose(c) ==
    /\ \/ /\ ws[c] \in {"connecting", "open"}
          /\ ws' = [ws EXCEPT ![c] = "closed"]
          /\ UNCHANGED closing
       \/ /\ c \in closing
          /\ closing' = closing \ {c}
          /\ UNCHANGED ws
    /\ timer' = timer \cup {c}
    /\ UNCHANGED <<store, nodes, fetches, wsRef>>

\* (mutant) The timer's callback does not clear reconnectTimer.
ReconnectKeepingTimer(c) ==
    /\ c \in timer
    /\ ws' = IF ws[c] \in {"none", "closed"} THEN [ws EXCEPT ![c] = "connecting"] ELSE ws
    /\ UNCHANGED <<store, nodes, fetches, wsRef, timer, closing>>

\* reconnectTimer: connect(), which returns if there is a socket not closed.
Reconnect(c) ==
    /\ c \in timer
    /\ timer' = timer \ {c}
    /\ ws' = IF ws[c] \in {"none", "closed"} THEN [ws EXCEPT ![c] = "connecting"] ELSE ws
    /\ UNCHANGED <<store, nodes, fetches, wsRef, closing>>
-----------------------------------------------------------------------------
(***************************************************************************)
(* SettingsDrawer, open over the dashboard, and the page itself.           *)
(***************************************************************************)
SaveNode(n) ==
    /\ connState = "connected"
    /\ nodes' = nodes \cup {n}
    /\ UNCHANGED <<store, fetches, wsRef, sockets>>

RemoveNode(n) ==
    /\ connState = "connected"
    /\ nodes' = nodes \ {n}
    /\ UNCHANGED <<store, fetches, wsRef, sockets>>

\* The page is loaded again: of the store only the settings are left.
Reload ==
    /\ connState' = "disconnected"
    /\ nodeId' = None
    /\ currentNodeId' = None
    /\ snapshots' = {}
    /\ call' = [k \in Calls |-> IF call[k] = "sent" THEN "done" ELSE call[k]]
    /\ busy' = None
    /\ wsRef' = None
    /\ ws' = [c \in Clients |-> "none"]
    /\ timer' = {}
    /\ closing' = {}
    /\ UNCHANGED <<nodes, target>>

Next ==
    \/ \E k \in Calls : Submit(k) \/ Switch(k) \/ AnswerOk(k) \/ AnswerFails(k)
    \/ \E c \in Clients : OnOpen(c) \/ OnMessage(c) \/ OnClose(c) \/ Reconnect(c)
    \/ \E n \in Nodes : SaveNode(n) \/ RemoveNode(n)
    \/ Reload

Spec == Init /\ [][Next]_vars

(***************************************************************************)
(* A fetch is answered or throws, a timer fires, a closed socket reports   *)
(* it, and a client that tries again and again reaches the server at last. *)
(***************************************************************************)
Fairness ==
    /\ \A k \in Calls : WF_vars(AnswerOk(k) \/ AnswerFails(k))
    /\ \A c \in Clients :
         /\ WF_vars(Reconnect(c))
         /\ WF_vars(c \in closing /\ OnClose(c))
         /\ SF_vars(OnOpen(c))

FairSpec == Spec /\ Fairness
-----------------------------------------------------------------------------
(***************************************************************************)
(* Properties.                                                             *)
(***************************************************************************)
\* The store, the fetches and the sockets have the values their types say.
TypeOK ==
    /\ connState \in {"disconnected", "connecting", "connected", "error"}
    /\ nodeId \in Nodes \cup {None}
    /\ currentNodeId \in Nodes \cup {None}
    /\ snapshots \subseteq Nodes
    /\ nodes \subseteq Nodes
    /\ call \in [Calls -> {"idle", "sent", "done"}]
    /\ target \in [Calls -> Nodes \cup {None}]
    /\ busy \in Calls \cup {None}
    /\ wsRef \in Clients \cup {None}
    /\ ws \in [Clients -> {"none", "connecting", "open", "closed"}]
    /\ timer \subseteq Clients
    /\ closing \subseteq Clients

\* WelcomeScreen: the button of a mounted form is disabled only while the form's
\* own fetch is under way, whichever other fetches end and remount it.
BusyIsWaiting ==
    busy /= None => call[busy] = "sent" /\ connState /= "connected"

\* ws.ts: a client is never between two sockets: while one is closing or a timer
\* is set, connect() has not made another.
OneSocketPerClient ==
    \A c \in Clients :
        c \in timer \cup closing => c \notin timer \cap closing /\ ws[c] \in {"none", "closed"}

\* A client that still has a socket, or an event to come that makes it one.
Alive(c) == c \in timer \cup closing \/ ws[c] \in {"connecting", "open"}

\* ws.ts: a client the page has let go of may live on beside the next one, but only if
\* disconnect() met it with a socket, whose close event was still to come.  One met
\* between two sockets is never revived, by whatever answers, closes and timers follow.
LeftoverHadSocket ==
    [][\A c \in Clients :
          Alive(c)' /\ wsRef' /= c =>
              \/ Alive(c) /\ wsRef /= c
              \/ wsRef = c /\ ws[c] \in {"connecting", "open"}]_vars

\* ws.ts: as long as the dashboard is shown its client gets a socket again,
\* however often the server or the network closes it.
SocketComesBack ==
    \A c \in Clients : wsRef = c ~> (ws[c] = "open" \/ wsRef /= c)

\* No order of answers, switches and submits leaves the page "connecting".
ConnectingEnds == connState = "connecting" ~> connState /= "connecting"

\* App.tsx:65, a comment, says that currentNodeId is taken from the first observed
\* tick.  setMeta stores it under another name: the panels have no snapshot to show.
CurrentNodeKnown == snapshots /= {} => currentNodeId /= None
=============================================================================
