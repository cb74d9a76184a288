-------------------------- MODULE DashboardProofs ---------------------------
(***************************************************************************)
(* Proofs about Dashboard, for any nodes, calls and clients.               *)
(*                                                                         *)
(* The invariants are inductive together with two more facts: App has a    *)
(* client just while it is connected, and that one is not closing.  They   *)
(* are also what the action property needs of a step.                      *)
(***************************************************************************)
EXTENDS Dashboard, TLAPS

Attached == connState = "connected" <=> wsRef /= None
NotClosing == wsRef \notin closing
IInv == TypeOK /\ Attached /\ NotClosing /\ BusyIsWaiting /\ OneSocketPerClient

States == {"disconnected", "connecting", "connected", "error"}

SocketType ==
    /\ wsRef \in Clients \cup {None}
    /\ ws \in [Clients -> {"none", "connecting", "open", "closed"}]
    /\ timer \subseteq Clients /\ closing \subseteq Clients

\* The step of LeftoverHadSocket.
Leftover ==
    \A c \in Clients :
        Alive(c)' /\ wsRef' /= c =>
            \/ Alive(c) /\ wsRef /= c
            \/ wsRef = c /\ ws[c] \in {"connecting", "open"}

\* What setConn does to App's client and to the sockets.
LEMMA SetConnStep ==
    ASSUME SocketType, Attached, NotClosing, OneSocketPerClient, NEW s \in States, SetConn(s)
    PROVE  SocketType' /\ Attached' /\ NotClosing' /\ OneSocketPerClient' /\ Leftover /\ connState' = s
<1> USE NoneAssumption
<1>0. connState' = s
  BY DEF SetConn
<1>1. CASE connState /= "connected" /\ s = "connected"
  <2>1. PICK c \in Garbage :
          /\ ws' = [ws EXCEPT ![c] = "connecting"] /\ wsRef' = c
          /\ timer' = timer /\ closing' = closing
    BY <1>1 DEF SetConn, OpenClient
  <2>2. c \in Clients /\ c \notin timer /\ c \notin closing
    BY <2>1 DEF Garbage
  <2>3. SocketType' /\ Attached' /\ NotClosing'
    BY <1>0, <1>1, <2>1, <2>2 DEF SocketType, Attached, NotClosing
  <2>4. OneSocketPerClient'
    BY <2>1, <2>2 DEF SocketType, OneSocketPerClient
  <2>5. Leftover
    BY <1>1, <2>1, <2>2 DEF Attached, SocketType, Leftover, Alive
  <2> QED
    BY <1>0, <2>3, <2>4, <2>5
<1>2. CASE connState = "connected" /\ s /= "connected"
  <2>1. Disconnect /\ wsRef \in Clients
    BY <1>2 DEF SetConn, Attached, SocketType
  <2>2. /\ timer' = timer \ {wsRef} /\ ws' = [ws EXCEPT ![wsRef] = "none"] /\ wsRef' = None
        /\ closing' \in {closing, closing \cup {wsRef}}
    BY <2>1 DEF Disconnect
  <2>3. SocketType' /\ Attached' /\ NotClosing'
    BY <1>0, <1>2, <2>1, <2>2 DEF SocketType, Attached, NotClosing
  <2>4. OneSocketPerClient'
    BY <2>1, <2>2 DEF SocketType, OneSocketPerClient
  <2>5. Leftover
    <3>1. ws[wsRef] \notin {"connecting", "open"} => closing' = closing
      BY <2>1 DEF Disconnect
    <3> QED
      BY <2>1, <2>2, <3>1 DEF SocketType, NotClosing, Leftover, Alive
  <2> QED
    BY <1>0, <2>3, <2>4, <2>5
<1>3. CASE (connState = "connected") = (s = "connected")
  <2>1. UNCHANGED <<wsRef, sockets>>
    BY <1>3 DEF SetConn
  <2> QED
    BY <1>0, <1>3, <2>1
       DEF sockets, SocketType, Attached, NotClosing, OneSocketPerClient, Leftover, Alive
<1> QED
  BY <1>1, <1>2, <1>3

LEMMA SocketsTyped == TypeOK => SocketType
BY DEF TypeOK, SocketType
-----------------------------------------------------------------------------
LEMMA InitInvariant == Init => IInv
BY NoneAssumption DEF Init, IInv, TypeOK, Attached, NotClosing, BusyIsWaiting,
       OneSocketPerClient

LEMMA StepInvariant == IInv /\ [Next]_vars => IInv' /\ Leftover
<1> SUFFICES ASSUME IInv, [Next]_vars PROVE IInv' /\ Leftover
  OBVIOUS
<1> USE NoneAssumption
<1>0. TypeOK /\ Attached /\ NotClosing /\ BusyIsWaiting /\ OneSocketPerClient /\ SocketType
  BY SocketsTyped DEF IInv
<1>1. ASSUME NEW k \in Calls, Submit(k) PROVE IInv' /\ Leftover
  <2>1. SocketType' /\ Attached' /\ NotClosing' /\ OneSocketPerClient' /\ Leftover /\ connState' = "connecting"
    BY <1>0, <1>1, SetConnStep DEF Submit, States
  <2>2. TypeOK'
    BY <1>0, <1>1, <2>1 DEF Submit, meta, SocketType, TypeOK
  <2>3. BusyIsWaiting'
    BY <1>0, <1>1, <2>1 DEF Submit, TypeOK, BusyIsWaiting
  <2> QED
    BY <2>1, <2>2, <2>3 DEF IInv
<1>2. ASSUME NEW k \in Calls, Switch(k) PROVE IInv' /\ Leftover
  <2>1. SocketType' /\ Attached' /\ NotClosing' /\ OneSocketPerClient' /\ Leftover /\ connState' = "connecting"
    BY <1>0, <1>2, SetConnStep DEF Switch, States
  <2>2. TypeOK'
    BY <1>0, <1>2, <2>1 DEF Switch, meta, SocketType, TypeOK
  <2>3. BusyIsWaiting'
    BY <1>0, <1>2, <2>1 DEF Switch, TypeOK, BusyIsWaiting
  <2> QED
    BY <2>1, <2>2, <2>3 DEF IInv
<1>3. ASSUME NEW k \in Calls, AnswerOk(k) PROVE IInv' /\ Leftover
  <2>1. SocketType' /\ Attached' /\ NotClosing' /\ OneSocketPerClient' /\ Leftover /\ connState' = "connected"
    BY <1>0, <1>3, SetConnStep DEF AnswerOk, States
  <2>2. PICK n \in Nodes : SetMeta(n)
    BY <1>0, <1>3 DEF AnswerOk, TypeOK
  <2>3. TypeOK'
    BY <1>0, <1>3, <2>1, <2>2 DEF AnswerOk, SetMeta, SocketType, TypeOK
  <2>4. BusyIsWaiting'
    BY <1>3 DEF AnswerOk, BusyIsWaiting
  <2> QED
    BY <2>1, <2>3, <2>4 DEF IInv
<1>4. ASSUME NEW k \in Calls, AnswerFails(k) PROVE IInv' /\ Leftover
  <2>1. SocketType' /\ Attached' /\ NotClosing' /\ OneSocketPerClient' /\ Leftover /\ connState' = "error"
    BY <1>0, <1>4, SetConnStep DEF AnswerFails, States
  <2>2. TypeOK'
    BY <1>0, <1>4, <2>1 DEF AnswerFails, meta, SocketType, TypeOK
  <2>3. BusyIsWaiting'
    BY <1>0, <1>4, <2>1 DEF AnswerFails, TypeOK, BusyIsWaiting
  <2> QED
    BY <2>1, <2>2, <2>3 DEF IInv
<1>5. ASSUME NEW c \in Clients, OnOpen(c) PROVE IInv' /\ Leftover
  <2>1. TypeOK'
    BY <1>0, <1>5 DEF OnOpen, store, meta, fetches, TypeOK
  <2>2. OneSocketPerClient'
    BY <1>0, <1>5 DEF OnOpen, SocketType, OneSocketPerClient
  <2>3. Leftover
    BY <1>0, <1>5 DEF OnOpen, SocketType, Leftover, Alive
  <2> QED
    BY <1>0, <1>5, <2>1, <2>2, <2>3
       DEF OnOpen, store, fetches, IInv, Attached, NotClosing, BusyIsWaiting
<1>6. ASSUME NEW c \in Clients, OnMessage(c) PROVE IInv' /\ Leftover
  <2>1. PICK n \in Nodes : /\ snapshots' = snapshots \cup {n}
                           /\ IF currentNodeId = None THEN SetMeta(n) ELSE UNCHANGED meta
    BY <1>6 DEF OnMessage
  <2>2. nodeId' \in Nodes \cup {None} /\ currentNodeId' = currentNodeId
    BY <1>0, <2>1 DEF SetMeta, meta, TypeOK
  <2>3. TypeOK'
    BY <1>0, <1>6, <2>1, <2>2 DEF OnMessage, fetches, sockets, TypeOK
  <2> QED
    BY <1>0, <1>6, <2>3
       DEF OnMessage, fetches, sockets, IInv, Attached, NotClosing, BusyIsWaiting, OneSocketPerClient, Leftover, Alive
<1>7. ASSUME NEW c \in Clients, OnClose(c) PROVE IInv' /\ Leftover
  <2>1. TypeOK'
    BY <1>0, <1>7 DEF OnClose, store, meta, fetches, TypeOK
  <2>2. OneSocketPerClient'
    <3>1. CASE /\ ws[c] \in {"connecting", "open"}
               /\ ws' = [ws EXCEPT ![c] = "closed"] /\ closing' = closing
      BY <1>0, <1>7, <3>1 DEF OnClose, SocketType, OneSocketPerClient
    <3>2. CASE c \in closing /\ closing' = closing \ {c} /\ ws' = ws
      BY <1>0, <1>7, <3>2 DEF OnClose, SocketType, OneSocketPerClient
    <3> QED
      BY <1>7, <3>1, <3>2 DEF OnClose
  <2>3. Leftover
    <3>1. wsRef' = wsRef /\ timer' = timer \cup {c} /\ closing' \in {closing, closing \ {c}}
      BY <1>7 DEF OnClose
    <3>2. Alive(c) /\ \A d \in Clients \ {c} : Alive(d)' => Alive(d)
      BY <1>0, <1>7, <3>1 DEF OnClose, SocketType, Alive
    <3> QED
      BY <3>1, <3>2 DEF Leftover
  <2> QED
    BY <1>0, <1>7, <2>1, <2>2, <2>3
       DEF OnClose, store, fetches, IInv, Attached, NotClosing, BusyIsWaiting
<1>8. ASSUME NEW c \in Clients, Reconnect(c) PROVE IInv' /\ Leftover
  <2>1. TypeOK'
    BY <1>0, <1>8 DEF Reconnect, store, meta, fetches, TypeOK
  <2>2. OneSocketPerClient'
    BY <1>0, <1>8 DEF Reconnect, SocketType, OneSocketPerClient
  <2>3. Leftover
    BY <1>0, <1>8 DEF Reconnect, SocketType, Leftover, Alive
  <2> QED
    BY <1>0, <1>8, <2>1, <2>2, <2>3
       DEF Reconnect, store, fetches, IInv, Attached, NotClosing, BusyIsWaiting
<1>9. ASSUME NEW n \in Nodes, SaveNode(n) \/ RemoveNode(n) PROVE IInv' /\ Leftover
  <2>1. TypeOK'
    BY <1>0, <1>9 DEF SaveNode, RemoveNode, store, meta, fetches, sockets, TypeOK
  <2> QED
    BY <1>0, <1>9, <2>1
       DEF SaveNode, RemoveNode, store, fetches, sockets, IInv, Attached, NotClosing, BusyIsWaiting,
           OneSocketPerClient, Leftover, Alive
<1>10. CASE Reload
  <2>1. TypeOK'
    BY <1>0, <1>10 DEF Reload, TypeOK
  <2> QED
    BY <1>0, <1>10, <2>1 DEF Reload, SocketType, Leftover, Alive, IInv, Attached, NotClosing, BusyIsWaiting, OneSocketPerClient
<1>11. CASE UNCHANGED vars
  <2>1. TypeOK'
    BY <1>0, <1>11 DEF vars, store, meta, fetches, sockets, TypeOK
  <2>2. Leftover
    BY <1>0, <1>11 DEF vars, sockets, Leftover, Alive
  <2> QED
    BY <1>0, <1>11, <2>1, <2>2
       DEF vars, store, fetches, sockets, IInv, Attached, NotClosing, BusyIsWaiting,
           OneSocketPerClient
<1> QED
  BY <1>1, <1>2, <1>3, <1>4, <1>5, <1>6, <1>7, <1>8, <1>9, <1>10, <1>11 DEF Next

\* The inductive invariant of the page.
THEOREM Dashboard_Invariance == Spec => []IInv
<1>1. IInv /\ [Next]_vars => IInv'
  BY StepInvariant
<1> QED
  BY <1>1, InitInvariant, PTL DEF Spec

\* The store, the fetches and the sockets keep their types.
THEOREM Dashboard_Type == Spec => []TypeOK
<1>1. IInv => TypeOK
  BY DEF IInv
<1> QED
  BY <1>1, Dashboard_Invariance, PTL

\* A form's button is disabled only for the form's own fetch, for any number of calls.
THEOREM Dashboard_BusyIsWaiting == Spec => []BusyIsWaiting
<1>1. IInv => BusyIsWaiting
  BY DEF IInv
<1> QED
  BY <1>1, Dashboard_Invariance, PTL

\* No client is ever between two sockets.
THEOREM Dashboard_OneSocketPerClient == Spec => []OneSocketPerClient
<1>1. IInv => OneSocketPerClient
  BY DEF IInv
<1> QED
  BY <1>1, Dashboard_Invariance, PTL

\* A client that App lets go of between two sockets never comes back, for any number of
\* clients and whatever they do: one that lives on had a socket when it was let go of.
THEOREM Dashboard_LeftoverHadSocket == Spec => LeftoverHadSocket
<1>1. IInv /\ [Next]_vars =>
        [\A c \in Clients :
            Alive(c)' /\ wsRef' /= c =>
                \/ Alive(c) /\ wsRef /= c
                \/ wsRef = c /\ ws[c] \in {"connecting", "open"}]_vars
  BY StepInvariant DEF Leftover
<1> QED
  BY <1>1, Dashboard_Invariance, PTL DEF Spec, LeftoverHadSocket
=============================================================================
