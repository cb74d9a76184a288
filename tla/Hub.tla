-------------------------------- MODULE Hub --------------------------------
(***************************************************************************)
(* Manager's WebSocket side: HandleWS registers a subscriber and runs two  *)
(* goroutines for it, writePump and readPump; the ticker broadcasts into   *)
(* the subscribers' bounded channels and never waits for them; a browser   *)
(* may go away, or stop reading, at any moment; main closes all at exit.   *)
(*                                                                         *)
(* subsMu is held for one step by Broadcast, by the registration and by    *)
(* the deferred delete of readPump, and across the close handshakes by     *)
(* CloseAll, which is when main is "closing".                              *)
(*                                                                         *)
(* The connection itself is the library's: a write that fails, or is not   *)
(* done in 5 s, closes it, and reading a closed connection fails.          *)
(***************************************************************************)
EXTENDS Naturals, Sequences, SequencesExt

CONSTANTS
    Clients,    \* WebSocket connections, over the life of the server
    Cap,        \* capacity of the send channel: 16 in the code
    MaxTicks    \* bound: broadcasts in a behaviour

ASSUME CapAssumption == Cap \in Nat \ {0}
ASSUME MaxTicksAssumption == MaxTicks \in Nat

VARIABLES
    main,       \* "serving", "closing" (CloseAll holds subsMu) or "exited"
    subs,       \* Manager.subs
    ticks,      \* the number of ticks broadcast; a tick is its number
    conn,       \* each connection: "none", "open" or "closed"
    wr,         \* writePump: "none", "select", "write" or "end"
    rd,         \* HandleWS, then readPump: "none", "accepted", "read", "forget" or "end"
    send,       \* each subscriber's send channel
    writing,    \* the message writePump has taken out of it
    done,       \* the subscribers whose done channel is closed
    sent,       \* history: the messages written to the connection
    since,      \* history: ticks broadcast before the subscriber was registered
    full        \* history: subscribers that a broadcast found full

vars == <<main, subs, ticks, conn, wr, rd, send, writing, done, sent, since, full>>

Init ==
    /\ main = "serving"
    /\ subs = {}
    /\ ticks = 0
    /\ conn = [c \in Clients |-> "none"]
    /\ wr = [c \in Clients |-> "none"]
    /\ rd = [c \in Clients |-> "none"]
    /\ send = [c \in Clients |-> <<>>]
    /\ writing = [c \in Clients |-> 0]
    /\ done = {}
    /\ sent = [c \in Clients |-> <<>>]
    /\ since = [c \in Clients |-> 0]
    /\ full = {}
-----------------------------------------------------------------------------
\* HandleWS: the handshake is done.
Accept(c) ==
    /\ main = "serving"
    /\ rd[c] = "none"
    /\ conn' = [conn EXCEPT ![c] = "open"]
    /\ rd' = [rd EXCEPT ![c] = "accepted"]
    /\ UNCHANGED <<main, subs, ticks, wr, send, writing, done, sent, since, full>>

\* m.subs[sub] under subsMu; writePump starts and HandleWS becomes readPump.
Register(c) ==
    /\ main = "serving"
    /\ rd[c] = "accepted"
    /\ subs' = subs \cup {c}
    /\ wr' = [wr EXCEPT ![c] = "select"]
    /\ rd' = [rd EXCEPT ![c] = "read"]
    /\ since' = [since EXCEPT ![c] = ticks]
    /\ UNCHANGED <<main, ticks, conn, send, writing, done, sent, full>>

\* (mutant) Broadcast sends without the default branch, into a larger buffer.
BroadcastUnbounded ==
    /\ main = "serving"
    /\ ticks < MaxTicks
    /\ ticks' = ticks + 1
    /\ send' = [c \in Clients |-> IF c \in subs THEN Append(send[c], ticks + 1) ELSE send[c]]
    /\ UNCHANGED <<main, subs, conn, wr, rd, writing, done, sent, since, full>>

\* Every registered subscriber with room in its channel gets the message.
Broadcast ==
    /\ main = "serving"
    /\ ticks < MaxTicks
    /\ ticks' = ticks + 1
    /\ send' = [c \in Clients |-> IF c \in subs /\ Len(send[c]) < Cap
                                    THEN Append(send[c], ticks + 1) ELSE send[c]]
    /\ full' = full \cup {c \in subs : Len(send[c]) = Cap}
    /\ UNCHANGED <<main, subs, conn, wr, rd, writing, done, sent, since>>
-----------------------------------------------------------------------------
\* writePump: a message is ready.
Take(c) ==
    /\ main /= "exited"
    /\ wr[c] = "select"
    /\ send[c] /= <<>>
    /\ writing' = [writing EXCEPT ![c] = Head(send[c])]
    /\ send' = [send EXCEPT ![c] = Tail(@)]
    /\ wr' = [wr EXCEPT ![c] = "write"]
    /\ UNCHANGED <<main, subs, ticks, conn, rd, done, sent, since, full>>

\* writePump: done is closed; select may prefer it to a message.
Done(c) ==
    /\ main /= "exited"
    /\ wr[c] = "select"
    /\ c \in done
    /\ wr' = [wr EXCEPT ![c] = "end"]
    /\ UNCHANGED <<main, subs, ticks, conn, rd, send, writing, done, sent, since, full>>

Write(c) ==
    /\ main /= "exited"
    /\ wr[c] = "write"
    /\ conn[c] = "open"
    /\ sent' = [sent EXCEPT ![c] = Append(@, writing[c])]
    /\ writing' = [writing EXCEPT ![c] = 0]
    /\ wr' = [wr EXCEPT ![c] = "select"]
    /\ UNCHANGED <<main, subs, ticks, conn, rd, send, done, since, full>>

\* (mutant) writePump puts the message back and goes on after an error.
WriteRetries(c) ==
    /\ main /= "exited"
    /\ wr[c] = "write"
    /\ Len(send[c]) < Cap
    /\ send' = [send EXCEPT ![c] = Append(@, writing[c])]
    /\ writing' = [writing EXCEPT ![c] = 0]
    /\ wr' = [wr EXCEPT ![c] = "select"]
    /\ UNCHANGED <<main, subs, ticks, conn, rd, done, sent, since, full>>

\* (mutant) writePump drops the message and goes on after an error.
WriteSkips(c) ==
    /\ main /= "exited"
    /\ wr[c] = "write"
    /\ writing' = [writing EXCEPT ![c] = 0]
    /\ wr' = [wr EXCEPT ![c] = "select"]
    /\ UNCHANGED <<main, subs, ticks, conn, rd, send, done, sent, since, full>>

\* (mutant) The 5 s limit abandons the write but not the connection.
WriteGivesUp(c) ==
    /\ main /= "exited"
    /\ wr[c] = "write"
    /\ writing' = [writing EXCEPT ![c] = 0]
    /\ wr' = [wr EXCEPT ![c] = "end"]
    /\ UNCHANGED <<main, subs, ticks, conn, rd, send, done, sent, since, full>>

\* The connection is closed, or the browser does not read for 5 s.
WriteFails(c) ==
    /\ main /= "exited"
    /\ wr[c] = "write"
    /\ conn' = [conn EXCEPT ![c] = "closed"]
    /\ writing' = [writing EXCEPT ![c] = 0]
    /\ wr' = [wr EXCEPT ![c] = "end"]
    /\ UNCHANGED <<main, subs, ticks, rd, send, done, sent, since, full>>
-----------------------------------------------------------------------------
\* readPump: messages of the browser are ignored; an error ends the loop.
ReadFails(c) ==
    /\ main /= "exited"
    /\ rd[c] = "read"
    /\ conn[c] = "closed"
    /\ rd' = [rd EXCEPT ![c] = "forget"]
    /\ UNCHANGED <<main, subs, ticks, conn, wr, send, writing, done, sent, since, full>>

\* (mutant) readPump closes the connection but leaves the subscriber registered.
CloseOnly(c) ==
    /\ main = "serving"
    /\ rd[c] = "forget"
    /\ rd' = [rd EXCEPT ![c] = "end"]
    /\ UNCHANGED <<main, subs, ticks, conn, wr, send, writing, done, sent, since, full>>

\* readPump's deferred delete and Close.
Forget(c) ==
    /\ main = "serving"
    /\ rd[c] = "forget"
    /\ subs' = subs \ {c}
    /\ rd' = [rd EXCEPT ![c] = "end"]
    /\ UNCHANGED <<main, ticks, conn, wr, send, writing, done, sent, since, full>>

\* The browser goes away, or the network does.
ClientCloses(c) ==
    /\ main /= "exited"
    /\ conn[c] = "open"
    /\ conn' = [conn EXCEPT ![c] = "closed"]
    /\ UNCHANGED <<main, subs, ticks, wr, rd, send, writing, done, sent, since, full>>
-----------------------------------------------------------------------------
\* main returns from server.Run after a signal; CloseAll takes subsMu.
CloseAll ==
    /\ main = "serving"
    /\ main' = "closing"
    /\ UNCHANGED <<subs, ticks, conn, wr, rd, send, writing, done, sent, since, full>>

\* One round of CloseAll's loop: close(sub.done) and the close handshake.
CloseOne(c) ==
    /\ main = "closing"
    /\ c \in subs \ done
    /\ done' = done \cup {c}
    /\ conn' = [conn EXCEPT ![c] = "closed"]
    /\ UNCHANGED <<main, subs, ticks, wr, rd, send, writing, sent, since, full>>

\* The process ends, whatever its goroutines are doing.
Exit ==
    /\ main = "closing"
    /\ subs \subseteq done
    /\ subs' = {}
    /\ main' = "exited"
    /\ UNCHANGED <<ticks, conn, wr, rd, send, writing, done, sent, since, full>>
-----------------------------------------------------------------------------
WritePump(c) == Take(c) \/ Done(c) \/ Write(c) \/ WriteFails(c)
ReadPump(c)  == Register(c) \/ ReadFails(c) \/ Forget(c)

Next ==
    \/ Broadcast \/ CloseAll \/ Exit
    \/ \E c \in Clients :
          Accept(c) \/ WritePump(c) \/ ReadPump(c) \/ ClientCloses(c) \/ CloseOne(c)

Spec == Init /\ [][Next]_vars

(***************************************************************************)
(* Goroutines are scheduled; a write is done or fails within 5 s; CloseAll *)
(* ends, since a close handshake has a time limit.  Nothing obliges a      *)
(* browser, a tick or a signal to come.                                    *)
(***************************************************************************)
Fairness ==
    /\ \A c \in Clients : /\ WF_vars(WritePump(c))
                          /\ WF_vars(ReadPump(c))
                          /\ WF_vars(CloseOne(c))
    /\ WF_vars(Exit)

FairSpec == Spec /\ Fairness
-----------------------------------------------------------------------------
(***************************************************************************)
(* Properties.                                                             *)
(***************************************************************************)

\* Subscribers, goroutines and channels; a channel never holds more than Cap.
TypeOK ==
    /\ main \in {"serving", "closing", "exited"}
    /\ subs \subseteq Clients
    /\ ticks \in 0..MaxTicks
    /\ conn \in [Clients -> {"none", "open", "closed"}]
    /\ wr \in [Clients -> {"none", "select", "write", "end"}]
    /\ rd \in [Clients -> {"none", "accepted", "read", "forget", "end"}]
    /\ send \in [Clients -> Seq(1..MaxTicks)]
    /\ \A c \in Clients : Len(send[c]) <= Cap
    /\ writing \in [Clients -> 0..MaxTicks]
    /\ done \subseteq Clients
    /\ sent \in [Clients -> Seq(1..MaxTicks)]
    /\ since \in [Clients -> 0..MaxTicks]
    /\ full \subseteq Clients

\* What is on its way to a subscriber or was written to it, oldest first.
Pipeline(c) ==
    sent[c] \o (IF writing[c] = 0 THEN <<>> ELSE <<writing[c]>>) \o send[c]

\* A subscriber on an open connection that no broadcast found full misses no tick:
\* what was written, what is being written and what waits are, in this order,
\* exactly the ticks broadcast since it was registered.
NothingLostButOverflow ==
    \A c \in subs \ full :
        conn[c] = "open" =>
            Pipeline(c) = [k \in 1..(ticks - since[c]) |-> since[c] + k]

\* Whatever overflows, what a subscriber gets is in order and without repeats: the
\* newest tick is never followed by an older one that was still waiting.
InOrder ==
    \A c \in Clients : \A j, k \in 1..Len(Pipeline(c)) :
        j < k => Pipeline(c)[j] < Pipeline(c)[k]

\* A registered subscriber has a reader that will take it out again.
EntryHasReader == \A c \in subs : rd[c] \in {"read", "forget"}

\* The hub keeps the promise of Feed.
F == INSTANCE Feed WITH
        published <- ticks,
        shown <- [c \in Clients |-> IF sent[c] = <<>> THEN since[c] ELSE Last(sent[c])],
        state <- [c \in Clients |->
                    IF rd[c] \in {"none", "accepted"} THEN "new"
                    ELSE IF conn[c] = "open" THEN "on" ELSE "off"]

FeedSpec == F!Spec

\* A connection that ended is not broadcast to for ever.
ClosedIsForgotten == \A c \in Clients : conn[c] = "closed" ~> c \notin subs

\* A message in the channel is written, unless the connection or the process ends.
QueuedIsWritten ==
    \A c \in Clients : \A m \in 1..MaxTicks :
        (\E k \in 1..Len(send[c]) : send[c][k] = m)
            ~> \/ \E k \in 1..Len(sent[c]) : sent[c][k] = m
               \/ conn[c] = "closed"
               \/ main = "exited"

\* docs/architecture.md:221 says that when the browser is closed the server cleans
\* the client up.  readPump does not tell writePump, which waits for a message or
\* for done and gets neither.
ClosedIsCleanedUp ==
    \A c \in Clients :
        (conn[c] = "closed" /\ wr[c] /= "none") ~> (wr[c] = "end" \/ main = "exited")
=============================================================================
