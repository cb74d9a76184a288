------------------------------ MODULE Settings ------------------------------
(***************************************************************************)
(* SettingsDrawer: the list of saved nodes with a test button on each      *)
(* card, and the dialog that adds or edits a node, with a test button of   *)
(* its own.  A test is a connect call; its answer is shown for 4 s on the  *)
(* card, or as the dialog's banner.                                        *)
(*                                                                         *)
(* The drawer keeps its state while it is closed, and loses it when the    *)
(* dashboard is unmounted, which connState does (Dashboard models that);   *)
(* App keeps settingsOpen.  A test that is under way then goes on, and its *)
(* set calls reach nobody.  The dialog's backdrop covers the drawer.       *)
(***************************************************************************)
EXTENDS Naturals, FiniteSets

CONSTANTS
    Nodes,    \* node ids
    Tests,    \* bound: tests in a behaviour
    None

ASSUME NoneAssumption == None \notin Nodes \cup Tests
ASSUME TestsAssumption == IsFiniteSet(Tests)

VARIABLES
    mounted,      \* whether the dashboard is shown
    settingsOpen, \* App: settingsOpen
    nodes,        \* store, persisted: saved nodes
    edit,         \* the node in the dialog, None if there is no dialog
    editBusy,     \* the dialog waits for a test
    editBanner,   \* the dialog's banner: None, "ok" or "err"
    cardTest,     \* the card with a message, and the message: "...", "ok" or "err"
    test          \* each test: where it is, the button, the node, its drawer's lifetime

drawer == <<edit, editBusy, editBanner, cardTest>>
vars   == <<mounted, settingsOpen, nodes, drawer, test>>

NoCard == [id |-> None, msg |-> None]
Idle   == [at |-> "idle", button |-> None, id |-> None, live |-> FALSE]
Ended  == [Idle EXCEPT !.at = "done"]

Init ==
    /\ mounted = TRUE
    /\ settingsOpen = FALSE
    /\ nodes \in SUBSET Nodes
    /\ edit = None
    /\ editBusy = FALSE
    /\ editBanner = None
    /\ cardTest = NoCard
    /\ test = [k \in Tests |-> Idle]

\* The drawer's own buttons can be used.
InDrawer == mounted /\ settingsOpen /\ edit = None

InDialog == mounted /\ settingsOpen /\ edit /= None

Send(k, button, id) ==
    /\ test[k].at = "idle"
    /\ test' = [test EXCEPT ![k] = [at |-> "sent", button |-> button, id |-> id, live |-> TRUE]]
-----------------------------------------------------------------------------
(***************************************************************************)
(* The drawer.                                                             *)
(***************************************************************************)
OpenDrawer ==
    /\ mounted /\ ~settingsOpen
    /\ settingsOpen' = TRUE
    /\ UNCHANGED <<mounted, nodes, drawer, test>>

\* The close button, the backdrop, or Escape when there is no dialog.
CloseDrawer ==
    /\ InDrawer
    /\ settingsOpen' = FALSE
    /\ UNCHANGED <<mounted, nodes, drawer, test>>

ShowDialog(id) ==
    /\ edit' = id
    /\ editBanner' = None
    /\ UNCHANGED <<mounted, settingsOpen, nodes, editBusy, cardTest, test>>

\* onAddNode: genId makes an id that nothing has.
AddNode ==
    /\ InDrawer
    /\ \E id \in Nodes \ (nodes \cup {test[k].id : k \in Tests}) : ShowDialog(id)

EditNode ==
    /\ InDrawer
    /\ \E id \in nodes : ShowDialog(id)

\* onDeleteNode, confirmed.
DeleteNode ==
    /\ InDrawer
    /\ \E id \in nodes : nodes' = nodes \ {id}
    /\ UNCHANGED <<mounted, settingsOpen, drawer, test>>

\* onTestCard, before the await: cards can be tested while others are, or again.
TestCard(k) ==
    /\ InDrawer
    /\ \E id \in nodes : Send(k, "card", id) /\ cardTest' = [id |-> id, msg |-> "..."]
    /\ UNCHANGED <<mounted, settingsOpen, nodes, edit, editBusy, editBanner>>

\* (mutant) An error returns before the timer is set.
CardErrorStays(k) ==
    /\ test[k].at = "sent" /\ test[k].button = "card"
    /\ \E msg \in {"ok", "err"} :
         /\ cardTest' = IF test[k].live THEN [id |-> test[k].id, msg |-> msg] ELSE cardTest
         /\ test' = [test EXCEPT ![k] = IF msg = "ok" THEN [@ EXCEPT !.at = "timer"] ELSE Ended]
    /\ UNCHANGED <<mounted, settingsOpen, nodes, edit, editBusy, editBanner>>

\* onTestCard, after the await: an answer, or what the fetch throws.
CardAnswer(k) ==
    /\ test[k].at = "sent" /\ test[k].button = "card"
    /\ \E msg \in {"ok", "err"} :
         cardTest' = IF test[k].live THEN [id |-> test[k].id, msg |-> msg] ELSE cardTest
    /\ test' = [test EXCEPT ![k].at = "timer"]
    /\ UNCHANGED <<mounted, settingsOpen, nodes, edit, editBusy, editBanner>>

\* The callback of setTimeout, 4 s later.
CardTimer(k) ==
    /\ test[k].at = "timer"
    /\ cardTest' = IF test[k].live /\ cardTest.id = test[k].id THEN NoCard ELSE cardTest
    /\ test' = [test EXCEPT ![k] = Ended]
    /\ UNCHANGED <<mounted, settingsOpen, nodes, edit, editBusy, editBanner>>
-----------------------------------------------------------------------------
(***************************************************************************)
(* EditDialog.                                                             *)
(***************************************************************************)

\* The cancel and close buttons, the backdrop, Escape.
CancelEdit ==
    /\ InDialog
    /\ edit' = None
    /\ UNCHANGED <<mounted, settingsOpen, nodes, editBusy, editBanner, cardTest, test>>

\* submit: the button is disabled while a test is under way.
SaveEdit ==
    /\ InDialog /\ ~editBusy
    /\ nodes' = nodes \cup {edit}
    /\ edit' = None
    /\ UNCHANGED <<mounted, settingsOpen, editBusy, editBanner, cardTest, test>>

\* onTest, before the await: this button is disabled as well.
TestEdit(k) ==
    /\ InDialog /\ ~editBusy
    /\ Send(k, "dialog", edit)
    /\ editBusy' = TRUE
    /\ editBanner' = None
    /\ UNCHANGED <<mounted, settingsOpen, nodes, edit, cardTest>>

\* (mutant) editBusy is global: the answer to an earlier drawer's test resets it.
EditAnswerGlobally(k) ==
    /\ test[k].at = "sent" /\ test[k].button = "dialog"
    /\ \E msg \in {"ok", "err"} : editBanner' = IF test[k].live THEN msg ELSE editBanner
    /\ editBusy' = FALSE
    /\ test' = [test EXCEPT ![k] = Ended]
    /\ UNCHANGED <<mounted, settingsOpen, nodes, edit, cardTest>>

\* (mutant) editBusy is reset after an answer, but not when the fetch throws.
EditAnswerStaysBusy(k) ==
    /\ test[k].at = "sent" /\ test[k].button = "dialog"
    /\ \E msg \in {"ok", "err"} : editBanner' = IF test[k].live THEN msg ELSE editBanner
    /\ editBusy' = IF test[k].live THEN editBusy /\ editBanner' = "err" ELSE editBusy
    /\ test' = [test EXCEPT ![k] = Ended]
    /\ UNCHANGED <<mounted, settingsOpen, nodes, edit, cardTest>>

\* onTest, after the await, with its finally clause.  The dialog may have been
\* closed, or be another node's: the banner is shown there.
EditAnswer(k) ==
    /\ test[k].at = "sent" /\ test[k].button = "dialog"
    /\ \E msg \in {"ok", "err"} : editBanner' = IF test[k].live THEN msg ELSE editBanner
    /\ editBusy' = IF test[k].live THEN FALSE ELSE editBusy
    /\ test' = [test EXCEPT ![k] = Ended]
    /\ UNCHANGED <<mounted, settingsOpen, nodes, edit, cardTest>>
-----------------------------------------------------------------------------
(***************************************************************************)
(* The dashboard around it.                                                *)
(***************************************************************************)

\* connState leaves "connected": the drawer's state is gone.
Unmount ==
    /\ mounted
    /\ mounted' = FALSE
    /\ edit' = None
    /\ editBusy' = FALSE
    /\ editBanner' = None
    /\ cardTest' = NoCard
    /\ test' = [k \in Tests |-> [test[k] EXCEPT !.live = FALSE]]
    /\ UNCHANGED <<settingsOpen, nodes>>

Mount ==
    /\ ~mounted
    /\ mounted' = TRUE
    /\ UNCHANGED <<settingsOpen, nodes, drawer, test>>

Next ==
    \/ OpenDrawer \/ CloseDrawer \/ AddNode \/ EditNode \/ DeleteNode
    \/ CancelEdit \/ SaveEdit \/ Unmount \/ Mount
    \/ \E k \in Tests : \/ TestCard(k) \/ CardAnswer(k) \/ CardTimer(k)
                        \/ TestEdit(k) \/ EditAnswer(k)

Spec == Init /\ [][Next]_vars

\* A fetch is answered or throws, and a timer fires; a user need not do anything.
Fairness ==
    \A k \in Tests : WF_vars(CardAnswer(k) \/ CardTimer(k) \/ EditAnswer(k))

FairSpec == Spec /\ Fairness
-----------------------------------------------------------------------------
(***************************************************************************)
(* Properties.                                                             *)
(***************************************************************************)
\* The drawer, the dialog and the tests have the values their types say.
TypeOK ==
    /\ mounted \in BOOLEAN /\ settingsOpen \in BOOLEAN
    /\ nodes \subseteq Nodes
    /\ edit \in Nodes \cup {None}
    /\ editBusy \in BOOLEAN
    /\ editBanner \in {None, "ok", "err"}
    /\ cardTest \in [id : Nodes, msg : {"...", "ok", "err"}] \cup {NoCard}
    /\ test \in [Tests -> [at : {"idle", "sent", "timer", "done"}, live : BOOLEAN,
                           button : {None, "card", "dialog"}, id : Nodes \cup {None}]]

DialogTests == {k \in Tests : test[k].at = "sent" /\ test[k].button = "dialog" /\ test[k].live}

\* The dialog's buttons are disabled exactly while a test of this drawer is under
\* way, and that is one at most: also when the dialog was closed meanwhile, another
\* was opened, or the dashboard left and came back with older tests unanswered.
BusyIsOwnTest == Cardinality(DialogTests) = IF editBusy THEN 1 ELSE 0

\* A banner is never shown beside a test under way: it is not mistaken for its result.
BannerIsOfLatestTest == editBanner /= None => DialogTests = {}

\* Tests of cards overlap as the user likes, each setting and clearing the one
\* cardTest; a message is never left without a test that will replace or clear it.
CardTestIsAttended ==
    cardTest /= NoCard =>
        \E k \in Tests : /\ test[k].at \in {"sent", "timer"} /\ test[k].live
                         /\ test[k].button = "card" /\ test[k].id = cardTest.id

\* So no card is left with its dots or its result for ever.
CardTestGoes == \A id \in Nodes : cardTest.id = id ~> cardTest.id /= id

\* A dialog can be saved again after a test, whatever came of it.
BusyEnds == editBusy ~> ~editBusy
=============================================================================
