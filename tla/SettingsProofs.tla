--------------------------- MODULE SettingsProofs ---------------------------
(***************************************************************************)
(* Proofs about Settings, for any nodes and any finite set of tests.       *)
(*                                                                         *)
(* BusyIsOwnTest counts tests; what is inductive is that the dialog is     *)
(* busy just when there is a test of this drawer's dialog, and that there  *)
(* are never two, because both of the dialog's buttons wait.               *)
(***************************************************************************)
EXTENDS Settings, FiniteSetTheorems, TLAPS

OwnTest(k) == test[k].at = "sent" /\ test[k].button = "dialog" /\ test[k].live

Waits == editBusy <=> \E k \in Tests : OwnTest(k)
Alone == \A j, k \in Tests : OwnTest(j) /\ OwnTest(k) => j = k
Aimed == \A k \in Tests : test[k].at \in {"sent", "timer"} => test[k].id \in Nodes
IInv  == /\ TypeOK /\ Aimed /\ Waits /\ Alone
         /\ BannerIsOfLatestTest /\ CardTestIsAttended

TestType == [at : {"idle", "sent", "timer", "done"}, live : BOOLEAN,
             button : {None, "card", "dialog"}, id : Nodes \cup {None}]

LEMMA OwnTests == DialogTests = {k \in Tests : OwnTest(k)}
BY DEF DialogTests, OwnTest

LEMMA TestIsRecord ==
    ASSUME TypeOK, NEW k \in Tests
    PROVE  /\ test[k] \in TestType
           /\ Ended \in TestType
           /\ [test[k] EXCEPT !.at = "timer"] \in TestType
           /\ [test[k] EXCEPT !.live = FALSE] \in TestType
BY DEF TypeOK, TestType, Ended, Idle

\* A message on a card has a card's test behind it.
Attends(k) ==
    /\ test[k].at \in {"sent", "timer"} /\ test[k].live
    /\ test[k].button = "card" /\ test[k].id = cardTest.id

LEMMA InitInvariant == Init => IInv
<1> SUFFICES ASSUME Init PROVE IInv
  OBVIOUS
<1>1. TypeOK
  BY DEF Init, TypeOK, Idle, NoCard
<1>2. \A k \in Tests : ~OwnTest(k)
  BY DEF Init, OwnTest, Idle
<1> QED
  BY <1>1, <1>2 DEF Init, IInv, Aimed, Idle, Waits, Alone, BannerIsOfLatestTest, CardTestIsAttended
-----------------------------------------------------------------------------
(***************************************************************************)
(* Steps that leave the tests, the banner and the cards alone.             *)
(***************************************************************************)
LEMMA QuietStep ==
    ASSUME IInv, TypeOK', test' = test, cardTest' = cardTest, editBusy' = editBusy,
           editBanner' \in {None, editBanner}
    PROVE  IInv'
<1>1. \A k \in Tests : OwnTest(k)' <=> OwnTest(k)
  BY DEF OwnTest
<1>2. Waits' /\ Alone'
  BY <1>1 DEF IInv, Waits, Alone
<1>3. DialogTests' = DialogTests
  BY DEF DialogTests
<1>4. BannerIsOfLatestTest'
  BY <1>3 DEF IInv, BannerIsOfLatestTest
<1>5. CardTestIsAttended'
  BY DEF IInv, CardTestIsAttended
<1>6. Aimed'
  BY DEF IInv, Aimed
<1> QED
  BY <1>2, <1>4, <1>5, <1>6 DEF IInv

\* A step of one test k, which is none of the dialog's of this drawer before and after.
LEMMA CardStep ==
    ASSUME IInv, TypeOK', NEW k \in Tests, NEW r,
           test' = [test EXCEPT ![k] = r],
           ~OwnTest(k), ~(r.at = "sent" /\ r.button = "dialog" /\ r.live),
           r.at \in {"sent", "timer"} => r.id \in Nodes,
           editBusy' = editBusy, editBanner' = editBanner
    PROVE  Aimed' /\ Waits' /\ Alone' /\ BannerIsOfLatestTest'
<1>1. \A j \in Tests : test'[j] = IF j = k THEN r ELSE test[j]
  BY DEF IInv, TypeOK
<1>2. \A j \in Tests : OwnTest(j)' <=> OwnTest(j)
  BY <1>1 DEF OwnTest
<1>3. DialogTests' = DialogTests
  <2>1. DialogTests' = {j \in Tests : OwnTest(j)'}
    BY DEF DialogTests, OwnTest
  <2> QED
    BY <1>2, <2>1, OwnTests
<1>4. Aimed'
  BY <1>1 DEF IInv, Aimed
<1> QED
  BY <1>2, <1>3, <1>4 DEF IInv, Waits, Alone, BannerIsOfLatestTest

\* Another test than k keeps attending to the message.
LEMMA OthersAttend ==
    ASSUME TypeOK, NEW k \in Tests, NEW r, test' = [test EXCEPT ![k] = r],
           cardTest' = cardTest, NEW j \in Tests, j /= k, Attends(j)
    PROVE  Attends(j)'
BY DEF TypeOK, Attends

LEMMA Attended == CardTestIsAttended <=> (cardTest /= NoCard => \E k \in Tests : Attends(k))
BY DEF CardTestIsAttended, Attends
-----------------------------------------------------------------------------
LEMMA NextInvariant == IInv /\ [Next]_vars => IInv'
<1> SUFFICES ASSUME IInv, [Next]_vars PROVE IInv'
  OBVIOUS
<1> USE NoneAssumption
<1>0. TypeOK
  BY DEF IInv
<1>1. CASE OpenDrawer \/ CloseDrawer
  <2>1. TypeOK'
    BY <1>0, <1>1 DEF OpenDrawer, CloseDrawer, drawer, TypeOK
  <2> QED
    BY <1>1, <2>1, QuietStep DEF OpenDrawer, CloseDrawer, drawer
<1>2. CASE AddNode \/ EditNode
  <2>1. PICK id \in Nodes : ShowDialog(id)
    BY <1>0, <1>2 DEF AddNode, EditNode, TypeOK
  <2>2. TypeOK'
    BY <1>0, <2>1 DEF ShowDialog, TypeOK
  <2> QED
    BY <2>1, <2>2, QuietStep DEF ShowDialog
<1>3. CASE DeleteNode
  <2>1. TypeOK'
    BY <1>0, <1>3 DEF DeleteNode, drawer, TypeOK
  <2> QED
    BY <1>3, <2>1, QuietStep DEF DeleteNode, drawer
<1>4. CASE CancelEdit
  <2>1. TypeOK'
    BY <1>0, <1>4 DEF CancelEdit, TypeOK
  <2> QED
    BY <1>4, <2>1, QuietStep DEF CancelEdit
<1>5. CASE SaveEdit
  <2>1. TypeOK'
    BY <1>0, <1>5 DEF SaveEdit, InDialog, TypeOK
  <2> QED
    BY <1>5, <2>1, QuietStep DEF SaveEdit
<1>6. CASE Mount
  <2>1. TypeOK'
    BY <1>0, <1>6 DEF Mount, drawer, TypeOK
  <2> QED
    BY <1>6, <2>1, QuietStep DEF Mount, drawer
<1>7. CASE Unmount
  <2>1. \A k \in Tests : test'[k] = [test[k] EXCEPT !.live = FALSE]
    BY <1>7 DEF Unmount
  <2>2. \A k \in Tests : test'[k] \in TestType /\ ~test'[k].live
    BY <1>0, <2>1, TestIsRecord DEF TestType
  <2>3. TypeOK'
    BY <1>0, <1>7, <2>2 DEF Unmount, TypeOK, TestType
  <2>4. \A k \in Tests : ~OwnTest(k)'
    BY <2>2 DEF OwnTest
  <2>5. Aimed'
    <3>1. \A k \in Tests : test'[k].at = test[k].at /\ test'[k].id = test[k].id
      BY <1>0, <2>1, TestIsRecord DEF TestType
    <3> QED
      BY <3>1 DEF IInv, Aimed
  <2>6. DialogTests' = {}
    BY <2>4 DEF DialogTests, OwnTest
  <2> QED
    BY <1>7, <2>3, <2>4, <2>5, <2>6
       DEF Unmount, IInv, Waits, Alone, BannerIsOfLatestTest, CardTestIsAttended
<1>8. ASSUME NEW k \in Tests, TestCard(k) PROVE IInv'
  <2>1. PICK id \in nodes : Send(k, "card", id) /\ cardTest' = [id |-> id, msg |-> "..."]
    BY <1>8 DEF TestCard
  <2> DEFINE r == [at |-> "sent", button |-> "card", id |-> id, live |-> TRUE]
  <2>2. test[k].at = "idle" /\ test' = [test EXCEPT ![k] = r] /\ id \in Nodes
    BY <1>0, <2>1 DEF Send, TypeOK
  <2>3. TypeOK'
    BY <1>0, <1>8, <2>1, <2>2 DEF TestCard, TypeOK
  <2>4. Aimed' /\ Waits' /\ Alone' /\ BannerIsOfLatestTest'
    BY <1>8, <2>2, <2>3, CardStep DEF TestCard, OwnTest
  <2>5. test'[k] = r
    BY <1>0, <2>2 DEF TypeOK
  <2>6. Attends(k)'
    BY <2>1, <2>5 DEF Attends
  <2>7. CardTestIsAttended'
    BY <2>6 DEF CardTestIsAttended, Attends
  <2> QED
    BY <2>3, <2>4, <2>7 DEF IInv
<1>9. ASSUME NEW k \in Tests, CardAnswer(k) PROVE IInv'
  <2> DEFINE r == [test[k] EXCEPT !.at = "timer"]
  <2>1. PICK msg \in {"ok", "err"} :
          cardTest' = IF test[k].live THEN [id |-> test[k].id, msg |-> msg] ELSE cardTest
    BY <1>9 DEF CardAnswer
  <2>2. test[k].at = "sent" /\ test[k].button = "card" /\ test' = [test EXCEPT ![k] = r]
    BY <1>9 DEF CardAnswer
  <2>3. /\ r \in TestType /\ r.at = "timer" /\ r.id = test[k].id /\ test[k].id \in Nodes
        /\ r.live = test[k].live /\ r.button = test[k].button
    BY <1>0, <2>2, TestIsRecord DEF TestType, IInv, Aimed
  <2>4. \A j \in Tests : test'[j] = IF j = k THEN r ELSE test[j]
    BY <1>0, <2>2 DEF TypeOK
  <2> HIDE DEF r
  <2>5. TypeOK'
    <3>1. test' \in [Tests -> TestType]
      BY <1>0, <2>2, <2>3 DEF TypeOK, TestType
    <3>2. cardTest' \in [id : Nodes, msg : {"...", "ok", "err"}] \cup {NoCard}
      BY <1>0, <2>1, <2>3 DEF TypeOK
    <3> QED
      BY <1>0, <1>9, <3>1, <3>2 DEF CardAnswer, TypeOK, TestType
  <2>6. Aimed' /\ Waits' /\ Alone' /\ BannerIsOfLatestTest'
    BY <1>9, <2>2, <2>3, <2>5, CardStep DEF CardAnswer, OwnTest
  <2>7. CardTestIsAttended'
    <3>1. CASE test[k].live
      <4>1. cardTest'.id = test[k].id
        BY <2>1, <3>1
      <4> QED
        BY <2>2, <2>3, <2>4, <3>1, <4>1 DEF CardTestIsAttended
    <3>2. CASE ~test[k].live
      <4>1. cardTest' = cardTest
        BY <2>1, <3>2
      <4>2. \A j \in Tests : Attends(j) => Attends(j)'
        BY <2>4, <3>2, <4>1 DEF Attends
      <4> QED
        BY <4>1, <4>2 DEF IInv, CardTestIsAttended, Attends
    <3> QED
      BY <3>1, <3>2
  <2> QED
    BY <2>5, <2>6, <2>7 DEF IInv
<1>10. ASSUME NEW k \in Tests, CardTimer(k) PROVE IInv'
  <2>1. test[k].at = "timer" /\ test' = [test EXCEPT ![k] = Ended]
    BY <1>10 DEF CardTimer
  <2>2. cardTest' = IF test[k].live /\ cardTest.id = test[k].id THEN NoCard ELSE cardTest
    BY <1>10 DEF CardTimer
  <2>3. \A j \in Tests : test'[j] = IF j = k THEN Ended ELSE test[j]
    BY <1>0, <2>1 DEF TypeOK
  <2>4. Ended \in TestType /\ Ended.at = "done"
    BY <1>0, TestIsRecord DEF Ended, Idle
  <2>5. TypeOK'
    BY <1>0, <1>10, <2>1, <2>2, <2>4 DEF CardTimer, TypeOK, TestType
  <2>6. Aimed' /\ Waits' /\ Alone' /\ BannerIsOfLatestTest'
    BY <1>10, <2>1, <2>4, <2>5, CardStep DEF CardTimer, OwnTest
  <2>7. CardTestIsAttended'
    <3>1. SUFFICES ASSUME cardTest' /= NoCard PROVE \E j \in Tests : Attends(j)'
      BY DEF CardTestIsAttended, Attends
    <3>2. cardTest' = cardTest /\ ~(test[k].live /\ cardTest.id = test[k].id)
      BY <2>2, <3>1
    <3>3. PICK j \in Tests : Attends(j)
      BY <3>1, <3>2, Attended DEF IInv
    <3>4. j /= k
      BY <3>2, <3>3 DEF Attends
    <3> QED
      BY <2>3, <3>2, <3>3, <3>4 DEF Attends
  <2> QED
    BY <2>5, <2>6, <2>7 DEF IInv
<1>11. ASSUME NEW k \in Tests, TestEdit(k) PROVE IInv'
  <2> DEFINE r == [at |-> "sent", button |-> "dialog", id |-> edit, live |-> TRUE]
  <2>1. /\ test[k].at = "idle" /\ test' = [test EXCEPT ![k] = r]
        /\ ~editBusy /\ editBusy' = TRUE /\ editBanner' = None /\ cardTest' = cardTest
        /\ edit \in Nodes
    BY <1>0, <1>11 DEF TestEdit, Send, InDialog, TypeOK
  <2>2. \A j \in Tests : test'[j] = IF j = k THEN r ELSE test[j]
    BY <1>0, <2>1 DEF TypeOK
  <2>3. TypeOK'
    BY <1>0, <1>11, <2>1 DEF TestEdit, TypeOK
  <2>4. Aimed'
    BY <2>1, <2>2 DEF IInv, Aimed
  <2>5. \A j \in Tests : OwnTest(j)' <=> j = k
    BY <2>1, <2>2 DEF IInv, Waits, OwnTest
  <2>6. Waits' /\ Alone' /\ BannerIsOfLatestTest'
    BY <2>1, <2>5 DEF Waits, Alone, BannerIsOfLatestTest
  <2>7. \A j \in Tests : Attends(j) => Attends(j)'
    BY <2>1, <2>2 DEF Attends
  <2>8. CardTestIsAttended'
    BY <2>1, <2>7 DEF IInv, CardTestIsAttended, Attends
  <2> QED
    BY <2>3, <2>4, <2>6, <2>8 DEF IInv
<1>12. ASSUME NEW k \in Tests, EditAnswer(k) PROVE IInv'
  <2>1. PICK msg \in {"ok", "err"} : editBanner' = IF test[k].live THEN msg ELSE editBanner
    BY <1>12 DEF EditAnswer
  <2>2. /\ test[k].at = "sent" /\ test[k].button = "dialog"
        /\ test' = [test EXCEPT ![k] = Ended]
        /\ editBusy' = IF test[k].live THEN FALSE ELSE editBusy
        /\ cardTest' = cardTest
    BY <1>12 DEF EditAnswer
  <2>3. \A j \in Tests : test'[j] = IF j = k THEN Ended ELSE test[j]
    BY <1>0, <2>2 DEF TypeOK
  <2>4. Ended \in TestType /\ Ended.at = "done"
    BY <1>0, TestIsRecord DEF Ended, Idle
  <2>5. TypeOK'
    <3>1. editBusy' \in BOOLEAN
      BY <1>0, <2>2 DEF TypeOK
    <3>2. test' \in [Tests -> TestType]
      BY <1>0, <2>2, <2>4 DEF TypeOK, TestType
    <3>3. editBanner' \in {None, "ok", "err"}
      BY <1>0, <2>1 DEF TypeOK
    <3> QED
      BY <1>0, <1>12, <3>1, <3>2, <3>3 DEF EditAnswer, TypeOK, TestType
  <2>6. \A j \in Tests : Attends(j) => Attends(j)'
    BY <2>2, <2>3 DEF Attends
  <2>7. CardTestIsAttended'
    BY <2>2, <2>6 DEF IInv, CardTestIsAttended, Attends
  <2>8. Aimed'
    BY <2>3, <2>4 DEF IInv, Aimed
  <2>9. CASE test[k].live
    <3>1. \A j \in Tests : ~OwnTest(j)'
      BY <2>2, <2>3, <2>4, <2>9 DEF IInv, Alone, OwnTest
    <3>2. DialogTests' = {}
      BY <3>1 DEF DialogTests, OwnTest
    <3>3. editBusy' = FALSE
      BY <2>2, <2>9
    <3>4. Waits' /\ Alone' /\ BannerIsOfLatestTest'
      BY <3>1, <3>2, <3>3 DEF Waits, Alone, BannerIsOfLatestTest
    <3> QED
      BY <2>5, <2>7, <2>8, <3>4 DEF IInv
  <2>10. CASE ~test[k].live
    <3>1. Waits' /\ Alone' /\ BannerIsOfLatestTest'
      BY <1>12, <2>1, <2>2, <2>4, <2>5, <2>10, CardStep DEF OwnTest
    <3> QED
      BY <2>5, <2>7, <2>8, <3>1 DEF IInv
  <2> QED
    BY <2>9, <2>10
<1>13. CASE UNCHANGED vars
  <2>1. TypeOK'
    BY <1>0, <1>13 DEF vars, drawer, TypeOK
  <2> QED
    BY <1>13, <2>1, QuietStep DEF vars, drawer
<1> QED
  BY <1>1, <1>2, <1>3, <1>4, <1>5, <1>6, <1>7, <1>8, <1>9, <1>10, <1>11, <1>12, <1>13 DEF Next

\* The inductive invariant holds.
THEOREM Settings_Invariance == Spec => []IInv
<1> QED
  BY InitInvariant, NextInvariant, PTL DEF Spec

\* The drawer, the dialog and the tests keep their types.
THEOREM Settings_Type == Spec => []TypeOK
<1>1. IInv => TypeOK
  BY DEF IInv
<1> QED
  BY <1>1, Settings_Invariance, PTL

\* The dialog is disabled exactly while one test of this drawer's dialog is under way.
THEOREM Settings_BusyIsOwnTest == Spec => []BusyIsOwnTest
<1>1. IInv => BusyIsOwnTest
  <2> SUFFICES ASSUME IInv PROVE BusyIsOwnTest
    OBVIOUS
  <2>1. CASE ~editBusy
    <3>1. DialogTests = {}
      BY <2>1, OwnTests DEF IInv, Waits
    <3> QED
      BY <2>1, <3>1, FS_EmptySet DEF BusyIsOwnTest
  <2>2. CASE editBusy
    <3>1. PICK k \in Tests : OwnTest(k)
      BY <2>2 DEF IInv, Waits
    <3>2. DialogTests = {k}
      BY <3>1, OwnTests DEF IInv, Alone
    <3> QED
      BY <2>2, <3>2, FS_Singleton DEF BusyIsOwnTest
  <2> QED
    BY <2>1, <2>2
<1> QED
  BY <1>1, Settings_Invariance, PTL

\* A banner is never shown beside a test of the dialog under way.
THEOREM Settings_BannerIsOfLatestTest == Spec => []BannerIsOfLatestTest
<1>1. IInv => BannerIsOfLatestTest
  BY DEF IInv
<1> QED
  BY <1>1, Settings_Invariance, PTL

\* A message on a card has a test that will replace or clear it, however tests overlap.
THEOREM Settings_CardTestIsAttended == Spec => []CardTestIsAttended
<1>1. IInv => CardTestIsAttended
  BY DEF IInv
<1> QED
  BY <1>1, Settings_Invariance, PTL
=============================================================================
