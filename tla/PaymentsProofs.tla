----------------------------- MODULE PaymentsProofs ----------------------------
(***************************************************************************)
(* The safety properties of Payments, for any number of slots, sections,   *)
(* rows, attempts, invoices, coins and messages in flight.                 *)
(*                                                                         *)
(* ReviewIsOwn is not inductive: a decode that is accepted brings its own  *)
(* details into the review.  DecodesAreOwn adds that a call out for a      *)
(* screen's attempt was made for the request the screen remembers, which   *)
(* holds because an attempt that anything still refers to is not reused.   *)
(*                                                                         *)
(* TabsHold is not inductive either: that an index below the number of tabs*)
(* is that of one of them takes a count.  FrameInv says that the tabs of a *)
(* section have different indexes from 1 to their number; the pigeonhole   *)
(* principle makes every index taken, and the index of a tab the number of *)
(* tabs to its left, which is what removing some of them recounts.         *)
(***************************************************************************)
EXTENDS Payments, FiniteSetTheorems, TLAPS

Tab    == [kind : Kinds \cup {"none"}, section : Sections \cup {"none"},
           row : Rows \cup {0}, at : Int]
Screen == [step : Steps, attempt : Attempts \cup {0}, request : Details,
           prepared : Details, input : SUBSET Invoices]
Sent   == [kind : Kinds \cup {"none"}, stage : {"decode", "submit"},
           attempt : Attempts, details : Details]

Shape ==
  /\ tabs \in [Slots -> Tab]
  /\ section \in Sections
  /\ screen \in [Slots -> Screen]
  /\ calls \subseteq Sent
  /\ chosen \subseteq Coins

DecodesAreOwn ==
  \A c \in calls, i \in Slots :
    c.stage = "decode" /\ c.attempt = screen[i].attempt
      => c.details = screen[i].request

IInv == Shape /\ ReviewIsOwn /\ DecodesAreOwn /\ SubmittedHasAnswer

-------------------------------------------------------------------------------
(* What actions do to one slot.                                            *)

\* It keeps its tab and its screen, or gets a screen that has asked nothing.
Blank(s) == /\ s \in Screen /\ s.attempt = 0
            /\ s.step \notin {"review", "submitting"}

Kept(i) == /\ tabs'[i].kind = tabs[i].kind
           /\ screen'[i] = screen[i]

LEMMA BlankScreens ==
  /\ Blank(NoScreen)
  /\ \A kind \in Kinds : Blank(NewScreen(kind))
  BY DEF Blank, NoScreen, NewScreen, Screen, Steps, Details

LEMMA CountIsNat == \A s : Count(s) \in Nat
<1> SUFFICES ASSUME NEW s PROVE Count(s) \in Nat
  OBVIOUS
<1>1. IsFiniteSet(Slots) BY FrameAssumption DEF FrameAssumption
<1>2. OpenIn(s) \in SUBSET Slots BY DEF OpenIn
<1>3. IsFiniteSet(OpenIn(s)) BY <1>1, <1>2, FS_Subset
<1> QED BY <1>3, FS_CardinalityType DEF Count

\* A step that changes no call and no selection, and leaves every slot alone
\* or gives it a blank screen, keeps the invariant.
LEMMA QuietStep ==
  ASSUME IInv, UNCHANGED calls, Shape',
         \A i \in Slots : Kept(i) \/ Blank(screen'[i])
  PROVE  IInv'
<1> USE DEF IInv
<1>0. \A c \in calls : c.attempt # 0
  BY PaymentsAssumption DEF PaymentsAssumption, Shape, Sent
<1>1. ReviewIsOwn'
  BY DEF ReviewIsOwn, Kept, Blank, Is
<1>2. DecodesAreOwn'
  BY <1>0 DEF DecodesAreOwn, Kept, Blank
<1>3. SubmittedHasAnswer'
  BY DEF SubmittedHasAnswer, Kept, Blank, Routed, Is
<1> QED BY <1>1, <1>2, <1>3

\* Closing: a tab that is left keeps its kind.
LEMMA WithoutTabs ==
  ASSUME Shape, NEW D \in SUBSET Slots
  PROVE  /\ Without(D) \in [Slots -> Tab]
         /\ \A i \in Slots : Without(D)[i].kind \in {tabs[i].kind, "none"}
<1> DEFINE Before(j) == {d \in D : /\ tabs[d].section = tabs[j].section
                                   /\ tabs[d].at < tabs[j].at}
<1>1. \A j : Cardinality(Before(j)) \in Nat
  <2> SUFFICES ASSUME NEW j PROVE Cardinality(Before(j)) \in Nat
    OBVIOUS
  <2>1. Before(j) \in SUBSET Slots OBVIOUS
  <2>2. IsFiniteSet(Before(j))
    BY <2>1, FrameAssumption, FS_Subset DEF FrameAssumption
  <2> QED BY <2>2, FS_CardinalityType
<1> DEFINE Moved(j) == [tabs[j] EXCEPT !.at = @ - Cardinality(Before(j))]
<1>2. \A j \in Slots : Moved(j) \in Tab /\ Moved(j).kind = tabs[j].kind
  <2> SUFFICES ASSUME NEW j \in Slots
               PROVE  Moved(j) \in Tab /\ Moved(j).kind = tabs[j].kind
    OBVIOUS
  <2>1. tabs[j] \in Tab BY DEF Shape
  <2>2. Cardinality(Before(j)) \in Nat BY <1>1
  <2> HIDE DEF Before
  <2> QED BY <2>1, <2>2 DEF Tab
<1>3. NoTab \in Tab BY DEF NoTab, Tab
<1>4. Without(D) = [j \in Slots |-> IF j \in D THEN NoTab ELSE Moved(j)]
  BY DEF Without
<1> HIDE DEF Moved
<1> QED BY <1>2, <1>3, <1>4 DEF NoTab

LEMMA ClosingStep ==
  ASSUME IInv, NEW D \in SUBSET Slots, tabs' = Without(D), Unmounted,
         section' \in Sections, UNCHANGED <<calls, chosen>>
  PROVE  IInv'
<1>1. tabs' \in [Slots -> Tab]
  BY WithoutTabs DEF IInv
<1>2. \A i \in Slots : tabs'[i].kind \in {tabs[i].kind, "none"}
  BY WithoutTabs DEF IInv
<1>3. Shape'
  BY <1>1, BlankScreens DEF IInv, Shape, Unmounted, Blank
<1>4. \A i \in Slots : Kept(i) \/ Blank(screen'[i])
  BY <1>2, BlankScreens DEF Kept, Unmounted
<1> QED BY <1>3, <1>4, QuietStep

LEMMA StillStep ==
  ASSUME IInv, UNCHANGED tabs, Unmounted,
         section' \in Sections, UNCHANGED <<calls, chosen>>
  PROVE  IInv'
<1>1. Shape'
  BY BlankScreens DEF IInv, Shape, Unmounted, Blank
<1>2. \A i \in Slots : Kept(i) \/ Blank(screen'[i])
  BY BlankScreens DEF Kept, Unmounted
<1> QED BY <1>1, <1>2, QuietStep

-------------------------------------------------------------------------------
(* The frame's steps close tabs or move the focus.                         *)

LEMMA DoomedSlots == \A i : Doomed(i) \in SUBSET Slots
  BY DEF Doomed, OpenIn

LEMMA CloseKeeps ==
  ASSUME IInv, NEW i, Close(i), Unmounted, UNCHANGED <<calls, chosen>>
  PROVE  IInv'
<1>1. tabs' = Without(Doomed(i)) /\ section' \in Sections
  BY DEF Close, IInv, Shape
<1> QED BY <1>1, DoomedSlots, ClosingStep

LEMMA FrameKeeps == ASSUME IInv, FrameStep PROVE IInv'
<1>0. Unmounted /\ UNCHANGED <<calls, chosen>> /\ Frame(Busy)
  BY DEF FrameStep
<1>1. section \in Sections BY DEF IInv, Shape
<1>2. CASE \E i : Close(i)
  BY <1>0, <1>2, CloseKeeps
<1>3. CASE tabs' = tabs /\ section' \in Sections
  BY <1>0, <1>3, StillStep
<1>4. TabBarClose(Busy) => (\E i : Close(i)) \/ (tabs' = tabs /\ section' \in Sections)
  BY <1>1 DEF TabBarClose
<1>5. CloseTabMsg(Busy) => (\E i : Close(i)) \/ (tabs' = tabs /\ section' \in Sections)
  BY <1>1 DEF CloseTabMsg, CloseActive
<1>6. SidebarUp \/ TabBarEnter \/ TabBarLeft \/ TabBarRight \/ FocusSidebarMsg
        \/ FocusTabBarMsg \/ FocusParentMsg => tabs' = tabs /\ section' \in Sections
  BY <1>1 DEF SidebarUp, TabBarEnter, TabBarLeft, TabBarRight, FocusSidebarMsg,
              FocusTabBarMsg, FocusParentMsg, ToSidebar, ToTabBar, ToParent
<1>7. \A s \in Sections : SidebarEnter(s) => tabs' = tabs /\ section' \in Sections
  BY DEF SidebarEnter
<1> QED BY <1>0, <1>2, <1>3, <1>4, <1>5, <1>6, <1>7 DEF Frame

LEMMA CloseOwnKeeps == ASSUME IInv, NEW i \in Slots, CloseOwn(i) PROVE IInv'
<1>1. UNCHANGED <<calls, chosen>> /\ section \in Sections
  BY DEF CloseOwn, IInv, Shape
<1>2. CASE CloseScreen(i) /\ Unmounted
  <2>1. CASE Close(i) BY <1>1, <1>2, <2>1, CloseKeeps
  <2>2. CASE tabs' = Without({i}) /\ section' = section
    BY <1>1, <1>2, <2>2, ClosingStep
  <2> QED BY <1>2, <2>1, <2>2 DEF CloseScreen
<1>3. CASE UNCHANGED <<tabs, section, screen>>
  BY <1>1, <1>3, QuietStep DEF Kept, IInv, Shape
<1> QED BY <1>2, <1>3 DEF CloseOwn

-------------------------------------------------------------------------------
(* Opening tabs mounts a blank screen, or none.                            *)

LEMMA OpenedKeeps ==
  ASSUME IInv, NEW kind \in Kinds, NEW row \in Rows \cup {0}, Opened(kind, row),
         UNCHANGED <<calls, chosen>>
  PROVE  IInv'
<1>1. CASE Same(kind, row) # {}
  <2>1. UNCHANGED <<tabs, section, screen>>
    BY <1>1 DEF Opened, Reuse
  <2> QED BY <2>1, QuietStep DEF Kept, IInv, Shape
<1>2. CASE Same(kind, row) = {}
  <2> DEFINE i == Fresh(FreeSlots)
  <2>1. i \in Slots
    BY <1>2 DEF Opened, Fresh, FreeSlots
  <2>2. /\ tabs' = [tabs EXCEPT ![i] = [kind |-> kind, section |-> section,
                                        row |-> row, at |-> Count(section) + 1]]
        /\ section' = section
        /\ screen' = [screen EXCEPT ![i] = NewScreen(kind)]
    BY <1>2 DEF Opened, Append, Mounted
  <2>3. [kind |-> kind, section |-> section, row |-> row,
         at |-> Count(section) + 1] \in Tab
    BY CountIsNat DEF Tab, IInv, Shape
  <2>4. Blank(NewScreen(kind)) BY BlankScreens
  <2> HIDE DEF i
  <2>5. Shape'
    BY <2>1, <2>2, <2>3, <2>4 DEF IInv, Shape, Blank
  <2>6. \A j \in Slots : Kept(j) \/ Blank(screen'[j])
    BY <2>1, <2>2, <2>4 DEF IInv, Shape, Kept
  <2> QED BY <2>5, <2>6, QuietStep
<1> QED BY <1>1, <1>2

LEMMA OpenOnChainSendKeeps ==
  ASSUME IInv, OpenOnChainSend, "onchain" \in Kinds PROVE IInv'
<1>1. UNCHANGED <<calls, chosen>> BY DEF OpenOnChainSend
<1>2. CASE Opened("onchain", 0) BY <1>1, <1>2, OpenedKeeps
<1>3. CASE UNCHANGED <<tabs, section, screen>>
  BY <1>1, <1>3, QuietStep DEF Kept, IInv, Shape
<1>4. ASSUME NEW i, UNCHANGED <<tabs, section>>, Mounted(i, NewScreen("onchain"))
      PROVE  IInv'
  <2>1. Blank(NewScreen("onchain")) BY BlankScreens
  <2>2. Shape' BY <1>1, <1>4, <2>1 DEF IInv, Shape, Mounted, Blank
  <2>3. \A j \in Slots : Kept(j) \/ Blank(screen'[j])
    BY <1>4, <2>1 DEF IInv, Shape, Mounted, Kept
  <2> QED BY <1>1, <2>2, <2>3, QuietStep
<1> QED BY <1>2, <1>3, <1>4 DEF OpenOnChainSend, Reuse

-------------------------------------------------------------------------------
(* Keys in a screen.                                                       *)

\* A screen that stays out of the review, with its attempt or none.
LEMMA FormStep ==
  ASSUME IInv, UNCHANGED <<tabs, section, calls>>, chosen' \subseteq Coins,
         NEW i \in Slots, NEW new \in Screen, Mounted(i, new),
         new.step \notin {"review", "submitting"},
         \/ new.attempt = 0
         \/ new.attempt = screen[i].attempt /\ new.request = screen[i].request
  PROVE  IInv'
<1> USE DEF IInv
<1>1. /\ screen'[i] = new
      /\ \A j \in Slots \ {i} : screen'[j] = screen[j]
  BY DEF Shape, Mounted
<1>2. Shape' BY DEF Shape, Mounted
<1>3. \A c \in calls : c.attempt # 0
  BY PaymentsAssumption DEF PaymentsAssumption, Shape, Sent
<1>4. ReviewIsOwn' BY <1>1 DEF ReviewIsOwn, Is
<1>5. DecodesAreOwn'
  <2> SUFFICES ASSUME NEW c \in calls, NEW j \in Slots,
                      c.stage = "decode", c.attempt = screen'[j].attempt
               PROVE  c.details = screen'[j].request
    BY DEF DecodesAreOwn
  <2>1. CASE j = i BY <1>1, <1>3, <2>1 DEF DecodesAreOwn
  <2>2. CASE j # i BY <1>1, <2>2 DEF DecodesAreOwn
  <2> QED BY <2>1, <2>2
<1>6. SubmittedHasAnswer' BY <1>1 DEF SubmittedHasAnswer, Routed, Is
<1> QED BY <1>2, <1>4, <1>5, <1>6

LEMMA FormKeys ==
  ASSUME IInv, NEW i \in Slots,
         \/ \E invoice \in {{}} \cup {{v} : v \in Invoices} : EditInvoice(i, invoice)
         \/ GoBack(i) \/ ClearForm(i) \/ LaunchClose(i) \/ CancelClose(i)
  PROVE  IInv'
<1>0. screen[i] \in Screen /\ chosen \subseteq Coins BY DEF IInv, Shape
<1>1. ASSUME NEW invoice \in {{}} \cup {{v} : v \in Invoices}, EditInvoice(i, invoice)
      PROVE  IInv'
  <2> DEFINE new == [screen[i] EXCEPT !.input = invoice]
  <2>1. /\ new \in Screen /\ new.step = "form"
        /\ new.attempt = screen[i].attempt /\ new.request = screen[i].request
    BY <1>0, <1>1 DEF Screen, EditInvoice
  <2>2. Mounted(i, new) /\ UNCHANGED <<tabs, section, calls, chosen>>
    BY <1>1 DEF EditInvoice, InScreen
  <2> QED BY <1>0, <2>1, <2>2, FormStep
<1>2. CASE GoBack(i)
  <2> DEFINE new == BackToInput(screen[i])
  <2>1. new \in Screen /\ new.step = "form" /\ new.attempt = 0
    BY <1>0 DEF Screen, BackToInput, Steps, Details
  <2>2. Mounted(i, new) /\ UNCHANGED <<tabs, section, calls, chosen>>
    BY <1>2 DEF GoBack, InScreen
  <2> QED BY <1>0, <2>1, <2>2, FormStep
<1>3. CASE ClearForm(i)
  <2>1. Mounted(i, NewScreen("onchain")) /\ UNCHANGED <<tabs, section, calls>>
        /\ chosen' = {}
    BY <1>3 DEF ClearForm, InScreen
  <2>2. Blank(NewScreen("onchain"))
    BY DEF Blank, NoScreen, NewScreen, Screen, Steps, Details
  <2> QED BY <2>1, <2>2, FormStep DEF Blank
<1>4. CASE LaunchClose(i)
  <2> DEFINE new == [screen[i] EXCEPT !.step = "form"]
  <2>1. /\ new \in Screen /\ new.step = "form"
        /\ new.attempt = screen[i].attempt /\ new.request = screen[i].request
    BY <1>0 DEF Screen, Steps
  <2>2. Mounted(i, new) /\ UNCHANGED <<tabs, section, calls, chosen>>
    BY <1>4 DEF LaunchClose, InScreen
  <2> QED BY <1>0, <2>1, <2>2, FormStep
<1>5. CASE CancelClose(i)
  <2>1. Mounted(i, NewScreen("channel")) /\ UNCHANGED <<tabs, section, calls, chosen>>
    BY <1>5 DEF CancelClose, InScreen
  <2>2. Blank(NewScreen("channel"))
    BY DEF Blank, NoScreen, NewScreen, Screen, Steps, Details
  <2> QED BY <1>0, <2>1, <2>2, FormStep DEF Blank
<1> QED BY <1>1, <1>2, <1>3, <1>4, <1>5

\* A new attempt is one that nothing refers to.
LEMMA FreshAttempt ==
  ASSUME IInv, FreeAttempts # {}
  PROVE  /\ Fresh(FreeAttempts) \in Attempts
         /\ Fresh(FreeAttempts) # 0
         /\ \A c \in calls : c.attempt # Fresh(FreeAttempts)
         /\ \A j \in Slots : screen[j].attempt # Fresh(FreeAttempts)
<1>1. Fresh(FreeAttempts) \in FreeAttempts BY DEF Fresh
<1> QED BY <1>1, PaymentsAssumption DEF FreeAttempts, PaymentsAssumption

LEMMA SubmitInvoiceKeeps == ASSUME IInv, NEW i \in Slots, SubmitInvoice(i) PROVE IInv'
<1>0. /\ screen[i] \in Screen /\ chosen \subseteq Coins /\ tabs[i].kind = "send"
      /\ screen[i].step = "form" /\ tabs[i] \in Tab
      /\ UNCHANGED <<tabs, section, chosen>>
  BY DEF IInv, Shape, SubmitInvoice, InScreen, Is
<1>1. CASE screen[i].input = {}
  <2> DEFINE new == [screen[i] EXCEPT !.attempt = 0]
  <2>1. new \in Screen /\ new.step = "form" /\ new.attempt = 0
    BY <1>0 DEF Screen
  <2>2. Mounted(i, new) /\ UNCHANGED calls BY <1>1 DEF SubmitInvoice
  <2> QED BY <1>0, <2>1, <2>2, FormStep
<1>2. CASE screen[i].input # {}
  <2> DEFINE a == Fresh(FreeAttempts)
             new == [screen[i] EXCEPT !.attempt = a, !.request = screen[i].input]
             call == [kind |-> "send", stage |-> "decode", attempt |-> a,
                      details |-> screen[i].input]
  <2>1. /\ a \in Attempts /\ a # 0
        /\ \A c \in calls : c.attempt # a
        /\ \A j \in Slots : screen[j].attempt # a
    BY <1>2, FreshAttempt DEF SubmitInvoice
  <2>2. screen' = [screen EXCEPT ![i] = new] /\ calls' = calls \cup {call}
    BY <1>2 DEF SubmitInvoice, Mounted
  <2> HIDE DEF a
  <2>3. new \in Screen /\ call \in Sent
    BY <1>0, <2>1 DEF Screen, Sent, Details, Tab
  <2>4. new.step = "form" /\ new.attempt = a /\ new.request = call.details
    BY <1>0 DEF Screen
  <2> HIDE DEF new
  <2>5. screen'[i] = new /\ \A j \in Slots \ {i} : screen'[j] = screen[j]
    BY <2>2 DEF IInv, Shape
  <2>6. Shape' BY <1>0, <2>2, <2>3 DEF IInv, Shape
  <2>7. ReviewIsOwn' BY <1>0, <2>4, <2>5 DEF IInv, ReviewIsOwn, Is
  <2>8. DecodesAreOwn'
    <3> SUFFICES ASSUME NEW c \in calls', NEW j \in Slots,
                        c.stage = "decode", c.attempt = screen'[j].attempt
                 PROVE  c.details = screen'[j].request
      BY DEF DecodesAreOwn
    <3>1. CASE c = call /\ j = i BY <2>4, <2>5, <3>1
    <3>2. CASE c = call /\ j # i BY <2>1, <2>5, <3>2
    <3>3. CASE c \in calls /\ j = i BY <2>1, <2>4, <2>5, <3>3
    <3>4. CASE c \in calls /\ j # i BY <2>5, <3>4 DEF IInv, DecodesAreOwn
    <3> QED BY <2>2, <3>1, <3>2, <3>3, <3>4
  <2>9. SubmittedHasAnswer'
    BY <1>0, <2>2, <2>4, <2>5 DEF IInv, SubmittedHasAnswer, Routed, Is
  <2> QED BY <2>6, <2>7, <2>8, <2>9 DEF IInv
<1> QED BY <1>1, <1>2
LEMMA PreparedKeeps ==
  ASSUME IInv, NEW i \in Slots, NEW asked \in Details, tabs[i].kind # "send",
         Prepared(i, asked)
  PROVE  IInv'
<1> DEFINE a == Fresh(FreeAttempts)
           new == [screen[i] EXCEPT !.step = "review", !.attempt = a,
                                    !.request = asked, !.prepared = asked]
<1>0. screen[i] \in Screen /\ UNCHANGED <<tabs, section, calls, chosen>>
  BY DEF IInv, Shape, Prepared, InScreen
<1>1. /\ a \in Attempts /\ a # 0
      /\ \A c \in calls : c.attempt # a
  BY FreshAttempt DEF Prepared
<1>2. screen' = [screen EXCEPT ![i] = new]
  BY DEF Prepared, Mounted
<1> HIDE DEF a
<1>3. new \in Screen
  BY <1>0, <1>1 DEF Screen, Steps
<1>4. new.step = "review" /\ new.attempt = a /\ new.request = asked
      /\ new.prepared = asked
  BY <1>0 DEF Screen
<1> HIDE DEF new
<1>5. screen'[i] = new /\ \A j \in Slots \ {i} : screen'[j] = screen[j]
  BY <1>2 DEF IInv, Shape
<1>6. Shape' BY <1>0, <1>2, <1>3 DEF IInv, Shape
<1>7. ReviewIsOwn' BY <1>0, <1>1, <1>4, <1>5 DEF IInv, ReviewIsOwn, Is
<1>8. DecodesAreOwn' BY <1>0, <1>1, <1>4, <1>5 DEF IInv, DecodesAreOwn
<1>9. SubmittedHasAnswer'
  BY <1>0, <1>4, <1>5 DEF IInv, SubmittedHasAnswer, Routed, Is
<1> QED BY <1>6, <1>7, <1>8, <1>9 DEF IInv

LEMMA PrepareKeys ==
  ASSUME IInv, NEW i \in Slots,
         CreateTransaction(i) \/ SubmitOpenChannel(i) \/ PrepareClose(i)
  PROVE  IInv'
<1>1. chosen \in Details /\ {} \in Details BY DEF IInv, Shape, Details
<1> QED BY <1>1, PreparedKeeps
        DEF CreateTransaction, SubmitOpenChannel, PrepareClose, Is

LEMMA ConfirmKeeps == ASSUME IInv, NEW i \in Slots, Confirm(i) PROVE IInv'
<1>0. /\ screen[i] \in Screen /\ tabs[i] \in Tab /\ chosen \subseteq Coins
      /\ screen[i].step = "review"
      /\ UNCHANGED <<tabs, section, chosen>>
  BY DEF IInv, Shape, Confirm, InScreen
<1>1. CASE Stale(i)
  <2> DEFINE new == BackToInput(screen[i])
  <2>1. new \in Screen /\ new.step = "form" /\ new.attempt = 0
    BY <1>0 DEF Screen, BackToInput, Steps, Details
  <2>2. Mounted(i, new) /\ UNCHANGED calls BY <1>1 DEF Confirm
  <2> QED BY <1>0, <2>1, <2>2, FormStep
<1>2. CASE ~Stale(i)
  <2> DEFINE new == [screen[i] EXCEPT !.step = "submitting"]
  <2>0. PICK call : call = [kind |-> tabs[i].kind, stage |-> "submit",
                            attempt |-> screen[i].attempt,
                            details |-> screen[i].prepared]
    OBVIOUS
  <2>1. screen' = [screen EXCEPT ![i] = new] /\ calls' = calls \cup {call}
    BY <1>2, <2>0 DEF Confirm, Mounted
  <2>2. screen[i].attempt \in Attempts
    BY <1>0 DEF IInv, ReviewIsOwn, Screen
  <2>3. call \in Sent BY <1>0, <2>0, <2>2 DEF Sent, Screen, Tab
  <2>4. /\ new \in Screen /\ new.step = "submitting"
        /\ new.attempt = screen[i].attempt /\ new.request = screen[i].request
        /\ new.prepared = screen[i].prepared /\ new.input = screen[i].input
    BY <1>0 DEF Screen, Steps
  <2>5. /\ call.stage = "submit" /\ call.attempt = screen[i].attempt
        /\ call.details = screen[i].prepared /\ call.kind = tabs[i].kind
    BY <2>0
  <2> HIDE DEF new
  <2>6. screen'[i] = new /\ \A j \in Slots \ {i} : screen'[j] = screen[j]
    BY <2>1 DEF IInv, Shape
  <2>7. Shape' BY <1>0, <2>1, <2>3, <2>4 DEF IInv, Shape
  <2>8. ReviewIsOwn' BY <1>0, <2>4, <2>6 DEF IInv, ReviewIsOwn, Is
  <2>9. DecodesAreOwn'
    BY <2>1, <2>4, <2>5, <2>6 DEF IInv, DecodesAreOwn
  <2>10. SubmittedHasAnswer'
    <3> SUFFICES ASSUME NEW j \in Slots, screen'[j].step = "submitting"
                 PROVE  \E c \in calls' : /\ c.stage = "submit"
                                          /\ c.attempt = screen'[j].attempt
                                          /\ c.details = screen'[j].prepared
                                          /\ j \in Routed(c.kind)'
      BY DEF SubmittedHasAnswer
    <3>1. CASE j = i
      <4>1. i \in Routed(call.kind)' BY <1>0, <2>5 DEF Routed, Is
      <4> QED BY <2>1, <2>4, <2>5, <2>6, <3>1, <4>1
    <3>2. CASE j # i
      BY <1>0, <2>1, <2>6, <3>2 DEF IInv, SubmittedHasAnswer, Routed, Is
    <3> QED BY <3>1, <3>2
  <2> QED BY <2>7, <2>8, <2>9, <2>10 DEF IInv
<1> QED BY <1>1, <1>2

-------------------------------------------------------------------------------
(* Answers.                                                                *)

LEMMA DecodedKeeps ==
  ASSUME IInv, NEW c \in calls, NEW ok \in BOOLEAN, Decoded(c, ok),
         calls' = calls \ {c}, UNCHANGED <<tabs, section>>
  PROVE  IInv'
<1> DEFINE Accepts(i) == /\ ok /\ i \in Routed(c.kind)
                          /\ screen[i].step = "form"
                          /\ screen[i].attempt = c.attempt
                          /\ screen[i].input = screen[i].request
           new(i) == [screen[i] EXCEPT !.step = "review", !.prepared = c.details]
<1>0. c \in Sent /\ c.stage = "decode" /\ c.attempt # 0 /\ UNCHANGED chosen
  BY PaymentsAssumption DEF IInv, Shape, Decoded, PaymentsAssumption, Sent
<1>1. screen' = [i \in Slots |-> IF Accepts(i) THEN new(i) ELSE screen[i]]
  BY DEF Decoded, Routed
<1>2. ASSUME NEW i \in Slots
      PROVE  /\ new(i) \in Screen /\ new(i).step = "review"
             /\ new(i).attempt = screen[i].attempt
             /\ new(i).request = screen[i].request
             /\ new(i).prepared = c.details /\ new(i).input = screen[i].input
  <2>1. screen[i] \in Screen BY DEF IInv, Shape
  <2> QED BY <1>0, <2>1 DEF Screen, Steps, Sent
<1> HIDE DEF new
<1>3. Shape' BY <1>0, <1>1, <1>2 DEF IInv, Shape
<1>4. \A i \in Slots : /\ screen'[i].attempt = screen[i].attempt
                       /\ screen'[i].request = screen[i].request
                       /\ screen'[i].step = "submitting" => screen'[i] = screen[i]
  BY <1>1, <1>2
<1>5. ReviewIsOwn'
  <2> SUFFICES ASSUME NEW i \in Slots, screen'[i].step \in {"review", "submitting"}
               PROVE  /\ screen'[i].attempt # 0
                      /\ screen'[i].prepared = screen'[i].request
                      /\ tabs[i].kind = "send" => screen'[i].prepared = screen'[i].input
    BY DEF ReviewIsOwn, Is
  <2>1. CASE Accepts(i)
    <3>1. c.details = screen[i].request BY <1>0, <2>1 DEF IInv, DecodesAreOwn
    <3> QED BY <1>0, <1>1, <1>2, <2>1, <3>1
  <2>2. CASE ~Accepts(i) BY <1>1, <2>2 DEF IInv, ReviewIsOwn, Is
  <2> QED BY <2>1, <2>2
<1>6. DecodesAreOwn' BY <1>4 DEF IInv, DecodesAreOwn
<1>7. SubmittedHasAnswer'
  BY <1>0, <1>4 DEF IInv, SubmittedHasAnswer, Routed, Is
<1> QED BY <1>3, <1>5, <1>6, <1>7 DEF IInv

\* A screen whose call is answered is among the receivers: none goes on waiting.
LEMMA AnsweredKeeps ==
  ASSUME IInv, NEW c \in calls, NEW ok \in BOOLEAN, Answered(c, ok),
         calls' = calls \ {c}, UNCHANGED <<tabs, section>>
  PROVE  IInv'
<1> DEFINE new(i) == [screen[i] EXCEPT !.step = "result"]
<1>1. screen' = [i \in Slots |-> IF i \in Receivers(c) THEN new(i) ELSE screen[i]]
  BY DEF Answered
<1>2. ASSUME NEW i \in Slots
      PROVE  /\ new(i) \in Screen /\ new(i).step = "result"
             /\ new(i).attempt = screen[i].attempt
             /\ new(i).request = screen[i].request
  <2>1. screen[i] \in Screen BY DEF IInv, Shape
  <2> QED BY <2>1 DEF Screen, Steps
<1> HIDE DEF new
<1>3. Shape' BY <1>1, <1>2 DEF IInv, Shape, Answered
<1>4. ReviewIsOwn' BY <1>1, <1>2 DEF IInv, ReviewIsOwn, Is
<1>5. DecodesAreOwn' BY <1>1, <1>2 DEF IInv, DecodesAreOwn
<1>6. SubmittedHasAnswer'
  <2> SUFFICES ASSUME NEW i \in Slots, screen'[i].step = "submitting"
               PROVE  \E d \in calls' : /\ d.stage = "submit"
                                        /\ d.attempt = screen'[i].attempt
                                        /\ d.details = screen'[i].prepared
                                        /\ i \in Routed(d.kind)'
    BY DEF SubmittedHasAnswer
  <2>1. screen'[i] = screen[i] /\ i \notin Receivers(c) BY <1>1, <1>2
  <2>2. PICK d \in calls : /\ d.stage = "submit"
                           /\ d.attempt = screen[i].attempt
                           /\ d.details = screen[i].prepared
                           /\ i \in Routed(d.kind)
    BY <2>1 DEF IInv, SubmittedHasAnswer
  <2>3. d # c BY <2>1, <2>2 DEF Receivers
  <2> QED BY <2>1, <2>2, <2>3 DEF Routed, Is
<1> QED BY <1>3, <1>4, <1>5, <1>6 DEF IInv

-------------------------------------------------------------------------------
(* The invariant, and what it says.                                        *)

LEMMA Start == Init => IInv
<1> SUFFICES ASSUME Init PROVE IInv
  OBVIOUS
<1>1. NoTab \in Tab BY DEF NoTab, Tab
<1>2. NoScreen \in Screen /\ NoScreen.step = "none"
  BY BlankScreens DEF Blank, NoScreen
<1>3. Shape
  BY <1>1, <1>2, FrameAssumption DEF Init, FrameInit, Shape, FrameAssumption
<1> QED BY <1>2, <1>3
        DEF IInv, Init, ReviewIsOwn, DecodesAreOwn, SubmittedHasAnswer

\* What neither asks nor answers: it leaves tabs, screens and calls alone.
LEMMA OutsideStep ==
  ASSUME IInv, UNCHANGED <<tabs, section, screen, calls>>, chosen' \subseteq Coins
  PROVE  IInv'
<1>1. Shape' BY DEF IInv, Shape
<1> QED BY <1>1, QuietStep DEF Kept

LEMMA StepKeeps == ASSUME IInv, [Next]_vars PROVE IInv'
<1>0. chosen \subseteq Coins BY DEF IInv, Shape
<1>1. CASE FrameStep BY <1>1, FrameKeeps
<1>2. ASSUME NEW kind \in Kinds,
             NEW row \in IF kind \in {"payment", "channel"} THEN Rows ELSE {0},
             OpenTab(kind, row)
      PROVE  IInv'
  BY <1>2, OpenedKeeps DEF OpenTab
<1>3. CASE "onchain" \in Kinds /\ OpenOnChainSend BY <1>3, OpenOnChainSendKeeps
<1>4. ASSUME NEW c \in Coins, ToggleCoin(c) PROVE IInv'
  BY <1>0, <1>4, OutsideStep DEF ToggleCoin
<1>5. ASSUME NEW i \in Slots, "webui" \in Kinds, OpenWebUI(i) PROVE IInv'
  BY <1>5, OpenedKeeps DEF OpenWebUI
<1>6. ASSUME NEW i \in Slots, Done(i) PROVE IInv'
  BY <1>0, <1>6, OutsideStep DEF Done, InScreen
<1>7. ASSUME NEW m \in Messages, Key(m) PROVE IInv'
  BY <1>0, <1>7, OutsideStep DEF Key, Emit
<1>8. ASSUME NEW a \in Attempts, Answer(a) PROVE IInv'
  BY <1>8, DecodedKeeps, AnsweredKeeps DEF Answer
<1>9. CASE UNCHANGED vars
  BY <1>0, <1>9, OutsideStep DEF vars
<1> QED
  BY <1>1, <1>2, <1>3, <1>4, <1>5, <1>6, <1>7, <1>8, <1>9, FormKeys, PrepareKeys,
     SubmitInvoiceKeeps, ConfirmKeeps, CloseOwnKeeps DEF Next

\* The inductive invariant of the money workflows: their state has its types,
\* reviews and calls belong to the requests they were made for, and every
\* submitted workflow has its call.
THEOREM Invariant == Spec => []IInv
BY Start, StepKeeps, PTL DEF Spec

\* What a screen shows for review, and what it submits, was prepared for the
\* request the form holds: no late decode (invoiceDecodedMsg) reaches another
\* review, whatever was edited, closed or reopened in between.
THEOREM ReviewsAreOwn == Spec => []ReviewIsOwn
<1>1. IInv => ReviewIsOwn BY DEF IInv
<1> QED BY <1>1, Invariant, PTL

\* A screen that shows a call in progress has that call out, for what was
\* reviewed, and its answer is routed to this screen by Model.Update.
THEOREM CallsAreAnswered == Spec => []SubmittedHasAnswer
<1>1. IInv => SubmittedHasAnswer BY DEF IInv
<1> QED BY <1>1, Invariant, PTL

-------------------------------------------------------------------------------
(* The tabs of a section have the indexes from 1 to their number.  What is *)
(* on this page holds of TabBar, whatever screens are in its tabs.         *)

Placed ==
  /\ tabs \in [Slots -> Tab]
  /\ \A i \in Slots : IF tabs[i].kind = "none" THEN tabs[i].section = "none"
                                               ELSE tabs[i].section \in Sections

Indexed(s) ==
  /\ \A i \in OpenIn(s) : tabs[i].at \in 1..Count(s)
  /\ \A i, j \in OpenIn(s) : i # j =>
        /\ tabs[i].at # tabs[j].at
        /\ <<tabs[i].kind, tabs[i].row>> # <<tabs[j].kind, tabs[j].row>>

Tabs == Placed /\ (\A s \in Sections : Indexed(s)) /\ ChildrenHaveParents

Positions ==
  /\ section \in Sections /\ active \in 0..Count(section)
  /\ memory \in [Sections -> Nat] /\ \A s \in Sections : memory[s] \in 0..Count(s)

FrameInv == Tabs /\ Positions

LEMMA OpenIsFinite ==
  \A s : /\ IsFiniteSet(OpenIn(s)) /\ Count(s) \in Nat
         /\ \A S \in SUBSET OpenIn(s) : /\ IsFiniteSet(S) /\ Cardinality(S) \in Nat
                                        /\ Cardinality(S) <= Count(s)
<1> SUFFICES ASSUME NEW s, NEW S \in SUBSET OpenIn(s)
             PROVE  /\ IsFiniteSet(OpenIn(s)) /\ Count(s) \in Nat
                    /\ IsFiniteSet(S) /\ Cardinality(S) \in Nat
                    /\ Cardinality(S) <= Count(s)
  OBVIOUS
<1>1. IsFiniteSet(OpenIn(s))
  BY FrameAssumption, FS_Subset DEF FrameAssumption, OpenIn
<1>2. IsFiniteSet(S) /\ Cardinality(S) <= Cardinality(OpenIn(s))
  BY <1>1, FS_Subset
<1> QED BY <1>1, <1>2, FS_CardinalityType DEF Count

LEMMA IntervalSize ==
  ASSUME NEW n \in Nat
  PROVE  IsFiniteSet(1..n) /\ Cardinality(1..n) = n
<1>1. IsFiniteSet(1..n) /\ Cardinality(1..n) = IF 1 > n THEN 0 ELSE n - 1 + 1
  BY FS_Interval
<1> QED BY <1>1

(* Every index is that of a tab: as many tabs as indexes, none of them     *)
(* twice.                                                                  *)
LEMMA EveryIndexIsTaken ==
  ASSUME NEW s, Indexed(s), NEW n \in 1..Count(s)
  PROVE  \E i \in OpenIn(s) : tabs[i].at = n
<1> DEFINE f == [i \in OpenIn(s) |-> tabs[i].at]
<1>1. f \in Injection(OpenIn(s), 1..Count(s))
  BY DEF Indexed, Injection, IsInjective
<1>2. IsFiniteSet(1..Count(s)) /\ Cardinality(1..Count(s)) = Count(s)
  BY OpenIsFinite, IntervalSize
<1>3. f \in Surjection(OpenIn(s), 1..Count(s))
  BY <1>1, <1>2, FS_Injection DEF Count
<1> QED BY <1>3 DEF Surjection

(* An index counts the tabs to its left.                                   *)
LeftOf(s, i) == {j \in OpenIn(s) : tabs[j].at < tabs[i].at}

LEMMA IndexCounts ==
  ASSUME NEW s, Indexed(s), NEW i \in OpenIn(s)
  PROVE  Cardinality(LeftOf(s, i)) = tabs[i].at - 1
<1> DEFINE L == LeftOf(s, i)
           n == tabs[i].at - 1
           f == [j \in L |-> tabs[j].at]
<1>0. /\ Count(s) \in Nat /\ tabs[i].at \in 1..Count(s) /\ n \in Nat
      /\ \A j \in L : j \in OpenIn(s) /\ tabs[j].at \in 1..Count(s) /\ tabs[j].at < tabs[i].at
  BY OpenIsFinite DEF Indexed, LeftOf
<1>1. f \in Injection(L, 1..n)
  <2>1. \A j \in L : tabs[j].at \in 1..n BY <1>0
  <2>2. \A j, k \in L : tabs[j].at = tabs[k].at => j = k BY <1>0 DEF Indexed
  <2> HIDE DEF L, n
  <2> QED BY <2>1, <2>2 DEF Injection, IsInjective
<1>2. IsFiniteSet(1..n) /\ Cardinality(1..n) = n
  BY <1>0, IntervalSize
<1>3. \A m \in 1..n : \E j \in L : f[j] = m
  <2> SUFFICES ASSUME NEW m \in 1..n PROVE \E j \in L : tabs[j].at = m
    OBVIOUS
  <2>1. m \in 1..Count(s) /\ m < tabs[i].at BY <1>0
  <2>2. PICK j \in OpenIn(s) : tabs[j].at = m BY <2>1, EveryIndexIsTaken
  <2> QED BY <2>1, <2>2 DEF LeftOf
<1>4. f \in Surjection(L, 1..n)
  BY <1>1, <1>3 DEF Surjection, Injection
<1> HIDE DEF f, L, n
<1>5. Cardinality(L) = n BY <1>1, <1>2, <1>4, FS_Injection
<1> QED BY <1>5 DEF L, n

(* The leftmost of some tabs is one of them.                               *)
LEMMA FirstIsOne ==
  ASSUME NEW s, Indexed(s), NEW S \in SUBSET OpenIn(s), S # {}
  PROVE  First(S) \in S
<1> DEFINE Ats == {tabs[i].at : i \in S}
<1>1. Ats \subseteq Nat /\ Ats # {}
  BY OpenIsFinite DEF Indexed
<1>2. \E n \in Ats : \A m \in Ats : ~(<<m, n>> \in OpToRel(<, Nat))
  <2> HIDE DEF Ats
  <2> QED BY <1>1, NatLessThanWellFounded, WFMin
<1>3. \A m, n \in Nat : m < n => <<m, n>> \in OpToRel(<, Nat)
  BY DEF OpToRel
<1>4. PICK n \in Ats : \A m \in Ats : n <= m
  <2>1. PICK n \in Ats : \A m \in Ats : ~(<<m, n>> \in OpToRel(<, Nat)) BY <1>2
  <2> HIDE DEF Ats
  <2>2. ASSUME NEW m \in Ats PROVE n <= m
    <3>1. m \in Nat /\ n \in Nat BY <1>1
    <3>2. ~(<<m, n>> \in OpToRel(<, Nat)) BY <2>1
    <3>3. ~(m < n) BY <1>3, <3>1, <3>2
    <3> QED BY <3>1, <3>3
  <2> QED BY <2>2
<1>5. \E i \in S : \A j \in S : tabs[i].at <= tabs[j].at
  BY <1>4
<1> QED BY <1>5 DEF First

(* Tabs of one section are removed: the others stay, further left.         *)
Removed(s, D) == s \in Sections /\ D \in SUBSET OpenIn(s) /\ tabs' = Without(D)

LEMMA RemovedTabs ==
  ASSUME Placed, NEW s, NEW D, Removed(s, D)
  PROVE  /\ Placed'
         /\ \A j \in D : tabs'[j] = NoTab
         /\ \A j \in Slots \ D :
              /\ tabs'[j].kind = tabs[j].kind /\ tabs'[j].row = tabs[j].row
              /\ tabs'[j].section = tabs[j].section
              /\ j \notin OpenIn(s) => tabs'[j] = tabs[j]
         /\ \A j \in OpenIn(s) \ D :
              tabs'[j].at = tabs[j].at - Cardinality(LeftOf(s, j) \cap D)
         /\ OpenIn(s)' = OpenIn(s) \ D
         /\ \A t \in Sections \ {s} : OpenIn(t)' = OpenIn(t)
<1> DEFINE Before(j) == {d \in D : /\ tabs[d].section = tabs[j].section
                                   /\ tabs[d].at < tabs[j].at}
           Moved(j) == [tabs[j] EXCEPT !.at = @ - Cardinality(Before(j))]
<1>0. /\ s \in Sections /\ "none" \notin Sections /\ "none" \notin Kinds
      /\ D \subseteq Slots /\ \A d \in D : tabs[d].section = s /\ tabs[d].kind # "none"
  BY FrameAssumption DEF FrameAssumption, OpenIn, Removed
<1>1. tabs' = [j \in Slots |-> IF j \in D THEN NoTab ELSE Moved(j)]
  BY DEF Without, Removed
<1>2. ASSUME NEW j \in Slots
      PROVE  /\ Before(j) \subseteq OpenIn(s) /\ Cardinality(Before(j)) \in Nat
             /\ j \in OpenIn(s) => Before(j) = LeftOf(s, j) \cap D
             /\ j \notin OpenIn(s) => Before(j) = {}
  <2>1. Before(j) \in SUBSET OpenIn(s) BY DEF Removed
  <2>2. Cardinality(Before(j)) \in Nat BY <2>1, OpenIsFinite
  <2>3. j \in OpenIn(s) => Before(j) = LeftOf(s, j) \cap D
    BY <1>0 DEF LeftOf, OpenIn
  <2>4. j \notin OpenIn(s) => tabs[j].section # s
    BY <1>0 DEF OpenIn, Placed
  <2> QED BY <1>0, <2>1, <2>2, <2>3, <2>4
<1>3. ASSUME NEW j \in Slots
      PROVE  /\ Moved(j) \in Tab /\ Moved(j).kind = tabs[j].kind
             /\ Moved(j).row = tabs[j].row /\ Moved(j).section = tabs[j].section
             /\ Moved(j).at = tabs[j].at - Cardinality(Before(j))
  <2>1. tabs[j] \in Tab /\ Cardinality(Before(j)) \in Nat BY <1>2 DEF Placed
  <2> HIDE DEF Before
  <2> QED BY <2>1 DEF Tab
<1>4. ASSUME NEW j \in Slots, j \notin OpenIn(s) PROVE Moved(j) = tabs[j]
  <2>1. Before(j) = {} BY <1>2, <1>4
  <2>2. Cardinality(Before(j)) = 0 BY <2>1, FS_EmptySet
  <2>3. tabs[j] \in Tab BY DEF Placed
  <2> HIDE DEF Before
  <2>4. tabs[j].at - Cardinality(Before(j)) = tabs[j].at BY <2>2, <2>3 DEF Tab
  <2> QED BY <2>3, <2>4 DEF Tab
<1>5. NoTab \in Tab /\ NoTab.kind = "none" /\ NoTab.section = "none"
  BY DEF NoTab, Tab
<1> HIDE DEF Moved
<1>6. \A j \in D : tabs'[j] = NoTab BY <1>0, <1>1
<1>7. \A j \in Slots \ D : tabs'[j] = Moved(j) BY <1>1
<1>8. Placed' BY <1>0, <1>1, <1>3, <1>5 DEF Placed
<1>9. \A t \in Sections : OpenIn(t)' = OpenIn(t) \ D
  <2>1. /\ \A j \in D : tabs'[j].kind = "none"
        /\ \A j \in Slots \ D : /\ tabs'[j].kind = tabs[j].kind
                              /\ tabs'[j].section = tabs[j].section
    BY <1>3, <1>5, <1>6, <1>7
  <2>2. ASSUME NEW t \in Sections
        PROVE  {i \in Slots : tabs'[i].kind # "none" /\ tabs'[i].section = t}
                 = {i \in Slots : tabs[i].kind # "none" /\ tabs[i].section = t} \ D
    BY <1>0, <2>1
  <2> QED BY <2>2 DEF OpenIn
<1>10. \A t \in Sections \ {s} : OpenIn(t) \ D = OpenIn(t)
  BY <1>0 DEF OpenIn
<1>11. \A j \in OpenIn(s) \ D :
         tabs'[j].at = tabs[j].at - Cardinality(LeftOf(s, j) \cap D)
  <2> SUFFICES ASSUME NEW j \in OpenIn(s) \ D
               PROVE  tabs'[j].at = tabs[j].at - Cardinality(LeftOf(s, j) \cap D)
    OBVIOUS
  <2>1. j \in Slots BY DEF OpenIn
  <2>2. Before(j) = LeftOf(s, j) \cap D BY <1>2, <2>1
  <2>3. tabs'[j].at = tabs[j].at - Cardinality(Before(j)) BY <1>3, <1>7, <2>1
  <2> QED BY <2>2, <2>3
<1> QED BY <1>0, <1>3, <1>4, <1>6, <1>7, <1>8, <1>9, <1>10, <1>11

(* They are counted anew: an index is one more than the tabs that are left *)
(* to its left.                                                            *)
LEMMA RemovedIndexes ==
  ASSUME Placed, NEW s, NEW D, Removed(s, D), Indexed(s)
  PROVE  Indexed(s)'
<1> DEFINE Left(j) == LeftOf(s, j) \ D
<1>1. OpenIn(s)' = OpenIn(s) \ D BY RemovedTabs
<1>2. ASSUME NEW j \in OpenIn(s) \ D
      PROVE  tabs'[j].at = Cardinality(Left(j)) + 1
  <2>1. Cardinality(LeftOf(s, j)) = tabs[j].at - 1 BY IndexCounts
  <2>2. tabs'[j].at = tabs[j].at - Cardinality(LeftOf(s, j) \cap D) BY RemovedTabs
  <2>3. LeftOf(s, j) \in SUBSET OpenIn(s) BY DEF LeftOf
  <2>4. IsFiniteSet(LeftOf(s, j)) /\ Cardinality(LeftOf(s, j) \cap D) \in Nat
        /\ Cardinality(LeftOf(s, j)) \in Nat
    BY <2>3, OpenIsFinite
  <2>5. Cardinality(Left(j)) = Cardinality(LeftOf(s, j)) - Cardinality(LeftOf(s, j) \cap D)
    BY <2>4, FS_Difference
  <2>6. tabs[j].at \in Int BY DEF Placed, Tab, OpenIn
  <2> HIDE DEF Left
  <2> QED BY <2>1, <2>2, <2>4, <2>5, <2>6
<1>3. ASSUME NEW j \in OpenIn(s) \ D
      PROVE  /\ IsFiniteSet(Left(j)) /\ Cardinality(Left(j)) \in Nat
             /\ Cardinality(Left(j)) < Cardinality(OpenIn(s) \ D)
  <2>0. tabs[j].at \in Int BY DEF Placed, Tab, OpenIn
  <2>1. Left(j) \in SUBSET ((OpenIn(s) \ D) \ {j}) BY <2>0 DEF LeftOf
  <2>2. IsFiniteSet(OpenIn(s) \ D) /\ Cardinality(OpenIn(s) \ D) \in Nat
    BY OpenIsFinite
  <2>3. /\ IsFiniteSet((OpenIn(s) \ D) \ {j})
        /\ Cardinality((OpenIn(s) \ D) \ {j}) = Cardinality(OpenIn(s) \ D) - 1
    BY <2>2, FS_RemoveElement
  <2> HIDE DEF Left
  <2>4. IsFiniteSet(Left(j)) /\ Cardinality(Left(j)) <= Cardinality((OpenIn(s) \ D) \ {j})
    BY <2>1, <2>3, FS_Subset
  <2>5. Cardinality(Left(j)) \in Nat BY <2>4, FS_CardinalityType
  <2> QED BY <2>2, <2>3, <2>4, <2>5
<1>4. ASSUME NEW j \in OpenIn(s) \ D, NEW k \in OpenIn(s) \ D, tabs[j].at < tabs[k].at
      PROVE  tabs'[j].at < tabs'[k].at
  <2>0. tabs[j].at \in Int /\ tabs[k].at \in Int
        /\ \A l \in OpenIn(s) : tabs[l].at \in Int
    BY DEF Placed, Tab, OpenIn
  <2>1. Left(j) \cup {j} \in SUBSET Left(k) BY <1>4, <2>0 DEF LeftOf
  <2>2. j \notin Left(j) BY <2>0 DEF LeftOf
  <2>3. IsFiniteSet(Left(j)) /\ IsFiniteSet(Left(k)) /\ Cardinality(Left(j)) \in Nat
        /\ Cardinality(Left(k)) \in Nat
    BY <1>3
  <2> HIDE DEF Left
  <2>4. Cardinality(Left(j) \cup {j}) = Cardinality(Left(j)) + 1
    BY <2>2, <2>3, FS_AddElement
  <2>5. Cardinality(Left(j) \cup {j}) <= Cardinality(Left(k))
    BY <2>1, <2>3, FS_Subset
  <2>6. tabs'[j].at = Cardinality(Left(j)) + 1 /\ tabs'[k].at = Cardinality(Left(k)) + 1
    BY <1>2
  <2> QED BY <2>3, <2>4, <2>5, <2>6
<1>5. Count(s)' = Cardinality(OpenIn(s) \ D) /\ Count(s)' \in Nat
  BY <1>1, OpenIsFinite DEF Count
<1> HIDE DEF Left
<1>6. \A j \in OpenIn(s) \ D : tabs'[j].at \in 1..Count(s)'
  BY <1>2, <1>3, <1>5
<1>7. \A j, k \in OpenIn(s) \ D : j # k => tabs'[j].at # tabs'[k].at
  <2> SUFFICES ASSUME NEW j \in OpenIn(s) \ D, NEW k \in OpenIn(s) \ D, j # k
               PROVE  tabs'[j].at # tabs'[k].at
    OBVIOUS
  <2>1. tabs[j].at \in Int /\ tabs[k].at \in Int /\ tabs[j].at # tabs[k].at
    BY DEF Indexed, Placed, Tab, OpenIn
  <2>2. tabs[j].at < tabs[k].at \/ tabs[k].at < tabs[j].at BY <2>1
  <2>3. tabs'[j].at \in Int /\ tabs'[k].at \in Int BY <1>5, <1>6
  <2> QED BY <1>4, <2>2, <2>3
<1>8. \A j, k \in OpenIn(s) \ D : j # k =>
        <<tabs'[j].kind, tabs'[j].row>> # <<tabs'[k].kind, tabs'[k].row>>
  BY RemovedTabs DEF Indexed, OpenIn
<1> QED BY <1>1, <1>6, <1>7, <1>8 DEF Indexed

-------------------------------------------------------------------------------
(* The steps of the frame keep its tabs and its positions, and leave the   *)
(* tabs of the other sections, and what they remember, alone.              *)

OthersKept ==
  \A s \in Sections \ {section} :
    \/ memory'[s] = 0
    \/ memory'[s] = memory[s] /\ \A i \in OpenIn(s) : tabs'[i] = tabs[i]

LEMMA ParentFacts ==
  /\ ParentOf("none") = "main"
  /\ \A kind : ParentOf(kind) # "main" => ParentOf(ParentOf(kind)) = "main"
  /\ \A kind, child : kind \in Guarded \cup {"none"} =>
       ParentOf(kind) = "main" /\ ParentOf(child) # kind
  BY DEF ParentOf, Guarded

LEMMA MovingStep ==
  ASSUME FrameInv, UNCHANGED tabs, section' \in Sections,
         active' \in 0..Count(section'), NEW n \in 0..Count(section),
         memory' = memory \/ memory' = [memory EXCEPT ![section] = n]
  PROVE  FrameInv' /\ OthersKept
<1>1. \A s : OpenIn(s)' = OpenIn(s) /\ Count(s)' = Count(s) /\ (Indexed(s)' <=> Indexed(s))
  BY DEF OpenIn, Count, Indexed
<1>2. Tabs' BY <1>1 DEF FrameInv, Tabs, Placed, ChildrenHaveParents, OpenIn
<1>3. n \in Nat BY OpenIsFinite
<1>4. /\ memory' \in [Sections -> Nat]
      /\ \A s \in Sections : memory'[s] = memory[s] \/ (s = section /\ memory'[s] = n)
  BY <1>3 DEF FrameInv, Positions
<1>5. \A s \in Sections : memory'[s] \in 0..Count(s)
  BY <1>4 DEF FrameInv, Positions
<1>6. Count(section)' = Count(section') BY DEF Count, OpenIn
<1>7. Positions' BY <1>1, <1>4, <1>5, <1>6 DEF Positions
<1>8. OthersKept BY <1>4 DEF OthersKept
<1> QED BY <1>2, <1>7, <1>8 DEF FrameInv

LEMMA PositionFacts ==
  ASSUME FrameInv
  PROVE  /\ Count(section) \in Nat /\ active \in Nat /\ active <= Count(section)
         /\ section \in Sections /\ Indexed(section)
         /\ \A i \in OpenIn(section) : tabs[i].at \in 1..Count(section) /\ tabs[i].at \in 0..Count(section)
         /\ 0 \in 0..Count(section)
         /\ memory \in [Sections -> Nat]
         /\ \A s \in Sections : 0 \in 0..Count(s)
<1>1. \A s : Count(s) \in Nat BY OpenIsFinite
<1> QED BY <1>1 DEF FrameInv, Tabs, Positions, Indexed

LEMMA FrameMoves ==
  ASSUME FrameInv,
         \/ SidebarUp \/ (\E s \in Sections : SidebarEnter(s)) \/ TabBarEnter
         \/ TabBarLeft \/ TabBarRight \/ ToSidebar \/ ToTabBar \/ ToParent
  PROVE  FrameInv' /\ OthersKept /\ tabs' = tabs
<1>0. /\ Count(section) \in Nat /\ active \in Nat /\ active <= Count(section)
      /\ section \in Sections /\ 0 \in 0..Count(section) /\ active \in 0..Count(section)
      /\ Indexed(section) /\ \A s \in Sections : 0 \in 0..Count(s)
  BY PositionFacts
<1>1. CASE SidebarUp
  <2>1. active' \in 0..Count(section)
    BY <1>0, <1>1 DEF SidebarUp, Restored
  <2> QED BY <1>0, <1>1, <2>1, MovingStep DEF SidebarUp
<1>2. ASSUME NEW s \in Sections, SidebarEnter(s) PROVE FrameInv' /\ OthersKept /\ tabs' = tabs
  <2>1. 0 \in 0..Count(s) BY <1>0
  <2> QED BY <1>0, <1>2, <2>1, MovingStep DEF SidebarEnter, Remembered
<1>3. CASE TabBarEnter \/ ToSidebar
  BY <1>0, <1>3, MovingStep DEF TabBarEnter, ToSidebar
<1>4. CASE TabBarLeft
  <2>1. active' \in 0..Count(section) BY <1>0, <1>4 DEF TabBarLeft
  <2> QED BY <1>0, <1>4, <2>1, MovingStep DEF TabBarLeft, Remembered
<1>5. CASE TabBarRight
  <2>1. active' \in 0..Count(section) BY <1>0, <1>5 DEF TabBarRight
  <2> QED BY <1>0, <1>5, <2>1, MovingStep DEF TabBarRight
<1>6. CASE ToTabBar
  <2>1. active' \in 0..Count(section) BY <1>0, <1>6 DEF ToTabBar, Restored
  <2> QED BY <1>0, <1>6, <2>1, MovingStep DEF ToTabBar
<1>7. CASE ToParent
  <2>1. Parents \in SUBSET OpenIn(section) BY DEF Parents
  <2>2. active' \in 0..Count(section)
    BY <1>0, <1>7, <2>1, FirstIsOne, PositionFacts DEF ToParent
  <2> QED BY <1>0, <1>7, <2>2, MovingStep DEF ToParent
<1> QED BY <1>1, <1>2, <1>3, <1>4, <1>5, <1>6, <1>7

LEMMA ReuseKeeps ==
  ASSUME FrameInv, NEW i \in OpenIn(section), NEW focused, Reuse(i, focused)
  PROVE  FrameInv' /\ OthersKept /\ tabs' = tabs
<1>1. section' = section /\ section \in Sections /\ tabs' = tabs
      /\ tabs[i].at \in 0..Count(section)
  BY PositionFacts DEF Reuse
<1> QED BY <1>1, MovingStep DEF Reuse

LEMMA ChildrenKept ==
  ASSUME Placed, ChildrenHaveParents, NEW s, NEW D, Removed(s, D),
         \A j \in D, k \in OpenIn(s) : ParentOf(tabs[k].kind) = tabs[j].kind => k \in D
  PROVE  ChildrenHaveParents'
<1> SUFFICES ASSUME NEW i \in Slots, ParentOf(tabs'[i].kind) # "main"
             PROVE  \E j \in OpenIn(tabs[i].section)' :
                      /\ tabs'[j].kind = ParentOf(tabs'[i].kind)
                      /\ tabs'[i].section = tabs[i].section
  BY DEF ChildrenHaveParents, OpenIn
<1>1. i \notin D
  BY RemovedTabs, ParentFacts DEF NoTab
<1>2. tabs'[i].kind = tabs[i].kind /\ tabs'[i].section = tabs[i].section
  BY <1>1, RemovedTabs
<1>3. PICK j \in OpenIn(tabs[i].section) : tabs[j].kind = ParentOf(tabs[i].kind)
  BY <1>2 DEF ChildrenHaveParents
<1>4. i \in OpenIn(tabs[i].section)
  BY <1>2, ParentFacts DEF OpenIn
<1>5. j \notin D
  <2> SUFFICES ASSUME j \in D PROVE FALSE
    OBVIOUS
  <2>1. tabs[j].section = s BY DEF Removed, OpenIn
  <2>2. tabs[j].section = tabs[i].section BY <1>3 DEF OpenIn
  <2> QED BY <1>1, <1>3, <1>4, <2>1, <2>2
<1>6. j \in Slots BY DEF OpenIn
<1>7. tabs'[j].kind = tabs[j].kind /\ tabs'[j].section = tabs[j].section
  BY <1>5, <1>6, RemovedTabs
<1>8. j \in OpenIn(tabs[i].section)'
  BY <1>2, <1>3, <1>6, <1>7 DEF OpenIn
<1> QED BY <1>2, <1>3, <1>7, <1>8

LEMMA CloseFrame ==
  ASSUME FrameInv, NEW i \in OpenIn(section), Close(i)
  PROVE  FrameInv' /\ OthersKept /\ Removed(section, Doomed(i))
<1> DEFINE D == Doomed(i)
           left == Cardinality(OpenIn(section) \ D)
<1>0. tabs[i].section = section /\ section \in Sections /\ section' = section
      /\ tabs[i].at \in 1..Count(section) /\ i \in Slots
  BY PositionFacts DEF OpenIn, Close
<1>1. Removed(section, D)
  BY <1>0 DEF Removed, Close, Doomed
<1>2. ChildrenHaveParents'
  <2>1. ASSUME NEW j \in D, NEW k \in OpenIn(section), ParentOf(tabs[k].kind) = tabs[j].kind
        PROVE  k \in D
    <3>1. CASE tabs[j].kind = tabs[i].kind BY <1>0, <2>1, <3>1 DEF Doomed
    <3>2. CASE ParentOf(tabs[j].kind) = tabs[i].kind
      <4>1. tabs[i].kind # "main" /\ tabs[j].kind # "main"
        BY <1>0, FrameAssumption DEF FrameAssumption, FrameInv, Tabs, Placed, Tab, OpenIn, Doomed
      <4> QED BY <2>1, <3>2, <4>1, ParentFacts
    <3> QED BY <3>1, <3>2 DEF Doomed
  <2> HIDE DEF D
  <2> QED BY <1>1, <2>1, ChildrenKept DEF FrameInv, Tabs
<1>3. Placed /\ (\A s \in Sections : Indexed(s)) BY DEF FrameInv, Tabs
<1>4. /\ Placed' /\ OpenIn(section)' = OpenIn(section) \ D
      /\ \A t \in Sections \ {section} : OpenIn(t)' = OpenIn(t)
      /\ \A j \in Slots \ D : j \notin OpenIn(section) => tabs'[j] = tabs[j]
  <2> HIDE DEF D
  <2> QED BY <1>0, <1>1, <1>3, RemovedTabs
<1>5. \A t \in Sections \ {section} : \A j \in OpenIn(t) : tabs'[j] = tabs[j]
  <2>1. \A t \in Sections \ {section} : \A j \in OpenIn(t) : j \in Slots \ D /\ j \notin OpenIn(section)
    BY <1>0 DEF OpenIn, Doomed
  <2> QED BY <1>4, <2>1
<1>6. \A t \in Sections \ {section} : Indexed(t)' /\ Count(t)' = Count(t)
  <2> HIDE DEF D
  <2> QED BY <1>3, <1>4, <1>5 DEF Indexed, Count
<1>7. Tabs'
  <2>1. ASSUME NEW t \in Sections, t = section PROVE Indexed(t)'
    BY <1>1, <1>3, <2>1, RemovedIndexes
  <2> QED BY <1>2, <1>4, <1>6, <2>1 DEF Tabs
<1>8. Count(section)' = left /\ left \in Nat
  BY <1>0, <1>4, OpenIsFinite DEF Count
<1>9. Landing(tabs[i].at, left) \in 0..left
  BY <1>0, <1>8, OpenIsFinite DEF Landing
<1>10. active' = Landing(tabs[i].at, left)
       /\ memory' = [memory EXCEPT ![section] = Landing(tabs[i].at, left)]
  BY DEF Close
<1> HIDE DEF D, left
<1>11. /\ memory' \in [Sections -> Nat] /\ memory'[section] = active'
       /\ \A t \in Sections \ {section} : memory'[t] = memory[t]
  BY <1>0, <1>8, <1>9, <1>10, PositionFacts
<1>12. Positions'
  BY <1>0, <1>6, <1>8, <1>9, <1>10, <1>11 DEF Positions, FrameInv
<1>13. OthersKept BY <1>5, <1>11 DEF OthersKept
<1> QED BY <1>1, <1>7, <1>12, <1>13 DEF FrameInv, D

LEMMA CloseElsewhere ==
  ASSUME FrameInv, NEW t \in Sections, t # section,
         NEW i \in OpenIn(t), tabs[i].kind \in Guarded, CloseScreen(i)
  PROVE  FrameInv' /\ OthersKept /\ Removed(t, {i})
<1>0. /\ i \in Slots /\ tabs[i].section = t /\ section \in Sections
      /\ tabs' = Without({i}) /\ memory' = [memory EXCEPT ![t] = 0]
      /\ section' = section /\ active' = active
  BY PositionFacts DEF OpenIn, CloseScreen
<1>1. Removed(t, {i}) BY <1>0 DEF Removed
<1>2. Placed /\ ChildrenHaveParents /\ \A s \in Sections : Indexed(s)
  BY DEF FrameInv, Tabs
<1>3. ChildrenHaveParents' BY <1>1, <1>2, ParentFacts, ChildrenKept
<1>4. /\ Placed' /\ Indexed(t)'
      /\ \A s \in Sections \ {t} : OpenIn(s)' = OpenIn(s)
      /\ \A j \in Slots \ {i} : j \notin OpenIn(t) => tabs'[j] = tabs[j]
  BY <1>1, <1>2, RemovedTabs, RemovedIndexes
<1>5. \A s \in Sections \ {t} : \A j \in OpenIn(s) : tabs'[j] = tabs[j]
  BY <1>0, <1>4 DEF OpenIn
<1>6. \A s \in Sections \ {t} : Indexed(s)' /\ Count(s)' = Count(s)
  BY <1>2, <1>4, <1>5 DEF Indexed, Count
<1>7. Tabs' BY <1>3, <1>4, <1>6 DEF Tabs
<1>8. /\ memory' \in [Sections -> Nat] /\ memory'[t] = 0
      /\ \A s \in Sections \ {t} : memory'[s] = memory[s]
  BY <1>0, PositionFacts
<1>9. Count(t)' \in Nat /\ Count(section)' = Count(section)
  <2>1. OpenIn(section)' = OpenIn(section) BY <1>0, <1>4 DEF OpenIn
  <2>2. OpenIn(t)' = OpenIn(t) \ {i} BY <1>1, <1>2, RemovedTabs
  <2> QED BY <2>1, <2>2, OpenIsFinite DEF Count
<1>10. Positions'
  <2>1. \A s \in Sections : memory'[s] \in 0..Count(s)'
    BY <1>6, <1>8, <1>9 DEF Positions, FrameInv
  <2>2. active' \in 0..Count(section)'
    BY <1>0, <1>9 DEF Positions, FrameInv
  <2> QED BY <1>0, <1>8, <2>1, <2>2 DEF Positions
<1>11. OthersKept BY <1>5, <1>8 DEF OthersKept
<1> QED BY <1>1, <1>7, <1>10, <1>11 DEF FrameInv

LEMMA AppendKeeps ==
  ASSUME FrameInv, NEW i \in Slots, tabs[i].kind = "none",
         NEW kind \in Kinds, NEW row \in Rows \cup {0}, Same(kind, row) = {},
         ParentOf(kind) = "main"
           \/ \E j \in OpenIn(section) : tabs[j].kind = ParentOf(kind),
         Append(i, kind, row)
  PROVE  /\ FrameInv' /\ OthersKept
         /\ tabs'[i].kind = kind /\ tabs'[i].row = row
         /\ tabs'[i].section = section /\ tabs'[i].at = active'
         /\ \A j \in Slots \ {i} : tabs'[j] = tabs[j]
<1> DEFINE n == Count(section) + 1
<1>0. /\ Count(section) \in Nat /\ n \in Nat /\ section \in Sections /\ section' = section
      /\ tabs \in [Slots -> Tab] /\ kind # "none" /\ "none" \notin Sections
  BY PositionFacts, FrameAssumption
     DEF FrameAssumption, FrameInv, Tabs, Placed, Append
<1>1. /\ tabs'[i] = [kind |-> kind, section |-> section, row |-> row, at |-> n]
      /\ \A j \in Slots \ {i} : tabs'[j] = tabs[j]
      /\ tabs' \in [Slots -> Tab] /\ active' = n
      /\ memory' = [memory EXCEPT ![section] = n]
  <2>1. [kind |-> kind, section |-> section, row |-> row, at |-> n] \in Tab
    BY <1>0 DEF Tab
  <2> QED BY <1>0, <2>1 DEF Append
<1> HIDE DEF n
<1>2. /\ tabs'[i].kind = kind /\ tabs'[i].row = row
      /\ tabs'[i].section = section /\ tabs'[i].at = n
  BY <1>1
<1>3. Placed' BY <1>0, <1>1, <1>2 DEF FrameInv, Tabs, Placed
<1>4. ASSUME NEW s \in Sections
      PROVE  OpenIn(s)' = IF s = section THEN OpenIn(s) \cup {i} ELSE OpenIn(s)
  BY <1>0, <1>1, <1>2 DEF OpenIn
<1>5. \A s \in Sections : i \notin OpenIn(s) BY DEF OpenIn
<1>6. ASSUME NEW s \in Sections
      PROVE  Count(s)' = IF s = section THEN n ELSE Count(s)
  <2>1. CASE s = section
    <3>1. IsFiniteSet(OpenIn(s)) BY OpenIsFinite
    <3>2. Cardinality(OpenIn(s) \cup {i}) = Cardinality(OpenIn(s)) + 1
      BY <1>5, <3>1, FS_AddElement
    <3> QED BY <1>4, <2>1, <3>2 DEF Count, n
  <2>2. CASE s # section BY <1>4, <2>2 DEF Count
  <2> QED BY <2>1, <2>2
<1>7. ASSUME NEW s \in Sections PROVE Indexed(s)'
  <2>0. Indexed(s) BY DEF FrameInv, Tabs
  <2>1. CASE s # section
    <3>1. \A j \in OpenIn(s) : tabs'[j] = tabs[j] BY <1>1, <1>5 DEF OpenIn
    <3> QED BY <1>4, <1>6, <2>0, <2>1, <3>1 DEF Indexed
  <2>2. CASE s = section
    <3>1. \A j \in OpenIn(s) : tabs'[j] = tabs[j] /\ j # i /\ j \in Slots
      BY <1>1, <1>5 DEF OpenIn
    <3>2. \A j \in OpenIn(s) : tabs[j].at \in 1..Count(s) /\ tabs[j].at # n
      BY <1>0, <2>0, <2>2 DEF Indexed, n
    <3>3. \A j \in OpenIn(s) : <<tabs[j].kind, tabs[j].row>> # <<kind, row>>
      BY <2>2 DEF Same
    <3>4. \A j \in OpenIn(s) : tabs[j].at \in 1..n
      BY <1>0, <2>2, <3>2 DEF n
    <3>5. n \in 1..n BY <1>0 DEF n
    <3> QED BY <1>2, <1>4, <1>6, <2>0, <2>2, <3>1, <3>2, <3>3, <3>4, <3>5 DEF Indexed
  <2> QED BY <2>1, <2>2
<1>8. ChildrenHaveParents'
  <2> SUFFICES ASSUME NEW j \in Slots, ParentOf(tabs'[j].kind) # "main"
               PROVE  \E k \in Slots : /\ tabs'[k].kind # "none"
                                       /\ tabs'[k].section = tabs'[j].section
                                       /\ tabs'[k].kind = ParentOf(tabs'[j].kind)
    BY DEF ChildrenHaveParents, OpenIn
  <2>1. CASE j = i
    <3>1. PICK k \in OpenIn(section) : tabs[k].kind = ParentOf(kind)
      BY <1>2, <2>1
    <3>2. k \in Slots /\ k # i /\ tabs[k].section = section /\ tabs[k].kind # "none"
      BY <3>1 DEF OpenIn
    <3> QED BY <1>1, <1>2, <2>1, <3>1, <3>2
  <2>2. CASE j # i
    <3>1. PICK k \in OpenIn(tabs[j].section) : tabs[k].kind = ParentOf(tabs[j].kind)
      BY <1>1, <2>2 DEF FrameInv, Tabs, ChildrenHaveParents
    <3>2. k \in Slots /\ k # i /\ tabs[k].section = tabs[j].section /\ tabs[k].kind # "none"
      BY <3>1 DEF OpenIn
    <3> QED BY <1>1, <2>2, <3>1, <3>2
  <2> QED BY <2>1, <2>2
<1>9. Tabs' BY <1>3, <1>7, <1>8 DEF Tabs
<1>10. /\ memory' \in [Sections -> Nat] /\ memory'[section] = n
       /\ \A s \in Sections \ {section} : memory'[s] = memory[s]
  BY <1>0, <1>1, PositionFacts
<1>11. Positions'
  <2>1. \A s \in Sections : memory'[s] \in 0..Count(s)'
    BY <1>0, <1>6, <1>10 DEF FrameInv, Positions
  <2>2. \A s \in Sections : s = section => active' \in 0..Count(s)'
    BY <1>0, <1>1, <1>6
  <2>3. active' \in 0..Count(section)'
    BY <1>0, <2>2
  <2> QED BY <1>0, <1>10, <2>1, <2>3 DEF Positions
<1>12. OthersKept
  <2>1. \A s \in Sections \ {section} : \A j \in OpenIn(s) : tabs'[j] = tabs[j]
    BY <1>1, <1>5 DEF OpenIn
  <2> QED BY <1>10, <2>1 DEF OthersKept
<1> QED BY <1>1, <1>2, <1>9, <1>11, <1>12 DEF FrameInv

\* Same and Fresh find what they look for, where they look.
LEMMA OpenedWhere ==
  ASSUME FrameInv, NEW kind, NEW row, Opened(kind, row)
  PROVE  \/ /\ First(Same(kind, row)) \in Same(kind, row)
            /\ First(Same(kind, row)) \in OpenIn(section)
            /\ Reuse(First(Same(kind, row)), OpenFocus(kind)) /\ UNCHANGED screen
         \/ \E i \in Slots : /\ tabs[i].kind = "none" /\ Same(kind, row) = {}
                             /\ Append(i, kind, row) /\ Mounted(i, NewScreen(kind))
<1>1. CASE Same(kind, row) # {}
  <2>1. Same(kind, row) \in SUBSET OpenIn(section) /\ Indexed(section)
    BY PositionFacts DEF Same
  <2>2. First(Same(kind, row)) \in Same(kind, row)
    BY <1>1, <2>1, FirstIsOne
  <2> QED BY <1>1, <2>1, <2>2 DEF Opened
<1>2. CASE Same(kind, row) = {}
  <2>1. FreeSlots # {} /\ Append(Fresh(FreeSlots), kind, row)
        /\ Mounted(Fresh(FreeSlots), NewScreen(kind))
    BY <1>2 DEF Opened
  <2>2. Fresh(FreeSlots) \in FreeSlots BY <2>1 DEF Fresh
  <2>3. \A i \in FreeSlots : i \in Slots /\ tabs[i].kind = "none" BY DEF FreeSlots, Is
  <2> QED BY <1>2, <2>1, <2>2, <2>3
<1> QED BY <1>1, <1>2

LEMMA OpenedFrame ==
  ASSUME FrameInv, NEW kind \in Kinds, NEW row \in Rows \cup {0}, Opened(kind, row),
         ParentOf(kind) = "main"
           \/ \E j \in OpenIn(section) : tabs[j].kind = ParentOf(kind)
  PROVE  FrameInv' /\ OthersKept
<1>1. CASE First(Same(kind, row)) \in OpenIn(section)
           /\ Reuse(First(Same(kind, row)), OpenFocus(kind))
  BY <1>1, ReuseKeeps
<1>2. ASSUME NEW i \in Slots, tabs[i].kind = "none", Same(kind, row) = {},
             Append(i, kind, row)
      PROVE  FrameInv' /\ OthersKept
  BY <1>2, AppendKeeps
<1> QED BY <1>1, <1>2, OpenedWhere

LEMMA TabAtIsOpen ==
  ASSUME FrameInv, active # 0
  PROVE  TabAt(section, active) \in OpenIn(section)
<1>1. active \in 1..Count(section) /\ Indexed(section) BY PositionFacts
<1>2. \E i \in OpenIn(section) : tabs[i].at = active BY <1>1, EveryIndexIsTaken
<1> QED BY <1>2 DEF TabAt

LEMMA FrameUnmoved ==
  ASSUME FrameInv, UNCHANGED <<tabs, section, active, memory>>
  PROVE  FrameInv' /\ OthersKept
BY PositionFacts, MovingStep DEF FrameInv, Positions

LEMMA FrameStepFrame ==
  ASSUME FrameInv, NEW busy, Frame(busy)
  PROVE  /\ FrameInv' /\ OthersKept
         /\ \/ tabs' = tabs
            \/ \E i \in OpenIn(section) \ busy : Removed(section, Doomed(i))
<1>1. CASE \/ SidebarUp \/ (\E s \in Sections : SidebarEnter(s)) \/ TabBarEnter
           \/ TabBarLeft \/ TabBarRight \/ FocusSidebarMsg \/ FocusTabBarMsg
           \/ FocusParentMsg
  BY <1>1, FrameMoves DEF FocusSidebarMsg, FocusTabBarMsg, FocusParentMsg
<1>2. CASE UNCHANGED <<tabs, section, active, memory>>
  BY <1>2, FrameUnmoved
<1>3. CASE /\ active # 0 /\ TabAt(section, active) \notin busy
           /\ Close(TabAt(section, active))
  BY <1>3, TabAtIsOpen, CloseFrame
<1>4. CASE TabBarClose(busy)
  BY <1>2, <1>3, <1>4 DEF TabBarClose
<1>5. CASE CloseTabMsg(busy)
  BY <1>2, <1>3, <1>5 DEF CloseTabMsg, CloseActive
<1> QED BY <1>1, <1>4, <1>5 DEF Frame

LEMMA CloseOwnFrame ==
  ASSUME FrameInv, NEW i \in Slots, CloseOwn(i)
  PROVE  /\ FrameInv' /\ OthersKept
         /\ \/ tabs' = tabs
            \/ /\ screen[i].step = "result" /\ i \in OpenIn(tabs[i].section)
               /\ \/ tabs[i].section = section /\ Removed(section, Doomed(i))
                  \/ tabs[i].section # section /\ Removed(tabs[i].section, {i})
<1>1. CASE UNCHANGED <<tabs, section, active, memory>>
  BY <1>1, FrameUnmoved
<1>2. CASE tabs[i].kind \in Guarded /\ screen[i].step = "result" /\ CloseScreen(i)
  <2>1. tabs[i].kind # "none" BY <1>2 DEF Guarded
  <2>2. tabs[i].section \in Sections /\ i \in OpenIn(tabs[i].section)
    BY <2>1 DEF FrameInv, Tabs, Placed, OpenIn
  <2>3. CASE tabs[i].section = section
    BY <1>2, <2>2, <2>3, CloseFrame DEF CloseScreen
  <2>4. CASE tabs[i].section # section
    <3>1. \A t \in Sections : tabs[i].section = t =>
             FrameInv' /\ OthersKept /\ Removed(tabs[i].section, {i})
      BY <1>2, <2>2, <2>4, CloseElsewhere
    <3> QED BY <1>2, <2>2, <2>4, <3>1
  <2> QED BY <2>3, <2>4
<1> QED BY <1>1, <1>2 DEF CloseOwn

LEMMA FrameStart == Init => FrameInv
<1> SUFFICES ASSUME Init PROVE FrameInv
  OBVIOUS
<1>1. /\ tabs = [i \in Slots |-> NoTab] /\ section \in Sections /\ active = 0
      /\ memory = [s \in Sections |-> 0]
  BY FrameAssumption DEF FrameAssumption, Init, FrameInit
<1>2. NoTab \in Tab /\ NoTab.kind = "none" /\ NoTab.section = "none"
  BY DEF NoTab, Tab
<1>3. \A s : OpenIn(s) = {} BY <1>1, <1>2 DEF OpenIn
<1>4. ChildrenHaveParents BY <1>1, <1>2, ParentFacts DEF ChildrenHaveParents
<1>5. Tabs BY <1>1, <1>2, <1>3, <1>4 DEF Tabs, Placed, Indexed
<1>6. \A s : 0 \in 0..Count(s) BY OpenIsFinite
<1>7. Positions BY <1>1, <1>6 DEF Positions
<1> QED BY <1>5, <1>7 DEF FrameInv

LEMMA FrameKept ==
  ASSUME FrameInv, [Next]_vars
  PROVE  FrameInv' /\ OthersKept
<1>0. 0 \in Rows \cup {0} /\ \A kind \in Kinds \ {"webui"} : ParentOf(kind) = "main"
  BY PaymentsAssumption DEF PaymentsAssumption, ParentOf
<1>1. CASE FrameStep
  <2>1. Frame(Busy) BY <1>1 DEF FrameStep
  <2> QED BY <2>1, FrameStepFrame
<1>2. ASSUME NEW kind \in Kinds \ {"onchain", "webui"},
             NEW row \in IF kind \in {"payment", "channel"} THEN Rows ELSE {0},
             OpenTab(kind, row)
      PROVE  FrameInv' /\ OthersKept
  BY <1>0, <1>2, OpenedFrame DEF OpenTab
<1>3. CASE "onchain" \in Kinds /\ OpenOnChainSend
  <2>1. CASE Opened("onchain", 0) BY <1>0, <1>3, <2>1, OpenedFrame
  <2>2. CASE Same("onchain", 0) # {}
             /\ \E focused : Reuse(First(Same("onchain", 0)), focused)
    <3>1. Same("onchain", 0) \in SUBSET OpenIn(section) /\ Indexed(section)
      BY PositionFacts DEF Same
    <3>2. First(Same("onchain", 0)) \in OpenIn(section)
      BY <2>2, <3>1, FirstIsOne
    <3> QED BY <2>2, <3>2, ReuseKeeps
  <2> QED BY <1>3, <2>1, <2>2 DEF OpenOnChainSend
<1>4. ASSUME NEW i \in Slots, "webui" \in Kinds, OpenWebUI(i)
      PROVE  FrameInv' /\ OthersKept
  <2>1. i \in OpenIn(section) /\ tabs[i].kind = ParentOf("webui") /\ Opened("webui", 0)
    BY <1>4 DEF OpenWebUI, AtContent, Is, ParentOf
  <2> QED BY <1>0, <1>4, <2>1, OpenedFrame
<1>5. ASSUME NEW i \in Slots, CloseOwn(i) PROVE FrameInv' /\ OthersKept
  BY <1>5, CloseOwnFrame
<1>6. ASSUME NEW i \in Slots,
             \/ \E invoice \in {{}} \cup {{v} : v \in Invoices} : EditInvoice(i, invoice)
             \/ SubmitInvoice(i) \/ CreateTransaction(i) \/ SubmitOpenChannel(i)
             \/ PrepareClose(i) \/ GoBack(i) \/ Confirm(i) \/ ClearForm(i)
             \/ LaunchClose(i) \/ CancelClose(i) \/ Done(i)
      PROVE  FrameInv' /\ OthersKept
  <2>1. UNCHANGED <<tabs, section, active, memory>>
    BY <1>6 DEF EditInvoice, SubmitInvoice, CreateTransaction, SubmitOpenChannel,
       PrepareClose, Prepared, GoBack, Confirm, ClearForm, LaunchClose, CancelClose,
       Done, InScreen
  <2> QED BY <2>1, FrameUnmoved
<1>7. CASE \/ \E c \in Coins : ToggleCoin(c)
           \/ \E m \in Messages : Key(m)
           \/ \E a \in Attempts : Answer(a)
           \/ UNCHANGED vars
  <2>1. UNCHANGED <<tabs, section, active, memory>>
    BY <1>7 DEF ToggleCoin, Key, Emit, Answer, vars
  <2> QED BY <2>1, FrameUnmoved
<1> QED BY <1>1, <1>2, <1>3, <1>4, <1>5, <1>6, <1>7 DEF Next

LEMMA FrameFacts == FrameInv => TabsHold
<1> SUFFICES ASSUME FrameInv PROVE TabsHold
  OBVIOUS
<1>1. TabIndexesHold
  <2>1. active # 0 => \E i \in OpenIn(section) : tabs[i].at = active
    BY PositionFacts, EveryIndexIsTaken
  <2>2. ASSUME NEW s \in Sections, memory[s] # 0
        PROVE  \E i \in OpenIn(s) : tabs[i].at = memory[s]
    <3>1. Indexed(s) /\ memory[s] \in 0..Count(s) /\ Count(s) \in Nat
      BY OpenIsFinite DEF FrameInv, Tabs, Positions
    <3>2. memory[s] \in 1..Count(s) BY <2>2, <3>1
    <3> QED BY <3>1, <3>2, EveryIndexIsTaken
  <2> QED BY <2>1, <2>2 DEF TabIndexesHold
<1>2. TabsAreDistinct
  <2> SUFFICES ASSUME NEW i \in Slots, NEW j \in Slots, i # j, tabs[i].kind # "none",
                      tabs[i].section = tabs[j].section
               PROVE  /\ <<tabs[i].kind, tabs[i].row>> # <<tabs[j].kind, tabs[j].row>>
                      /\ tabs[i].at # tabs[j].at
    BY DEF TabsAreDistinct
  <2>1. tabs[i].section \in Sections BY DEF FrameInv, Tabs, Placed
  <2>2. tabs[j].kind # "none"
    BY <2>1, FrameAssumption DEF FrameAssumption, FrameInv, Tabs, Placed
  <2>3. i \in OpenIn(tabs[i].section) /\ j \in OpenIn(tabs[i].section)
    BY <2>2 DEF OpenIn
  <2>4. Indexed(tabs[i].section) BY <2>1 DEF FrameInv, Tabs
  <2> QED BY <2>3, <2>4 DEF Indexed
<1> QED BY <1>1, <1>2 DEF TabsHold, FrameInv, Tabs

\* The positions and the tabs of the frame, with what their removal needs.
THEOREM FrameInvariant == Spec => []FrameInv
BY FrameStart, FrameKept, PTL DEF Spec

\* However tabs are opened, closed and left, in any number of sections: every
\* index the frame holds is that of an open tab, what identifies a tab
\* identifies one, and no child outlives its parent (closeTab, openTabMsg).
THEOREM TabsStayWhole == Spec => []TabsHold
BY FrameInvariant, FrameFacts, PTL

\* The index a section remembers while the operator is elsewhere stays that of
\* the same tab, or is forgotten (closeScreenTab).
THEOREM MemoryIsOfOneTab == Spec => MemoryKeepsItsTab
<1>1. ASSUME FrameInv, [Next]_vars
      PROVE  [\A s \in Sections \ {section} : \A i \in OpenIn(s) :
                 tabs[i].at = memory[s] /\ memory'[s] # 0
                 => tabs'[i].kind = tabs[i].kind /\ tabs'[i].at = memory'[s]]_frame
  BY <1>1, FrameKept DEF OthersKept
<1> QED BY <1>1, FrameInvariant, PTL DEF Spec, MemoryKeepsItsTab

-------------------------------------------------------------------------------
(* What a step does to a tab, and to its screen.                           *)

LEMMA OpenedShows ==
  ASSUME FrameInv, NEW kind, NEW row, Opened(kind, row), kind = "channel"
  PROVE  Shows(kind, row)
<1>1. CASE /\ First(Same(kind, row)) \in Same(kind, row)
           /\ Reuse(First(Same(kind, row)), OpenFocus(kind))
  BY <1>1 DEF Shows, Same, OpenIn, Reuse
<1>2. ASSUME NEW i \in Slots, Append(i, kind, row) PROVE Shows(kind, row)
  <2>1. /\ tabs'[i] = [kind |-> kind, section |-> section, row |-> row,
                       at |-> Count(section) + 1]
        /\ section' = section /\ active' = Count(section) + 1
    BY <1>2 DEF Append, FrameInv, Tabs, Placed
  <2> QED BY <2>1 DEF Shows
<1> QED BY <1>1, <1>2, OpenedWhere

\* Opening a channel of the list shows that channel, whichever are open
\* already and in whatever order (openTabMsg by its funding outpoint).
THEOREM ChannelsOpenThemselves == Spec => OpensTheChannel
<1>1. ASSUME FrameInv
      PROVE  [\A r \in Rows : OpenTab("channel", r) => Shows("channel", r)]_vars
  BY <1>1, OpenedShows DEF OpenTab
<1> QED BY <1>1, FrameInvariant, PTL DEF OpensTheChannel

\* The submitted workflow in i is the same, on the same screen.
Holds(i) == /\ tabs'[i].kind = tabs[i].kind /\ tabs'[i].row = tabs[i].row
            /\ screen'[i] = screen[i]

LEMMA OpenedHolds ==
  ASSUME FrameInv, Shape, NEW kind, NEW row, Opened(kind, row), NEW i \in Slots,
         tabs[i].kind # "none"
  PROVE  Holds(i)
<1>1. CASE Reuse(First(Same(kind, row)), OpenFocus(kind)) /\ UNCHANGED screen
  BY <1>1 DEF Reuse, Holds
<1>2. ASSUME NEW j \in Slots, tabs[j].kind = "none", Append(j, kind, row),
             Mounted(j, NewScreen(kind))
      PROVE  Holds(i)
  BY <1>2 DEF Append, Mounted, Holds, Shape
<1> QED BY <1>1, <1>2, OpenedWhere

\* Closing another tab dooms no guarded one: it has no tab for a parent, and
\* no other tab has its kind and its row.
LEMMA OthersSpared ==
  ASSUME FrameInv, NEW i \in Slots, tabs[i].kind \in Guarded,
         NEW j \in OpenIn(section), j # i, Removed(section, Doomed(j))
  PROVE  tabs'[i].kind = tabs[i].kind /\ tabs'[i].row = tabs[i].row
<1>1. TabsAreDistinct BY FrameFacts DEF TabsHold
<1>2. j \in Slots /\ tabs[j].kind \in Kinds /\ tabs[j].kind # "none"
  BY DEF OpenIn, FrameInv, Tabs, Placed, Tab
<1>3. tabs[i].kind # "none" BY DEF Guarded
<1>4. ParentOf(tabs[i].kind) # tabs[j].kind
  BY <1>2, ParentFacts, FrameAssumption DEF FrameAssumption
<1>5. i \notin Doomed(j)
  BY <1>1, <1>2, <1>3, <1>4 DEF Doomed, OpenIn, TabsAreDistinct
<1> QED BY <1>5, RemovedTabs DEF FrameInv, Tabs

LEMMA BusyFrameStep ==
  ASSUME FrameInv, Shape, FrameStep, NEW i \in Busy
  PROVE  Holds(i)
<1>0. i \in Slots /\ tabs[i].kind \in Guarded /\ tabs[i].kind # "none"
  BY DEF Busy, Guarded
<1>1. tabs' = tabs \/ \E j \in OpenIn(section) \ Busy : Removed(section, Doomed(j))
  BY FrameStepFrame DEF FrameStep
<1>2. tabs'[i].kind = tabs[i].kind /\ tabs'[i].row = tabs[i].row
  BY <1>0, <1>1, OthersSpared
<1> QED BY <1>0, <1>2 DEF FrameStep, Unmounted, Holds

LEMMA BusyCloseOwn ==
  ASSUME FrameInv, Shape, NEW j \in Slots, CloseOwn(j), NEW i \in Busy
  PROVE  Holds(i)
<1>0. i \in Slots /\ tabs[i].kind \in Guarded /\ tabs[i].kind # "none"
      /\ screen[i].step = "submitting"
  BY DEF Busy, Guarded
<1>1. tabs'[i].kind = tabs[i].kind /\ tabs'[i].row = tabs[i].row
  <2>1. CASE tabs' = tabs BY <2>1
  <2>2. CASE /\ screen[j].step = "result" /\ j \in OpenIn(tabs[j].section)
             /\ tabs[j].section = section /\ Removed(section, Doomed(j))
    BY <1>0, <2>2, OthersSpared
  <2>3. CASE screen[j].step = "result" /\ Removed(tabs[j].section, {j})
    BY <1>0, <2>3, RemovedTabs DEF FrameInv, Tabs
  <2> QED BY <2>1, <2>2, <2>3, CloseOwnFrame
<1>2. screen' = screen \/ Unmounted BY DEF CloseOwn
<1> QED BY <1>0, <1>1, <1>2 DEF Unmounted, Holds

LEMMA BusyKeys ==
  ASSUME Shape, NEW j \in Slots, NEW i \in Busy,
         \/ \E invoice \in {{}} \cup {{v} : v \in Invoices} : EditInvoice(j, invoice)
         \/ SubmitInvoice(j) \/ CreateTransaction(j) \/ SubmitOpenChannel(j)
         \/ PrepareClose(j) \/ GoBack(j) \/ Confirm(j) \/ ClearForm(j)
         \/ LaunchClose(j) \/ CancelClose(j) \/ Done(j)
  PROVE  Holds(i)
<1>1. tabs' = tabs
  BY DEF EditInvoice, SubmitInvoice, CreateTransaction, SubmitOpenChannel,
     PrepareClose, Prepared, GoBack, Confirm, ClearForm, LaunchClose, CancelClose,
     Done, InScreen
<1>2. \/ screen' = screen
      \/ screen[j].step # "submitting" /\ \A k \in Slots \ {j} : screen'[k] = screen[k]
  BY DEF EditInvoice, SubmitInvoice, CreateTransaction, SubmitOpenChannel, Mounted, Shape,
     PrepareClose, Prepared, GoBack, Confirm, ClearForm, LaunchClose, CancelClose, Done
<1>3. i \in Slots /\ screen[i].step = "submitting" BY DEF Busy
<1> QED BY <1>1, <1>2, <1>3 DEF Holds

LEMMA BusyAnswer ==
  ASSUME Shape, NEW a \in Attempts, Answer(a), NEW i \in Busy
  PROVE  /\ tabs'[i].kind = tabs[i].kind /\ tabs'[i].row = tabs[i].row
         /\ screen'[i] # screen[i] =>
              \E c \in calls \ calls' : /\ c.stage = "submit"
                                       /\ c.attempt = screen[i].attempt
<1>1. PICK c \in calls, ok \in BOOLEAN :
        calls' = calls \ {c} /\ (Decoded(c, ok) \/ Answered(c, ok))
  BY DEF Answer
<1>2. i \in Slots /\ screen[i].step = "submitting" BY DEF Busy
<1>3. tabs' = tabs BY DEF Answer
<1>4. c \in calls \ calls' BY <1>1
<1>5. CASE Decoded(c, ok) BY <1>2, <1>3, <1>5 DEF Decoded
<1>6. CASE Answered(c, ok) BY <1>2, <1>3, <1>4, <1>6 DEF Answered, Receivers
<1> QED BY <1>1, <1>5, <1>6

BusyKept ==
  \A i \in Busy :
    /\ tabs'[i].kind = tabs[i].kind
    /\ tabs'[i].row = tabs[i].row
    /\ screen'[i] # screen[i] =>
          \E c \in calls \ calls' : /\ c.stage = "submit"
                                   /\ c.attempt = screen[i].attempt

LEMMA BusyStep ==
  ASSUME FrameInv, Shape, Next
  PROVE  BusyKept
<1> SUFFICES ASSUME NEW i \in Busy
             PROVE  /\ tabs'[i].kind = tabs[i].kind
                    /\ tabs'[i].row = tabs[i].row
                    /\ screen'[i] # screen[i] =>
                         \E c \in calls \ calls' : /\ c.stage = "submit"
                                                  /\ c.attempt = screen[i].attempt
  BY DEF BusyKept
<1>0. i \in Slots /\ tabs[i].kind # "none" /\ screen[i].step = "submitting"
  BY DEF Busy, Guarded
<1>1. Holds(i) => /\ tabs'[i].kind = tabs[i].kind /\ tabs'[i].row = tabs[i].row
                  /\ screen'[i] = screen[i]
  BY DEF Holds
<1>2. CASE FrameStep BY <1>1, <1>2, BusyFrameStep
<1>3. ASSUME NEW kind, NEW row, OpenTab(kind, row) PROVE Holds(i)
  BY <1>0, <1>3, OpenedHolds DEF OpenTab
<1>4. CASE OpenOnChainSend
  <2>1. CASE Opened("onchain", 0) BY <1>0, <1>1, <2>1, OpenedHolds
  <2>2. ASSUME NEW j \in Slots, NEW focused, j \notin Busy, Reuse(j, focused),
               Mounted(j, NewScreen("onchain"))
        PROVE  Holds(i)
    BY <2>2 DEF Reuse, Mounted, Holds, Shape
  <2>3. ASSUME NEW j, NEW focused, Reuse(j, focused), UNCHANGED screen
        PROVE  Holds(i)
    BY <2>3 DEF Reuse, Holds
  <2>4. CASE Same("onchain", 0) # {}
    <3>1. Same("onchain", 0) \in SUBSET OpenIn(section) /\ Indexed(section)
      BY PositionFacts DEF Same
    <3>2. First(Same("onchain", 0)) \in OpenIn(section)
      BY <2>4, <3>1, FirstIsOne
    <3>3. First(Same("onchain", 0)) \in Slots BY <3>2 DEF OpenIn
    <3> QED BY <1>1, <1>4, <2>1, <2>2, <2>3, <3>3 DEF OpenOnChainSend
  <2> QED BY <1>4, <2>1, <2>4 DEF OpenOnChainSend
<1>5. ASSUME NEW j \in Slots, OpenWebUI(j) PROVE Holds(i)
  BY <1>0, <1>5, OpenedHolds DEF OpenWebUI
<1>6. CASE (\E c \in Coins : ToggleCoin(c)) \/ (\E m \in Messages : Key(m))
  BY <1>6 DEF ToggleCoin, Key, Emit
<1>7. CASE \E a \in Attempts : Answer(a) BY <1>7, BusyAnswer
<1> QED BY <1>1, <1>2, <1>3, <1>4, <1>5, <1>6, <1>7, BusyKeys, BusyCloseOwn DEF Next

\* While a transaction is broadcast, or a channel opened or closed, its tab
\* stays what it is, and only the answer to its own call changes its screen,
\* whichever tabs are opened, closed or replaced meanwhile.
THEOREM BusyTabsStay == Spec => BusyKeepsItsTab
<1>1. ASSUME FrameInv, Shape, [Next]_vars PROVE [BusyKept]_vars
  BY <1>1, BusyStep
<1>2. IInv => Shape BY DEF IInv
<1>3. ASSUME BusyKept
      PROVE  \A i \in Busy :
               /\ tabs'[i].kind = tabs[i].kind
               /\ tabs'[i].row = tabs[i].row
               /\ screen'[i] # screen[i] =>
                    \E c \in calls \ calls' : /\ c.stage = "submit"
                                             /\ c.attempt = screen[i].attempt
  BY <1>3 DEF BusyKept
<1> QED BY <1>1, <1>2, <1>3, Invariant, FrameInvariant, PTL DEF Spec, BusyKeepsItsTab

\* A transaction handed to LND spends the coins selected at that moment: the
\* selection is compared again when the review is confirmed.
THEOREM SendsWhatIsSelected == Spec => SentAsSelected
<1>1. ASSUME Shape, [Next]_vars
      PROVE  [\A c \in calls' \ calls :
                 c.kind = "onchain" /\ c.stage = "submit" => c.details = chosen]_vars
  <2>1. CASE FrameStep BY <2>1 DEF FrameStep
  <2>2. CASE \E kind, row : OpenTab(kind, row)
    BY <2>2 DEF OpenTab
  <2>3. CASE OpenOnChainSend BY <2>3 DEF OpenOnChainSend
  <2>4. CASE (\E c \in Coins : ToggleCoin(c)) \/ (\E m \in Messages : Key(m))
             \/ (\E a \in Attempts : Answer(a)) \/ UNCHANGED vars
    BY <2>4 DEF ToggleCoin, Key, Answer, vars
  <2>5. ASSUME NEW i \in Slots, Confirm(i)
        PROVE  \A c \in calls' \ calls :
                 c.kind = "onchain" /\ c.stage = "submit" => c.details = chosen
    BY <2>5 DEF Confirm, Stale, Is
  <2>6. ASSUME NEW i \in Slots, SubmitInvoice(i)
        PROVE  \A c \in calls' \ calls : c.stage = "decode"
    BY <2>6 DEF SubmitInvoice
  <2>7. ASSUME NEW i \in Slots,
               \/ OpenWebUI(i) \/ CloseOwn(i)
               \/ \E invoice \in {{}} \cup {{v} : v \in Invoices} : EditInvoice(i, invoice)
               \/ CreateTransaction(i) \/ SubmitOpenChannel(i) \/ PrepareClose(i)
               \/ GoBack(i) \/ ClearForm(i) \/ LaunchClose(i) \/ CancelClose(i) \/ Done(i)
        PROVE  calls' = calls
    BY <2>7 DEF OpenWebUI, CloseOwn, EditInvoice, CreateTransaction, SubmitOpenChannel,
       PrepareClose, Prepared, GoBack, ClearForm, LaunchClose, CancelClose, Done
  <2> QED BY <1>1, <2>1, <2>2, <2>3, <2>4, <2>5, <2>6, <2>7 DEF Next
<1>2. IInv => Shape BY DEF IInv
<1> QED BY <1>1, <1>2, Invariant, PTL DEF Spec, SentAsSelected

=============================================================================
