------------------------------ MODULE Payments ------------------------------
(***************************************************************************)
(* The money workflows of the terminal UI, in the frame of TabBar: paying a*)
(* Lightning invoice (`send'), an on-chain transaction (`onchain'), opening*)
(* a channel (`open') and closing one (the close screen inside a `channel' *)
(* tab).  Each is a form, a review of what was prepared from it, one call  *)
(* to LND, and its result.  The call runs in a goroutine of its own while  *)
(* the operator goes on; its answer carries the attempt it belongs to, and *)
(* Model.Update routes it by the kind of tab.  `payment', `syncthing' and  *)
(* `webui' stand for tabs that only display.                               *)
(*                                                                         *)
(* What a form asks for is a set: the invoice of a payment (empty: none    *)
(* valid), the coins selected for an on-chain send.  The wallet exists, LND*)
(* is connected and the form's other fields are valid.  ctrl+c ends the    *)
(* program and is no action.                                               *)
(***************************************************************************)
EXTENDS TabBar

CONSTANTS Invoices, Coins,
          Attempts     \* attempts alive at once

ASSUME PaymentsAssumption ==
    /\ Attempts \subseteq Nat \ {0}
    /\ Kinds \subseteq {"send", "payment", "onchain", "open", "channel", "syncthing", "webui"}
    /\ {HomeOf(kind) : kind \in Kinds} \subseteq Sections

VARIABLES
    screen,   \* slot -> the workflow's state
    calls,    \* calls to LND whose answer has not been handled
    closing,  \* slots whose screen has asked for its own tab to be closed
    chosen,   \* OnChainContext.Selection
    changed   \* OnChainHomeScreen.utxoChanged

vars == <<tabs, section, focus, active, memory, emitted,
          screen, calls, closing, chosen, changed>>

Flows   == {"send", "onchain", "open", "channel"}
Guarded == {"onchain", "open", "channel"}  \* closeTab keeps them while busy

\* attempt 0 is nil; `request' is what the attempt was made for, `prepared'
\* what Confirm submits, `input' the invoice in the form
NoScreen == [step |-> "none", attempt |-> 0,
             request |-> {}, prepared |-> {}, input |-> {}]

NewScreen(kind) ==
    [NoScreen EXCEPT !.step = IF kind \in {"send", "onchain", "open"}
                              THEN "form" ELSE "detail"]

Steps   == {"none", "detail", "form", "review", "submitting", "result"}
Details == (SUBSET Invoices) \cup (SUBSET Coins)

Call == [kind : Flows, stage : {"decode", "submit"},
         attempt : Attempts, details : Details]

TypeOK ==
    /\ FrameTypeOK
    /\ screen \in [Slots -> [step : Steps, attempt : Attempts \cup {0},
                             request : Details, prepared : Details,
                             input : SUBSET Invoices]]
    /\ calls \subseteq Call
    /\ closing \subseteq Slots
    /\ chosen \subseteq Coins
    /\ changed \in BOOLEAN

Init ==
    /\ FrameInit
    /\ screen = [i \in Slots |-> NoScreen]
    /\ calls = {}
    /\ closing = {}
    /\ chosen = {}
    /\ changed = FALSE

Is(kind, i) == tabs[i].kind = kind

Busy == {i \in Slots : tabs[i].kind \in Guarded /\ screen[i].step = "submitting"}

\* A pointer is reused only when nothing holds it any more.
FreeSlots == {i \in Slots : Is("none", i) /\ i \notin closing}
FreeAttempts == Attempts \ ({screen[i].attempt : i \in Slots}
                            \cup {c.attempt : c \in calls})

Fresh(S) == CHOOSE x \in S : TRUE

Mounted(i, new) == screen' = [screen EXCEPT ![i] = new]

\* A slot whose tab is closed holds no screen.
Unmounted == screen' = [i \in Slots |-> IF tabs'[i].kind = "none" THEN NoScreen
                                                                 ELSE screen[i]]

(***************************************************************************)
(* Opening tabs from the homes, and the web UI from the Syncthing tab.     *)
(***************************************************************************)
Opened(kind, row) ==
    IF Same(kind, row) # {}
    THEN Reuse(First(Same(kind, row)), OpenFocus(kind)) /\ UNCHANGED screen
    ELSE /\ FreeSlots # {}
         /\ Append(Fresh(FreeSlots), kind, row)
         /\ Mounted(Fresh(FreeSlots), NewScreen(kind))

OpenTab(kind, row) ==
    /\ AtHome
    /\ section = HomeOf(kind)
    /\ Opened(kind, row)
    /\ UNCHANGED <<calls, closing, chosen, changed>>

\* Mutant of OpenOnChainSend: a send being broadcast is replaced too.
OpenOnChainSendUnguarded ==
    /\ AtHome
    /\ section = "onchain"
    /\ changed' = FALSE
    /\ IF changed /\ Same("onchain", 0) # {}
       THEN LET i == First(Same("onchain", 0))
            IN  Reuse(i, "content") /\ Mounted(i, NewScreen("onchain"))
       ELSE Opened("onchain", 0)
    /\ UNCHANGED <<calls, closing, chosen>>

\* A send opened after the selection changed replaces the one in the tab,
\* unless its transaction is being broadcast.
OpenOnChainSend ==
    /\ AtHome
    /\ section = "onchain"
    /\ changed' = FALSE
    /\ IF changed /\ Same("onchain", 0) # {}
       THEN LET i == First(Same("onchain", 0))
            IN  IF i \in Busy
                THEN Reuse(i, focus) /\ UNCHANGED screen
                ELSE Reuse(i, "content") /\ Mounted(i, NewScreen("onchain"))
       ELSE Opened("onchain", 0)
    /\ UNCHANGED <<calls, closing, chosen>>

OpenWebUI(i) ==
    /\ AtContent(i)
    /\ Is("syncthing", i)
    /\ Opened("webui", 0)
    /\ UNCHANGED <<calls, closing, chosen, changed>>

\* Space on a coin of the on-chain home.
ToggleCoin(c) ==
    /\ AtHome
    /\ section = "onchain"
    /\ chosen' = IF c \in chosen THEN chosen \ {c} ELSE chosen \cup {c}
    /\ changed' = TRUE
    /\ UNCHANGED <<tabs, section, focus, active, memory, emitted,
                   screen, calls, closing>>

(***************************************************************************)
(* Keys in the content of a workflow.                                      *)
(***************************************************************************)
InScreen(i) ==
    AtContent(i) /\ UNCHANGED <<tabs, section, focus, active, memory, emitted>>

EditInvoice(i, invoice) ==
    /\ InScreen(i)
    /\ Is("send", i) /\ screen[i].step = "form"
    /\ Mounted(i, [screen[i] EXCEPT !.input = invoice])
    /\ UNCHANGED <<calls, closing, chosen, changed>>

\* submitSendPayment: a valid invoice is decoded by LND before the review.
SubmitInvoice(i) ==
    /\ InScreen(i)
    /\ Is("send", i) /\ screen[i].step = "form"
    /\ IF screen[i].input = {}
       THEN Mounted(i, [screen[i] EXCEPT !.attempt = 0]) /\ UNCHANGED calls
       ELSE /\ FreeAttempts # {}
            /\ Mounted(i, [screen[i] EXCEPT !.attempt = Fresh(FreeAttempts),
                                            !.request = screen[i].input])
            /\ calls' = calls \cup
                 {[kind |-> "send", stage |-> "decode",
                   attempt |-> Fresh(FreeAttempts),
                   details |-> screen[i].input]}
    /\ UNCHANGED <<closing, chosen, changed>>

\* The other workflows prepare what is reviewed from the form at once.
Prepared(i, asked) ==
    /\ InScreen(i)
    /\ screen[i].step = "form"
    /\ FreeAttempts # {}
    /\ Mounted(i, [screen[i] EXCEPT !.step = "review",
                                    !.attempt = Fresh(FreeAttempts),
                                    !.request = asked,
                                    !.prepared = asked])
    /\ UNCHANGED <<calls, closing, chosen, changed>>

CreateTransaction(i) == Is("onchain", i) /\ Prepared(i, chosen)
SubmitOpenChannel(i) == Is("open", i) /\ Prepared(i, {})
PrepareClose(i)      == Is("channel", i) /\ Prepared(i, {})

BackToInput(s) ==
    [s EXCEPT !.step = "form", !.attempt = 0, !.request = {}, !.prepared = {}]

GoBack(i) ==
    /\ InScreen(i)
    /\ screen[i].step = "review"
    /\ Mounted(i, BackToInput(screen[i]))
    /\ UNCHANGED <<calls, closing, chosen, changed>>

\* Mutant of Stale: the selection is not compared again.
StaleNever(i) == FALSE

\* Coins selected since the review send the operator back to the form.
Stale(i) == Is("onchain", i) /\ screen[i].prepared # chosen

Confirm(i) ==
    /\ InScreen(i)
    /\ screen[i].step = "review"
    /\ IF Stale(i)
       THEN Mounted(i, BackToInput(screen[i])) /\ UNCHANGED calls
       ELSE /\ Mounted(i, [screen[i] EXCEPT !.step = "submitting"])
            /\ calls' = calls \cup
                 {[kind |-> tabs[i].kind, stage |-> "submit",
                   attempt |-> screen[i].attempt,
                   details |-> screen[i].prepared]}
    /\ UNCHANGED <<closing, chosen, changed>>

\* Clear on the on-chain form clears the shared selection too.
ClearForm(i) ==
    /\ InScreen(i)
    /\ Is("onchain", i) /\ screen[i].step = "form"
    /\ chosen' = {}
    /\ Mounted(i, NewScreen("onchain"))
    /\ UNCHANGED <<calls, closing, changed>>

LaunchClose(i) ==
    /\ InScreen(i)
    /\ Is("channel", i) /\ screen[i].step = "detail"
    /\ Mounted(i, [screen[i] EXCEPT !.step = "form"])
    /\ UNCHANGED <<calls, closing, chosen, changed>>

CancelClose(i) ==
    /\ InScreen(i)
    /\ Is("channel", i) /\ screen[i].step = "form"
    /\ Mounted(i, NewScreen("channel"))
    /\ UNCHANGED <<calls, closing, chosen, changed>>

\* Done names the screen to close; a payment's closes the active tab (Key).
Done(i) ==
    /\ InScreen(i)
    /\ tabs[i].kind \in Guarded /\ screen[i].step = "result"
    /\ closing' = closing \cup {i}
    /\ UNCHANGED <<screen, calls, chosen, changed>>

\* What the keys of a screen ask of the frame.
Away == {"focusSidebar", "focusTabBar"}
Stay == Messages \ {"closeTab"}

SendKeys(step) == CASE step = "submitting" -> {}
                    [] step = "review"     -> Away
                    [] step = "result"     -> Messages
                    [] step = "form"       -> Stay

OnChainKeys(step) == IF step \in {"review", "submitting"} THEN Away ELSE Stay
OpenKeys(step)    == IF step \in {"review", "submitting"} THEN Away ELSE Stay
DetailKeys        == Messages
CloseKeys(step)   == IF step = "result" THEN Stay ELSE Away

Emits(kind, step) ==
    CASE kind = "send"                       -> SendKeys(step)
      [] kind = "onchain"                    -> OnChainKeys(step)
      [] kind = "open"                       -> OpenKeys(step)
      [] kind = "channel" /\ step = "detail" -> DetailKeys
      [] kind = "channel" /\ step # "detail" -> CloseKeys(step)
      [] OTHER                               -> Stay

HomeEmits == {"focusSidebar"} \cup (IF Count(section) > 0 THEN {"focusTabBar"} ELSE {})

Key(m) ==
    /\ \/ AtHome /\ m \in HomeEmits
       \/ \E i \in Slots : AtContent(i) /\ m \in Emits(tabs[i].kind, screen[i].step)
    /\ Emit(m)
    /\ UNCHANGED <<screen, calls, closing, chosen, changed>>

(***************************************************************************)
(* Messages.                                                               *)
(***************************************************************************)
FrameStep ==
    /\ Frame(Busy)
    /\ Unmounted
    /\ UNCHANGED <<calls, closing, chosen, changed>>

\* closeOnChainSendMsg, closeChannelOpenMsg, closeChannelDoneMsg
CloseOwn(i) ==
    /\ i \in closing
    /\ closing' = closing \ {i}
    /\ IF tabs[i].kind \in Guarded /\ screen[i].step = "result"
       THEN CloseScreen(i) /\ Unmounted
       ELSE UNCHANGED <<tabs, section, focus, active, memory, screen>>
    /\ UNCHANGED <<emitted, calls, chosen, changed>>

\* Mutant of Routed: only the visible section is asked.
RoutedInView(kind) == {i \in OpenIn(section) : Is(kind, i)}

\* Answers reach the open tab of their kind in any section (of these kinds
\* one at most is open), and every open channel tab.
Routed(kind) == {i \in Slots : Is(kind, i)}

\* Mutant of Decoded: the attempt of the answer is not compared.
DecodedUnowned(c, ok) ==
    LET taken == {i \in Routed(c.kind) :
                     /\ screen[i].step = "form"
                     /\ screen[i].input = screen[i].request}
    IN  /\ c.stage = "decode"
        /\ screen' = [i \in Slots |->
              IF i \in taken /\ ok
              THEN [screen[i] EXCEPT !.step = "review", !.prepared = c.details]
              ELSE screen[i]]
        /\ UNCHANGED chosen

\* A decode is accepted by the attempt it was made for, if its invoice is
\* still the one in the form.
Decoded(c, ok) ==
    LET taken == {i \in Routed(c.kind) :
                     /\ screen[i].step = "form"
                     /\ screen[i].attempt = c.attempt
                     /\ screen[i].input = screen[i].request}
    IN  /\ c.stage = "decode"
        /\ screen' = [i \in Slots |->
              IF i \in taken /\ ok
              THEN [screen[i] EXCEPT !.step = "review", !.prepared = c.details]
              ELSE screen[i]]
        /\ UNCHANGED chosen

\* Mutant of Receivers: an answer to a send whose coins are no longer selected is dropped.
ReceiversIfSelected(c) ==
    {i \in Routed(c.kind) :
        /\ screen[i].step = "submitting" /\ screen[i].attempt = c.attempt
        /\ c.kind = "onchain" => chosen = c.details}

Receivers(c) ==
    {i \in Routed(c.kind) :
        screen[i].step = "submitting" /\ screen[i].attempt = c.attempt}

\* A broadcast send clears the selection it spent, and only that one.
Answered(c, ok) ==
    /\ c.stage = "submit"
    /\ screen' = [i \in Slots |->
          IF i \in Receivers(c) THEN [screen[i] EXCEPT !.step = "result"]
                                ELSE screen[i]]
    /\ chosen' = IF c.kind = "onchain" /\ Receivers(c) # {} /\ ok /\ chosen = c.details
                 THEN {} ELSE chosen

Answer(a) ==
    /\ \E c \in calls, ok \in BOOLEAN :
          /\ c.attempt = a
          /\ calls' = calls \ {c}
          /\ Decoded(c, ok) \/ Answered(c, ok)
    /\ UNCHANGED <<tabs, section, focus, active, memory, emitted, closing, changed>>

Next ==
    \/ FrameStep
    \/ \E kind \in Kinds \ {"onchain", "webui"} :
          \E row \in IF kind \in {"payment", "channel"} THEN Rows ELSE {0} :
             OpenTab(kind, row)
    \/ "onchain" \in Kinds /\ OpenOnChainSend
    \/ \E c \in Coins : ToggleCoin(c)
    \/ \E i \in Slots :
          \/ "webui" \in Kinds /\ OpenWebUI(i)
          \/ \E invoice \in {{}} \cup {{v} : v \in Invoices} : EditInvoice(i, invoice)
          \/ SubmitInvoice(i)
          \/ CreateTransaction(i)
          \/ SubmitOpenChannel(i)
          \/ PrepareClose(i)
          \/ GoBack(i)
          \/ Confirm(i)
          \/ ClearForm(i)
          \/ LaunchClose(i)
          \/ CancelClose(i)
          \/ Done(i)
          \/ CloseOwn(i)
    \/ \E m \in Messages : Key(m)
    \/ \E a \in Attempts : Answer(a)

Spec == Init /\ [][Next]_vars

\* Every call to LND is bounded by a deadline, so its answer comes.
FairSpec == Spec /\ \A a \in Attempts : WF_vars(Answer(a))

(***************************************************************************)
(* Properties.                                                             *)
(***************************************************************************)
\* What is reviewed, and what is being submitted, was prepared for the very
\* request the form now holds: no late answer to an earlier version of the
\* form reaches the review (invoiceDecodedMsg against sendDetailsStale).
ReviewIsOwn ==
    \A i \in Slots : screen[i].step \in {"review", "submitting"} =>
        /\ screen[i].attempt # 0
        /\ screen[i].prepared = screen[i].request
        /\ Is("send", i) => screen[i].prepared = screen[i].input

\* A workflow that shows a call in progress has one, for what was reviewed,
\* whose answer will be routed to it wherever the operator is by then.
SubmittedHasAnswer ==
    \A i \in Slots : screen[i].step = "submitting" =>
        \E c \in calls : /\ c.stage = "submit"
                         /\ c.attempt = screen[i].attempt
                         /\ c.details = screen[i].prepared
                         /\ i \in Routed(c.kind)

\* While a transaction is broadcast, a channel opened or closed, its tab is
\* neither closed nor replaced, and its screen changes only by the answer to
\* its own call.
BusyKeepsItsTab ==
    [][\A i \in Busy :
          /\ tabs'[i].kind = tabs[i].kind
          /\ tabs'[i].row = tabs[i].row
          /\ screen'[i] # screen[i] =>
                \E c \in calls \ calls' : /\ c.stage = "submit"
                                         /\ c.attempt = screen[i].attempt]_vars

\* A transaction handed to LND spends the coins selected at that moment,
\* whatever was toggled since its review.
SentAsSelected ==
    [][\A c \in calls' \ calls :
          c.kind = "onchain" /\ c.stage = "submit" => c.details = chosen]_vars

\* Every workflow that submitted leaves the state in which it takes no key.
MoneyEnds ==
    \A i \in Slots : screen[i].step = "submitting"
                      ~> screen[i].step # "submitting"

Shows(kind, row) ==
    \E i \in Slots : /\ tabs'[i].kind = kind /\ tabs'[i].row = row
                     /\ tabs'[i].section = section' /\ tabs'[i].at = active'

\* Opening a channel of the list shows that channel and no other: the screen
\* it shows is where a close is launched from.
OpensTheChannel ==
    [][\A r \in Rows : OpenTab("channel", r) => Shows("channel", r)]_vars
=============================================================================
