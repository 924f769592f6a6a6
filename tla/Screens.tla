------------------------------ MODULE Screens -------------------------------
(***************************************************************************)
(* The workflow screens of the terminal UI that change the node: wallet    *)
(* creation, auto-unlock, P2P upgrade, self-update, the SSH screens and    *)
(* the Syncthing screens, over the tabs of TabBar.                         *)
(*                                                                         *)
(* A screen answers a key at once; what takes time runs in a command whose *)
(* message comes back later, and Model.Update routes it by kind of screen  *)
(* and by what the operator is looking at, never by the screen that asked. *)
(* Most screens therefore drop every key while they wait.  `calls' are the *)
(* operations under way, each with the screen that asked as its owner,     *)
(* which the code does not keep.  `node' is what is true of the machine,   *)
(* `shown' what the UI's context says of it.                               *)
(*                                                                         *)
(* What a screen asks of the frame (close my tab, focus the tab bar) is    *)
(* taken to be done before anything else happens: it needs microseconds, a *)
(* key press a finger.  The tabs run of Payments has the two in any order. *)
(***************************************************************************)
EXTENDS TabBar

CONSTANTS Menus,    \* bound: sets of kinds, of which a behaviour opens one
          MaxCalls, \* bound: operations under way at once
          Faults,   \* of "lost" and "staging", those the instance allows
          NoSlot    \* the owner of a call whose screen was closed

ASSUME ScreensAssumption ==
    /\ Menus \subseteq SUBSET Kinds
    /\ MaxCalls \in Nat
    /\ Faults \subseteq {"lost", "staging"}
    /\ NoSlot \notin Slots
    /\ "wallet" \in Kinds => "autoUnlock" \in Kinds

VARIABLES
    menu,     \* the kinds of screens this behaviour opens
    screen,   \* slot -> the screen's step, and what auto-unlock is to do
    calls,    \* operations under way, or answered and not yet delivered
    node,     \* what is true of the machine
    shown,    \* RuntimeState, ctx.Cfg and the client: what the UI believes
    polls,    \* readings of the wallet state not yet delivered
    doubt     \* settings that may have changed unheard: a change of this
              \* session was reported as failed, or another session made one

state == <<frame, screen, calls, node, shown, polls, doubt>>
vars == <<state, menu>>

NoScreen == [step |-> "none", mode |-> "none"]

\* confirm: the second question; busy: waiting or progress; failed: an error
\* the screen shows instead of its form.
Steps == {"none", "form", "confirm", "busy", "done", "failed"}

Call == [op : Kinds, stage : 1..3, owner : Slots \cup {NoSlot},
         answer : {"none", "ok", "failed", "lost", "retry", "kept"}]

Ask(i) == [op |-> tabs[i].kind, stage |-> 1, owner |-> i, answer |-> "none"]

Busy(i) == screen[i].step = "busy"

\* The pairing screen alone may be left while it waits; the device screen
\* does not even say that it waits.
Modal(kind) == kind \notin {"pair", "device"}

\* tea.ExecProcess: the event loop stands still until the shell returns.
Suspended ==
    \E c \in calls : c.op = "wallet" /\ c.stage = 2 /\ c.answer = "none"

Key == ~Suspended

TypeOK ==
    /\ FrameTypeOK
    /\ menu \in Menus
    /\ screen \in [Slots -> [step : Steps,
                             mode : {"none", "enable", "disable", "disabled"}]]
    /\ \A i \in Slots : screen[i].step = "none" <=> tabs[i].kind = "none"
    /\ calls \subseteq Call
    /\ node \in [wallet : BOOLEAN, autoUnlock : BOOLEAN,
                 mode : {"tor", "hybrid"}, addon : BOOLEAN]
    /\ shown \in [wallet : {"unknown", "no", "yes"}, client : BOOLEAN,
                  autoUnlock : BOOLEAN, mode : {"tor", "hybrid"},
                  addon : BOOLEAN]
    /\ polls \subseteq {"no", "yes"}
    /\ doubt \subseteq {"autoUnlock", "mode", "addon"}

\* The TUI starts on a configured machine; the helper's first answer about
\* the wallet may be missing.
Init ==
    /\ FrameInit
    /\ menu \in Menus
    /\ screen = [i \in Slots |-> NoScreen]
    /\ calls = {}
    /\ node \in [wallet : BOOLEAN, autoUnlock : {FALSE},
                 mode : {"tor"}, addon : {FALSE}]
    /\ \E w \in {"unknown", IF node.wallet THEN "yes" ELSE "no"} :
          shown = [wallet |-> w, client |-> w = "yes", autoUnlock |-> FALSE,
                   mode |-> "tor", addon |-> FALSE]
    /\ polls = {}
    /\ doubt = {}

(***************************************************************************)
(* Opening.  Tabs are found again by kind (SSH keys and devices by row);   *)
(* a tab that is found keeps its screen.                                   *)
(***************************************************************************)
\* NewAutoUnlockScreen decides what it will do from the context it is made in.
NewScreen(kind) ==
    [step |-> "form",
     mode |-> IF kind # "autoUnlock" THEN "none"
              ELSE IF shown.autoUnlock THEN "disable" ELSE "enable"]

WalletOffered(kind) ==
    /\ kind = "wallet"
    /\ AtHome /\ section \in {"wallet", "onchain", "channels"}
    /\ shown.wallet = "no"

SystemHomeOpens(kind) ==
    /\ AtHome /\ section = "system"
    /\ \/ kind = "p2p" /\ shown.mode = "tor"
       \/ kind = "autoUnlock" /\ shown.wallet = "yes"
       \/ kind \in {"sshKeys", "update"}

AddonsHomeOpens(kind) ==
    /\ AtHome /\ section = "addons"
    /\ IF shown.addon THEN kind = "syncthing"
                      ELSE kind = "install" /\ shown.wallet = "yes"

From(parent) == \E i \in Slots : AtContent(i) /\ tabs[i].kind = parent

SSHKeysOpens(kind) ==
    From("sshKeys") /\ kind \in {"sshAdd", "sshKey", "pwAuth", "password"}

SyncthingOpens(kind) == From("syncthing") /\ kind \in {"pair", "device"}

NewSlot == CHOOSE i \in Slots : tabs[i].kind = "none"

Open(kind, row) ==
    /\ Key
    /\ \/ WalletOffered(kind)
       \/ SystemHomeOpens(kind)
       \/ AddonsHomeOpens(kind)
       \/ SSHKeysOpens(kind)
       \/ SyncthingOpens(kind)
    /\ row = 0 <=> kind \notin {"sshKey", "device"}
    /\ IF Same(kind, row) # {}
       THEN Reuse(First(Same(kind, row)), OpenFocus(kind))
            /\ UNCHANGED screen
       ELSE /\ \E i \in Slots : tabs[i].kind = "none"
            /\ Append(NewSlot, kind, row)
            /\ screen' = [screen EXCEPT ![NewSlot] = NewScreen(kind)]
    /\ UNCHANGED <<calls, node, shown, polls, doubt>>

(***************************************************************************)
(* Keys of the screens.                                                    *)
(***************************************************************************)
On(i, kind) == Key /\ AtContent(i) /\ tabs[i].kind = kind

Move(i, from, to) ==
    /\ screen[i].step = from
    /\ screen' = [screen EXCEPT ![i].step = to]
    /\ UNCHANGED <<frame, calls, node, shown, polls, doubt>>

Begin(i) ==
    /\ Cardinality(calls) < MaxCalls
    /\ calls' = calls \cup {Ask(i)}

\* The form is complete, or the last question confirmed.
Submit(i, from) ==
    /\ screen[i].step = from
    /\ screen' = [screen EXCEPT ![i].step = "busy"]
    /\ Begin(i)
    /\ UNCHANGED <<frame, node, shown, polls, doubt>>

Confirmed(i) ==
    \/ Move(i, "form", "confirm")
    \/ Move(i, "confirm", "form")

PasswordKeys(i) == On(i, "password") /\ Submit(i, "form")

KeyAddKeys(i) == On(i, "sshAdd") /\ Submit(i, "form")

KeyDetailKeys(i) ==
    On(i, "sshKey") /\ (Confirmed(i) \/ Submit(i, "confirm"))

PasswordAuthKeys(i) ==
    On(i, "pwAuth") /\ (Confirmed(i) \/ Submit(i, "confirm"))

P2PKeys(i) == On(i, "p2p") /\ (Confirmed(i) \/ Submit(i, "confirm"))

UpdateKeys(i) == On(i, "update") /\ Submit(i, "form")

InstallKeys(i) == On(i, "install") /\ Submit(i, "form")

\* Proceed asks again whether there is a wallet.
WalletKeys(i) ==
    /\ On(i, "wallet")
    /\ IF shown.wallet = "no" THEN Submit(i, "form")
                              ELSE Move(i, "form", "failed")

\* After a successful disabling the same screen offers to enable again.
AutoUnlockKeys(i) ==
    /\ On(i, "autoUnlock")
    /\ \/ Submit(i, "form")
       \/ /\ screen[i] = [step |-> "done", mode |-> "disabled"]
          /\ screen' = [screen EXCEPT ![i] = [step |-> "form",
                                              mode |-> "enable"]]
          /\ UNCHANGED <<frame, calls, node, shown, polls, doubt>>

PairKeys(i) == On(i, "pair") /\ Submit(i, "form")

\* Remove leaves the question on the screen: it may be answered again.
DeviceKeys(i) ==
    /\ On(i, "device")
    /\ \/ Confirmed(i)
       \/ /\ screen[i].step = "confirm"
          /\ Begin(i)
          /\ UNCHANGED <<frame, screen, node, shown, polls, doubt>>

\* What the keys of a screen may emit.  Lists have no Cancel button.
Exits(i) ==
    IF Busy(i)
    THEN IF Modal(tabs[i].kind) THEN {} ELSE {"focusSidebar", "focusTabBar"}
    ELSE IF screen[i].step = "confirm" THEN {"focusSidebar", "focusTabBar"}
    ELSE IF tabs[i].kind \in {"sshKeys", "syncthing"} THEN Messages \ {"closeTab"}
    ELSE Messages

\* A closed tab takes its screen with it and leaves its calls behind.
Forgotten(c) ==
    IF c.owner # NoSlot /\ tabs'[c.owner].kind = "none"
    THEN [c EXCEPT !.owner = NoSlot] ELSE c

Kept(remaining) ==
    /\ screen' = [i \in Slots |->
                     IF tabs'[i].kind = "none" THEN NoScreen ELSE screen[i]]
    /\ calls' = {Forgotten(c) : c \in remaining}

ScreenEmits(i) ==
    /\ Key /\ AtContent(i)
    /\ \/ "closeTab" \in Exits(i) /\ CloseActive({})
       \/ "focusSidebar" \in Exits(i) /\ ToSidebar
       \/ "focusTabBar" \in Exits(i) /\ ToTabBar
       \/ "focusParent" \in Exits(i) /\ ToParent
    /\ Kept(calls)
    /\ UNCHANGED <<emitted, node, shown, polls, doubt>>

HomeEmits ==
    /\ Key /\ AtHome
    /\ ToSidebar \/ (Count(section) > 0 /\ ToTabBar)
    /\ UNCHANGED <<emitted, screen, calls, node, shown, polls, doubt>>

ScreenKeys(i) ==
    \/ PasswordKeys(i) \/ KeyAddKeys(i) \/ KeyDetailKeys(i)
    \/ PasswordAuthKeys(i) \/ P2PKeys(i) \/ UpdateKeys(i) \/ InstallKeys(i)
    \/ WalletKeys(i) \/ AutoUnlockKeys(i) \/ PairKeys(i) \/ DeviceKeys(i)
    \/ ScreenEmits(i)

FrameKeys ==
    /\ Key
    /\ \/ SidebarUp
       \/ \E s \in Sections : SidebarEnter(s)
       \/ TabBarEnter
       \/ TabBarLeft
       \/ TabBarRight
       \/ TabBarClose({})
    /\ Kept(calls)
    /\ UNCHANGED <<node, shown, polls, doubt>>

(***************************************************************************)
(* The operations, on the other side of the helper's socket.  `lost' is an *)
(* operation that was done and is reported as an error.                    *)
(***************************************************************************)
Answers(c) ==
    {"ok", "failed"} \cup
    CASE c.op = "autoUnlock" -> {"retry", "kept", "lost"} \cap
                                (Faults \cup {"retry", "kept"})
      [] c.op \in {"p2p", "install"} /\ c.stage = 1 -> {"lost"} \cap Faults
      [] OTHER -> {}

Setting(c) ==
    CASE c.op = "p2p" -> "mode" [] c.op = "install" -> "addon"
      [] c.op = "autoUnlock" -> "autoUnlock" [] OTHER -> "none"

Enables(c) == c.owner = NoSlot \/ screen[c.owner].mode = "enable"

\* What the operation does to the machine if it is done.
Effect(c) ==
    CASE c.op = "p2p" /\ c.stage = 1     -> [node EXCEPT !.mode = "hybrid"]
      [] c.op = "install" /\ c.stage = 1 -> [node EXCEPT !.addon = TRUE]
      [] c.op = "autoUnlock" -> [node EXCEPT !.autoUnlock = Enables(c)]
      [] c.op = "wallet" /\ c.stage = 2  -> [node EXCEPT !.wallet = TRUE]
      [] OTHER                           -> node

\* Mutant of Reloaded: the context keeps the configuration it was made with.
ReloadedNever == UNCHANGED <<shown, doubt>>

\* reloadSystemConfig replaces the whole configuration of the context.  What
\* an outcome of auto-unlock still on its way says may be older.
Reloaded ==
    /\ shown' = [shown EXCEPT !.mode = node.mode, !.addon = node.addon,
                              !.autoUnlock = node.autoUnlock]
    /\ doubt' = {s \in doubt : s = "autoUnlock" /\ \E c \in calls : c.op = s}

\* The last step of an installation, after the helper has made the change.
Reloads(c) == c.op \in {"p2p", "install"} /\ c.stage = 2

Possible(c, a) ==
    /\ c.op = "p2p" /\ c.stage = 1 /\ node.mode = "hybrid" => a = "failed"
    /\ c.op = "install" /\ c.stage = 1 /\ node.addon => a = "failed"
    /\ a = "retry" => Enables(c)
    /\ a = "kept" => ~Enables(c) /\ node.autoUnlock
    /\ c.op = "wallet" /\ c.stage = 2 /\ node.wallet => a = "failed"
    /\ c.op = "wallet" /\ c.stage = 3 /\ a = "failed" => "staging" \in Faults

\* An outcome of auto-unlock says how the setting is now.
Doubtful(c, a) ==
    CASE a = "lost" \/ Reloads(c) -> doubt \cup {Setting(c)}
      [] c.op = "autoUnlock" /\ a \in {"ok", "kept"} -> doubt \ {"autoUnlock"}
      [] OTHER -> doubt

Perform(c) ==
    /\ c.answer = "none"
    /\ \E a \in Answers(c) :
          /\ Possible(c, a)
          /\ calls' = (calls \ {c}) \cup {[c EXCEPT !.answer = a]}
          /\ node' = IF a \in {"ok", "lost"} THEN Effect(c) ELSE node
          /\ IF Reloads(c) /\ a = "ok"
             THEN Reloaded
             ELSE doubt' = Doubtful(c, a) /\ UNCHANGED shown
    /\ UNCHANGED <<frame, screen, polls>>

\* Another session of the operator creates the wallet.
CreatedElsewhere ==
    /\ ~node.wallet
    /\ node' = [node EXCEPT !.wallet = TRUE]
    /\ UNCHANGED <<frame, screen, calls, shown, polls, doubt>>

\* Another session changes a setting.  Nothing tells this one: it goes on
\* with the configuration it read last.
ChangedElsewhere(s) ==
    /\ CASE s = "autoUnlock" -> /\ node.wallet
                                /\ node' = [node EXCEPT !.autoUnlock = ~@]
         [] s = "mode"       -> /\ node.mode = "tor"
                                /\ node' = [node EXCEPT !.mode = "hybrid"]
         [] s = "addon"      -> /\ ~node.addon
                                /\ node' = [node EXCEPT !.addon = TRUE]
    /\ doubt' = doubt \cup {s}
    /\ UNCHANGED <<frame, screen, calls, shown, polls>>

(***************************************************************************)
(* Routing: routeToScreen, dispatchToTab, dispatchToFirstTab.              *)
(***************************************************************************)
\* Mutant of Shown: workflows are looked for in every section.
ShownEverywhere(kinds) == {i \in Slots : tabs[i].kind \in kinds}

Shown(kinds) == {i \in OpenIn(section) : tabs[i].kind \in kinds}

\* The steps of an installation name no screen: the first kind that is open.
Wanted(op) ==
    IF op \notin {"install", "p2p", "update"} THEN {op}
    ELSE IF Shown({"install"}) # {} THEN {"install"}
    ELSE IF Shown({"p2p"}) # {} THEN {"p2p"} ELSE {"update"}

Routed(op) ==
    {i \in Shown(Wanted(op)) : \A j \in Shown(Wanted(op)) :
                                  tabs[i].at <= tabs[j].at}

Taking(c) ==
    /\ ~Suspended
    /\ c.answer # "none"

Delivered(c, i, step) ==
    /\ screen' = [screen EXCEPT ![i].step = step]
    /\ calls' = calls \ {c}
    /\ UNCHANGED <<frame, node, shown, polls, doubt>>

Continued(c, stage) ==
    /\ calls' = (calls \ {c})
                \cup {[c EXCEPT !.stage = stage, !.answer = "none"]}
    /\ UNCHANGED <<frame, screen, node, shown, polls, doubt>>

\* No screen of the kind in the section the operator looks at.
Unrouted(c) ==
    /\ Taking(c)
    /\ Routed(c.op) = {}
    /\ ~(c.op = "wallet" /\ c.stage = 3 /\ c.answer = "ok")
    /\ calls' = calls \ {c}
    /\ UNCHANGED <<frame, screen, node, shown, polls, doubt>>

\* Password, key to add, password authentication: the result, whatever step
\* the screen is at.
Settled(c, i) ==
    /\ c.op \in {"password", "sshAdd", "pwAuth"}
    /\ Delivered(c, i, "done")

\* A removal that succeeded asks for the active tab to be closed.
Removed(c, i) ==
    /\ c.op \in {"sshKey", "device"}
    /\ IF c.answer = "ok"
       THEN /\ CloseActive({})
            /\ Kept(calls \ {c})
            /\ UNCHANGED <<emitted, node, shown, polls, doubt>>
       ELSE Delivered(c, i, "form")

Paired(c, i) ==
    /\ c.op = "pair"
    /\ Delivered(c, i, IF c.answer = "ok" THEN "done" ELSE "form")

\* Mutant of AutoUnlockDone: an attempt that may be repeated is not noticed.
AutoUnlockDoneOrNot(c, i) ==
    /\ c.op = "autoUnlock"
    /\ c.answer = "retry"
    /\ Delivered(c, i, screen[i].step)

\* Only the screen that hears the outcome writes it into the context.
AutoUnlockDone(c, i) ==
    /\ c.op = "autoUnlock"
    /\ IF c.answer \in {"ok", "kept"}
       THEN LET enables == Enables(c) \/ c.answer = "kept"
            IN  /\ screen' = [screen EXCEPT ![i].step = "done",
                     ![i].mode = IF enables THEN @ ELSE "disabled"]
                /\ shown' = [shown EXCEPT !.autoUnlock = enables]
                /\ calls' = calls \ {c}
                /\ UNCHANGED <<frame, node, polls, doubt>>
       ELSE Delivered(c, i, IF c.answer = "retry" THEN "form" ELSE "failed")

\* A progress screen starts the next step when it hears that one is done.
Progress(c, i) ==
    /\ c.op \in {"p2p", "install", "update"}
    /\ IF ~Busy(i) THEN Delivered(c, i, screen[i].step)
       ELSE IF c.answer = "ok" /\ c.stage = 1 /\ tabs[i].kind # "update"
            THEN Continued(c, 2)
            ELSE Delivered(c, i, "done")

\* LND ready, then the shell, then the credentials; the failure of the last
\* has a handler in the screen and no route to it.
WalletAnswer(c, i) ==
    /\ c.op = "wallet"
    /\ CASE c.stage < 3 /\ c.answer = "ok" -> Continued(c, c.stage + 1)
         [] c.stage < 3 /\ c.answer # "ok" -> Delivered(c, i, "failed")
         [] c.stage = 3 -> c.answer # "ok" /\ Delivered(c, i, screen[i].step)

Answered(c) ==
    /\ Taking(c)
    /\ \E i \in Routed(c.op) :
          \/ Settled(c, i)
          \/ Removed(c, i)
          \/ Paired(c, i)
          \/ AutoUnlockDone(c, i)
          \/ Progress(c, i)
          \/ WalletAnswer(c, i)

\* The end of the ceremony: the first wallet tab of m.tabs becomes the
\* auto-unlock tab.  The order of m.tabs across sections is not kept here.
WalletCreated(c) ==
    LET first(s) == {i \in OpenIn(s) : tabs[i].kind = "wallet"}
        change(i) ==
          /\ tabs' = [tabs EXCEPT ![i].kind = "autoUnlock"]
          /\ screen' = [screen EXCEPT ![i] = NewScreen("autoUnlock")]
    IN  /\ Taking(c)
        /\ c.op = "wallet" /\ c.stage = 3 /\ c.answer = "ok"
        /\ shown' = [shown EXCEPT !.wallet = "yes", !.client = TRUE]
        /\ IF \A s \in Sections : first(s) = {}
           THEN UNCHANGED <<tabs, screen>>
           ELSE \E s \in Sections : first(s) # {} /\ change(First(first(s)))
        /\ calls' = calls \ {c}
        /\ UNCHANGED <<section, focus, active, memory, emitted, node, polls,
                       doubt>>

(***************************************************************************)
(* The tick reads the wallet state; a reading may be delivered late.  One  *)
(* that only repeats the wallet already shown is left out.                 *)
(***************************************************************************)
Reading == IF node.wallet THEN "yes" ELSE "no"

Poll ==
    /\ ~Suspended
    /\ ~(node.wallet /\ shown.wallet = "yes" /\ shown.client)
    /\ polls' = polls \cup {Reading}
    /\ UNCHANGED <<frame, screen, calls, node, shown, doubt>>

PollFails ==
    /\ ~Suspended
    /\ shown' = [shown EXCEPT !.wallet = "unknown"]
    /\ UNCHANGED <<frame, screen, calls, node, polls, doubt>>

\* Mutant of Heard: the client is made for a wallet that was unknown.
HeardOnce(v) ==
    shown' = [shown EXCEPT !.wallet = v,
                 !.client = @ \/ (v = "yes" /\ shown.wallet = "unknown")]

Heard(v) ==
    shown' = [shown EXCEPT !.wallet = v, !.client = @ \/ v = "yes"]

PollDelivered(v) ==
    /\ ~Suspended
    /\ v \in polls
    /\ Heard(v)
    /\ polls' = polls \ {v}
    /\ UNCHANGED <<frame, screen, calls, node, doubt>>

Next ==
    /\ UNCHANGED menu
    /\ \/ \E kind \in menu, row \in Rows \cup {0} : Open(kind, row)
       \/ \E i \in Slots : ScreenKeys(i)
       \/ HomeEmits
       \/ FrameKeys
       \/ \E c \in calls : Perform(c) \/ Unrouted(c) \/ Answered(c)
                           \/ WalletCreated(c)
       \/ CreatedElsewhere
       \/ \E s \in {"autoUnlock", "mode", "addon"} : ChangedElsewhere(s)
       \/ Poll \/ PollFails
       \/ \E v \in {"no", "yes"} : PollDelivered(v)

(***************************************************************************)
(* Fairness: commands end and their messages are delivered (both run in    *)
(* goroutines of the program; Helper shows that requests end), and the     *)
(* tick reads again and again, also with success.  No key is ever owed.    *)
(***************************************************************************)
Fairness ==
    /\ \A op \in Kinds :
          /\ WF_state(\E c \in calls : c.op = op /\ Perform(c))
          /\ WF_state(\E c \in calls : c.op = op /\
                        (Unrouted(c) \/ Answered(c) \/ WalletCreated(c)))
    /\ SF_state(Poll)
    /\ SF_state(PollDelivered("yes"))

Spec == Init /\ [][Next]_vars /\ Fairness

(***************************************************************************)
(* Properties.                                                             *)
(***************************************************************************)
\* The operator looks at the screen that asked, and it waits.
Awaited(c) ==
    AtContent(c.owner) /\ Busy(c.owner) /\ tabs[c.owner].kind = c.op

\* Tabs that an answer for the screen in slot i may find before it: one of its
\* kind in its section (a second SSH key), and at the end of the ceremony a
\* wallet tab of any section, or what such a tab was turned into.
Rivals(i) ==
    {j \in Slots \ {i} :
        \/ tabs[j].kind = tabs[i].kind /\ tabs[j].section = tabs[i].section
        \/ /\ tabs[i].kind = "wallet" /\ tabs[j].section # "system"
           /\ tabs[j].kind \in {"wallet", "autoUnlock"}}

\* A P2P tab takes the steps of a self-update.
Alone(c) == Rivals(c.owner) = {} /\ (c.op = "update" => Shown({"p2p"}) = {})

\* With both settings of an installation shown, an install tab may be closed
\* while it waits: the removal of a device closes the active tab, whichever it
\* is.  The messages of the closed one go to the installation that runs next.
AllSet == shown.addon /\ shown.mode = "hybrid"
Closable(c) == c.op \in {"install", "p2p", "update"} /\ AllSet

Onward(c) == [c EXCEPT !.stage = c.stage + 1, !.answer = "none"]

\* "Deliver to the screen that started the work" (dispatchToTab): the screen
\* that asked still waits and is looked at when its answer comes, and unless a
\* rival is open the answer ends its waiting, or starts the next stage of its
\* work, and changes no other screen.  The failure to stage the credentials,
\* which has a handler and no route, is the exception.
AnswersReachTheirScreen ==
    [][\A c \in calls : c.answer # "none" /\ c \notin calls' /\ Modal(c.op)
          => /\ Awaited(c) \/ Closable(c)
             /\ Awaited(c) /\ Alone(c) =>
                  /\ \/ ~Busy(c.owner)'
                     \/ Onward(c) \in calls'
                     \/ c.op = "wallet" /\ c.stage = 3 /\ c.answer # "ok"
                  /\ \A i \in Slots \ {c.owner} : screen'[i] = screen[i]]_vars

\* The context is right where this session could know.  A setting is shown as
\* it is unless an operation on it is out, or, since the configuration was last
\* read, a change was made that was reported as failed or another session made.
ShownIsTrue ==
    \A s \in {"autoUnlock", "mode", "addon"} :
        shown[s] # node[s] =>
            s \in doubt \/ \E c \in calls : Setting(c) = s

\* A screen that drops every key hears its answer: the operator is not left
\* before a screen that never answers again.  With a rival open he may be.
BusyScreensEnd ==
    \A i \in Slots :
        Busy(i) /\ Modal(tabs[i].kind) /\ Rivals(i) = {} ~> ~Busy(i)

\* A wallet, however it was created, is noticed, and then there is a client.
WalletIsNoticed == node.wallet ~> shown.wallet = "yes" /\ shown.client
=============================================================================
