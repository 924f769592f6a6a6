------------------------------- MODULE TabBar -------------------------------
(***************************************************************************)
(* The frame of the terminal UI (internal/tui): five sections, each with a *)
(* home screen and the detail tabs opened from it, one active tab, and the *)
(* keyboard focus.  Model.Update handles one key or message at a time.  A  *)
(* screen never changes the frame itself: it returns a command whose       *)
(* message ("close the active tab", "focus the tab bar") is delivered by   *)
(* another goroutine, so keys may be handled in between.  `emitted' counts *)
(* those messages, and they arrive in any order.                           *)
(*                                                                         *)
(* A tab lives in a slot, which stands for the pointer to its screen.  Its *)
(* field `at' is its index among the tabs of its section, which is what    *)
(* activeTab and sectionFocus hold; index 0 is the section's home.  The    *)
(* message that opens a tab is taken to be handled before the next key.    *)
(*                                                                         *)
(* This module has no specification of its own: Payments adds the screens. *)
(***************************************************************************)
EXTENDS Naturals, FiniteSets

CONSTANTS Slots,      \* screens that may be open at once
          Sections,   \* sections of the sidebar the instance visits
          Kinds,      \* kinds of tab the instance opens
          Rows,       \* identities of channels, and rows of the payment list
          MaxEmitted  \* bound: messages of screens in flight at once

ASSUME FrameAssumption ==
    /\ IsFiniteSet(Slots)
    /\ "channels" \in Sections
    /\ "none" \notin Kinds \cup Sections /\ "main" \notin Kinds
    /\ Rows \subseteq Nat
    /\ MaxEmitted \in Nat

VARIABLES
    tabs,     \* Model.tabs: slot -> [kind, section, row, at]
    section,  \* nav.ActiveSection()
    focus,    \* which of the sidebar, the tab bar and the content has it
    active,   \* activeTab
    memory,   \* sectionFocus: the last index remembered for each section
    emitted   \* messages of the screens not yet handled, by type

frame == <<tabs, section, focus, active, memory, emitted>>

Messages == {"closeTab", "focusSidebar", "focusTabBar", "focusParent"}

\* The section whose home opens the kind, and the kind of tab that owns it
\* ("main": the section's home).
HomeOf(kind) ==
    CASE kind \in {"send", "payment"}      -> "wallet"
      [] kind = "onchain"                  -> "onchain"
      [] kind \in {"open", "channel"}      -> "channels"
      [] kind \in {"syncthing", "webui"}   -> "addons"

ParentOf(kind) ==
    CASE kind \in {"webui", "pair", "device"}                -> "syncthing"
      [] kind \in {"sshAdd", "sshKey", "pwAuth", "password"} -> "sshKeys"
      [] OTHER                                               -> "main"

NoTab == [kind |-> "none", section |-> "none", row |-> 0, at |-> 0]

OpenIn(s) == {i \in Slots : tabs[i].kind # "none" /\ tabs[i].section = s}
Count(s) == Cardinality(OpenIn(s))

TabAt(s, n) == CHOOSE i \in OpenIn(s) : tabs[i].at = n

AtHome == focus = "content" /\ active = 0
AtContent(i) ==
    focus = "content" /\ i \in OpenIn(section) /\ tabs[i].at = active

FrameTypeOK ==
    /\ tabs \in [Slots -> [kind : Kinds \cup {"none"},
                           section : Sections \cup {"none"},
                           row : Rows \cup {0}, at : 0..Cardinality(Slots)]]
    /\ section \in Sections
    /\ focus \in {"sidebar", "tabbar", "content"}
    /\ active \in 0..Cardinality(Slots)
    /\ memory \in [Sections -> 0..Cardinality(Slots)]
    /\ emitted \in [Messages -> 0..MaxEmitted]

FrameInit ==
    /\ tabs = [i \in Slots |-> NoTab]
    /\ section = "channels"
    /\ focus = "sidebar"
    /\ active = 0
    /\ memory = [s \in Sections |-> 0]
    /\ emitted = [m \in Messages |-> 0]

(***************************************************************************)
(* Remembering and restoring the position in a section.                    *)
(***************************************************************************)
Remembered ==
    IF active > 0 THEN [memory EXCEPT ![section] = active] ELSE memory

Restored(fallback) ==
    IF memory[section] \in 1..Count(section) THEN memory[section]
                                             ELSE fallback

(***************************************************************************)
(* Opening: openTabMsg.  A tab of the same kind in the section is reused:  *)
(* a channel by its funding outpoint, a row by its index if that is not 0, *)
(* anything else by its kind alone.                                        *)
(***************************************************************************)
\* Mutant of Same: a channel is looked for by its row like the others.
SameByIndex(kind, row) ==
    {i \in OpenIn(section) :
        tabs[i].kind = kind /\ (row # 0 => tabs[i].row = row)}

Same(kind, row) ==
    {i \in OpenIn(section) :
        /\ tabs[i].kind = kind
        /\ kind = "channel" \/ row # 0 => tabs[i].row = row}

First(S) == CHOOSE i \in S : \A j \in S : tabs[i].at <= tabs[j].at

\* Details of a payment open with the focus on the tab bar, the others with
\* the focus on their content.
OpenFocus(kind) == IF kind = "payment" THEN "tabbar" ELSE "content"

Append(i, kind, row) ==
    /\ tabs' = [tabs EXCEPT ![i] = [kind |-> kind, section |-> section,
                                    row |-> row, at |-> Count(section) + 1]]
    /\ active' = Count(section) + 1
    /\ memory' = [memory EXCEPT ![section] = Count(section) + 1]
    /\ focus' = OpenFocus(kind)
    /\ UNCHANGED <<section, emitted>>

Reuse(i, focused) ==
    /\ active' = tabs[i].at
    /\ memory' = [memory EXCEPT ![section] = tabs[i].at]
    /\ focus' = focused
    /\ UNCHANGED <<tabs, section, emitted>>

(***************************************************************************)
(* Closing.  Children go with their parent; the tab that takes the closed  *)
(* one's place becomes active, and the section's memory follows it.        *)
(***************************************************************************)
Doomed(i) ==
    {j \in OpenIn(tabs[i].section) :
        \/ tabs[j].kind = tabs[i].kind /\ tabs[j].row = tabs[i].row
        \/ ParentOf(tabs[j].kind) = tabs[i].kind}

Without(D) ==
    [j \in Slots |->
        IF j \in D THEN NoTab
        ELSE [tabs[j] EXCEPT !.at = @ - Cardinality(
                {d \in D : /\ tabs[d].section = tabs[j].section
                           /\ tabs[d].at < tabs[j].at})]]

\* Mutant of Landing: the closed index is kept although it may be past the end.
LandingUnclamped(at, left) == at

Landing(at, left) == IF at <= left THEN at ELSE left

Close(i) ==
    LET left == Cardinality(OpenIn(section) \ Doomed(i))
    IN  /\ tabs' = Without(Doomed(i))
        /\ active' = Landing(tabs[i].at, left)
        /\ focus' = IF left > 0 THEN "tabbar" ELSE "content"
        /\ memory' = [memory EXCEPT ![section] = Landing(tabs[i].at, left)]
        /\ UNCHANGED section

\* Mutant of CloseScreen: the other section remembers an index that has moved.
CloseScreenKeepingMemory(i) ==
    IF tabs[i].section = section
    THEN Close(i)
    ELSE tabs' = Without({i}) /\ UNCHANGED <<memory, section, focus, active>>

\* closeScreenTab: the tab of one screen, wherever the operator is now.
CloseScreen(i) ==
    IF tabs[i].section = section
    THEN Close(i)
    ELSE /\ tabs' = Without({i})
         /\ memory' = [memory EXCEPT ![tabs[i].section] = 0]
         /\ UNCHANGED <<section, focus, active>>

(***************************************************************************)
(* Keys on the sidebar and on the tab bar.                                 *)
(***************************************************************************)
SidebarUp ==
    /\ focus = "sidebar"
    /\ Count(section) > 0
    /\ focus' = "tabbar"
    /\ active' = Restored(IF active < 1 THEN 1 ELSE active)
    /\ UNCHANGED <<tabs, section, memory, emitted>>

SidebarEnter(s) ==
    /\ focus = "sidebar"
    /\ memory' = Remembered
    /\ section' = s
    /\ focus' = "content"
    /\ active' = 0
    /\ UNCHANGED <<tabs, emitted>>

TabBarEnter ==
    /\ focus = "tabbar"
    /\ focus' = "content"
    /\ UNCHANGED <<tabs, section, active, memory, emitted>>

TabBarLeft ==
    /\ focus = "tabbar"
    /\ IF active > 1
       THEN active' = active - 1 /\ UNCHANGED <<focus, memory>>
       ELSE active' = 0 /\ focus' = "sidebar" /\ memory' = Remembered
    /\ UNCHANGED <<tabs, section, emitted>>

TabBarRight ==
    /\ focus = "tabbar"
    /\ active < Count(section)
    /\ active' = active + 1
    /\ UNCHANGED <<tabs, section, focus, memory, emitted>>

\* backspace, or Enter on the cross; `busy' are the slots that may not close
TabBarClose(busy) ==
    /\ focus = "tabbar"
    /\ IF active = 0
       THEN focus' = "sidebar" /\ UNCHANGED <<tabs, section, active, memory>>
       ELSE TabAt(section, active) \notin busy
            /\ Close(TabAt(section, active))
    /\ UNCHANGED emitted

(***************************************************************************)
(* Messages of the screens.                                                *)
(***************************************************************************)
InFlight == emitted["closeTab"] + emitted["focusSidebar"]
            + emitted["focusTabBar"] + emitted["focusParent"]

Emit(m) ==
    /\ InFlight < MaxEmitted
    /\ emitted' = [emitted EXCEPT ![m] = @ + 1]
    /\ UNCHANGED <<tabs, section, focus, active, memory>>

Taken(m) ==
    /\ emitted[m] > 0
    /\ emitted' = [emitted EXCEPT ![m] = @ - 1]

CloseActive(busy) ==
    IF active = 0 \/ TabAt(section, active) \in busy
    THEN UNCHANGED <<tabs, section, focus, active, memory>>
    ELSE Close(TabAt(section, active))

ToSidebar ==
    /\ focus' = "sidebar"
    /\ UNCHANGED <<tabs, section, active, memory>>

\* A home has no index to keep: the section's memory, or the first tab.
ToTabBar ==
    /\ focus' = "tabbar"
    /\ active' = IF active # 0 THEN active
                 ELSE Restored(IF Count(section) > 0 THEN 1 ELSE 0)
    /\ UNCHANGED <<tabs, section, memory>>

Parents ==
    IF active = 0 THEN {}
    ELSE {i \in OpenIn(section) :
             tabs[i].kind = ParentOf(tabs[TabAt(section, active)].kind)}

ToParent ==
    /\ focus' = "content"
    /\ active' = IF Parents = {} THEN 0 ELSE tabs[First(Parents)].at
    /\ UNCHANGED <<tabs, section, memory>>

CloseTabMsg(busy) == Taken("closeTab") /\ CloseActive(busy)
FocusSidebarMsg   == Taken("focusSidebar") /\ ToSidebar
FocusTabBarMsg    == Taken("focusTabBar") /\ ToTabBar
FocusParentMsg    == Taken("focusParent") /\ ToParent

Frame(busy) ==
    \/ SidebarUp
    \/ \E s \in Sections : SidebarEnter(s)
    \/ TabBarEnter
    \/ TabBarLeft
    \/ TabBarRight
    \/ TabBarClose(busy)
    \/ CloseTabMsg(busy)
    \/ FocusSidebarMsg
    \/ FocusTabBarMsg
    \/ FocusParentMsg

(***************************************************************************)
(* Properties of the frame.                                                *)
(***************************************************************************)
\* The active index, and every index a section remembers, is that of an open
\* tab: no key is ever dispatched to a tab that is gone.
TabIndexesHold ==
    /\ active # 0 => \E i \in OpenIn(section) : tabs[i].at = active
    /\ \A s \in Sections :
          memory[s] # 0 => \E i \in OpenIn(s) : tabs[i].at = memory[s]

\* What identifies a tab (kind, row, section) identifies one tab, and the
\* tabs of a section have indexes of their own: setTabScreen and closeTab,
\* which find a tab by these, never touch another.
TabsAreDistinct ==
    \A i, j \in Slots :
        i # j /\ tabs[i].kind # "none" /\ tabs[i].section = tabs[j].section
        => /\ <<tabs[i].kind, tabs[i].row>> # <<tabs[j].kind, tabs[j].row>>
           /\ tabs[i].at # tabs[j].at

\* A tab whose parent is another tab is never left open without it, so Back
\* leads where the operator came from.
ChildrenHaveParents ==
    \A i \in Slots : ParentOf(tabs[i].kind) # "main" =>
        \E j \in OpenIn(tabs[i].section) : tabs[j].kind = ParentOf(tabs[i].kind)

\* Every key reaches the tab it is meant for, and Back leads to its parent.
TabsHold == TabIndexesHold /\ TabsAreDistinct /\ ChildrenHaveParents

\* While the operator is in another section, the index a section remembers
\* stays that of the same tab or is forgotten.
MemoryKeepsItsTab ==
    [][\A s \in Sections \ {section} : \A i \in OpenIn(s) :
          tabs[i].at = memory[s] /\ memory'[s] # 0
          => tabs'[i].kind = tabs[i].kind /\ tabs'[i].at = memory'[s]]_frame
=============================================================================
