----------------------------- MODULE ScreensProofs ----------------------------
(***************************************************************************)
(* The safety properties of Screens, for any number of slots, sections,    *)
(* rows, menus, calls and faults.                                          *)
(*                                                                         *)
(* Nothing in the code ties an answer to the screen that asked.  What does *)
(* is that a screen which waits drops every key: the operator cannot leave *)
(* it, so its call is the only one of its kind out, and the screen is the  *)
(* active tab of the section looked at when the answer comes.  Waiting     *)
(* says so of the calls that hold the keyboard.  It needs the indexes of   *)
(* the tabs (Indexed), the section each kind lives in (Homes), that the    *)
(* ceremony of the wallet ends once (Ceremony), and that no device is      *)
(* removed while the add-on is installed (Installed): such a removal       *)
(* closes the active tab, whichever it is.                                 *)
(*                                                                         *)
(* With both Syncthing and a P2P upgrade in reach the last fails, but only *)
(* when there is nothing left to tell of the two settings (Loose).         *)
(* Neither theorem has conditions on the constants: where two screens of   *)
(* one kind are open the answer may go to the other, which the property of *)
(* the answers says itself (Rivals).                                       *)
(***************************************************************************)
EXTENDS Screens, FiniteSetTheorems, TLAPS

Tab == [kind : Kinds \cup {"none"}, section : Sections \cup {"none"},
        row : Rows \cup {0}, at : Int]
Modes == {"none", "enable", "disable", "disabled"}

Types ==
  /\ screen \in [Slots -> [step : Steps, mode : Modes]]
  /\ \A i \in Slots : tabs[i].kind = "none" => screen[i] = NoScreen
  /\ calls \subseteq Call
  /\ menu \in SUBSET Kinds
  /\ node \in [wallet : BOOLEAN, autoUnlock : BOOLEAN,
              mode : {"tor", "hybrid"}, addon : BOOLEAN]
  /\ shown \in [wallet : {"unknown", "no", "yes"}, client : BOOLEAN,
               autoUnlock : BOOLEAN, mode : {"tor", "hybrid"}, addon : BOOLEAN]

Placed ==
  /\ tabs \in [Slots -> Tab]
  /\ \A i \in Slots : IF tabs[i].kind = "none" THEN tabs[i].section = "none"
                                               ELSE tabs[i].section \in Sections

Indexed(s) ==
  /\ \A i \in OpenIn(s) : tabs[i].at \in 1..Count(s)
  /\ \A i, j \in OpenIn(s) : i # j =>
        /\ tabs[i].at # tabs[j].at
        /\ <<tabs[i].kind, tabs[i].row>> # <<tabs[j].kind, tabs[j].row>>

\* Where a kind of tab is opened, and which ones belong to a row of a list.
Addons == {"install", "syncthing", "pair", "device"}

AtItsHome(tab) ==
  /\ tab.kind \in menu \cup {"autoUnlock"}
  /\ tab.kind \in Addons <=> tab.section = "addons"
  /\ tab.kind = "wallet" => tab.section \in {"wallet", "onchain", "channels"}
  /\ tab.kind \notin Addons \cup {"wallet", "autoUnlock"} => tab.section = "system"
  /\ tab.row = 0 <=> tab.kind \notin {"sshKey", "device"}

Homes ==
  /\ \A i \in Slots : tabs[i].kind # "none" => AtItsHome(tabs[i])
  /\ \A c \in calls : c.op \in (menu \cup {"autoUnlock"}) \ {"sshKeys", "syncthing"}

Tabs == Placed /\ section \in Sections /\ (\A s \in Sections : Indexed(s))

Loose(c) == "device" \in menu /\ Closable(c)
Holds(c) == Modal(c.op) /\ ~Loose(c)

Asking(c, i) ==
  i \in Slots /\ AtContent(i) /\ Busy(i) /\ tabs[i].kind = c.op

Waiting ==
  /\ \A c \in calls : Holds(c) => Asking(c, c.owner)
  /\ \A c, d \in calls : Holds(c) /\ Holds(d) => c = d

\* The shell has made the wallet: the ceremony is about to turn its tab into
\* the auto-unlock tab, which it does once.
Late(c) == c.op = "wallet" /\ (c.stage = 3 \/ (c.stage = 2 /\ c.answer = "ok"))
Turned(i) == tabs[i].kind = "autoUnlock" /\ tabs[i].section # "system"

Ceremony ==
  /\ \A c \in calls : Late(c) => node.wallet
  /\ \A i \in Slots : Turned(i) => node.wallet /\ \A c \in calls : ~Late(c)

Installed ==
  /\ shown.addon => node.addon
  /\ shown.mode = "hybrid" => node.mode = "hybrid"
  /\ \A c \in calls : c.op = "p2p" /\ (c.stage # 1 \/ c.answer = "ok")
                        => node.mode = "hybrid"
  /\ \A i \in Slots : tabs[i].kind \in {"syncthing", "pair", "device"} => shown.addon
  /\ shown.addon /\ shown.mode = "tor" =>
        \A i \in Slots : tabs[i].kind = "install" => screen[i].step \in {"busy", "done"}
  /\ \A c \in calls : c.op = "device" => shown.addon
  /\ shown.mode = "tor" => \A c, d \in calls : c.op = "device" => d.op # "install"

\* The answer that will bring the setting on the screen.
Due(c) ==
  \/ /\ c.op \in {"p2p", "install"}
     /\ (c.stage = 1 /\ c.answer = "ok") \/ (c.stage = 2 /\ c.answer = "none")
  \/ c.op = "autoUnlock" /\ c.answer \in {"ok", "kept"}

Told(c) ==
  c.op = "autoUnlock" =>
    /\ c.answer = "ok" => node.autoUnlock = Enables(c)
    /\ c.answer = "kept" => node.autoUnlock

Truth ==
  /\ \A s \in {"autoUnlock", "mode", "addon"} :
        shown[s] # node[s] =>
            s \in doubt \/ \E c \in calls : Setting(c) = s /\ Due(c)
  /\ "autoUnlock" \notin doubt => \A c \in calls : Told(c)

IInv == Types /\ Tabs /\ Homes /\ Waiting /\ Ceremony /\ Installed /\ Truth

-------------------------------------------------------------------------------
(* The indexes of the tabs, as in PaymentsProofs: they hold of TabBar,     *)
(* whatever screens are in its tabs.                                       *)

LEMMA OpenIsFinite ==
  \A s : /\ IsFiniteSet(OpenIn(s)) /\ Count(s) \in Nat
         /\ \A S \in SUBSET OpenIn(s) : /\ IsFiniteSet(S) /\ Cardinality(S) \in Nat
                                        /\ Cardinality(S) <= Count(s)
<1> SUFFICES ASSUME NEW s, NEW S \in SUBSET OpenIn(s)
             PROVE  /\ IsFiniteSet(OpenIn(s)) /\ Count(s) \in Nat
                    /\ IsFiniteSet(S) /\ Cardinality(S) \in Nat
                    /\ Cardinality(S) <= Count(s)
  OBVIOUS
<1>1. IsFiniteSet(OpenIn(s))
  BY FrameAssumption, FS_Subset DEF FrameAssumption, OpenIn
<1>2. IsFiniteSet(S) /\ Cardinality(S) <= Cardinality(OpenIn(s))
  BY <1>1, FS_Subset
<1> QED BY <1>1, <1>2, FS_CardinalityType DEF Count

LEMMA IntervalSize ==
  ASSUME NEW n \in Nat
  PROVE  IsFiniteSet(1..n) /\ Cardinality(1..n) = n
<1>1. IsFiniteSet(1..n) /\ Cardinality(1..n) = IF 1 > n THEN 0 ELSE n - 1 + 1
  BY FS_Interval
<1> QED BY <1>1

(* Every index is that of a tab: as many tabs as indexes, none of them     *)
(* twice.                                                                  *)
LEMMA EveryIndexIsTaken ==
  ASSUME NEW s, Indexed(s), NEW n \in 1..Count(s)
  PROVE  \E i \in OpenIn(s) : tabs[i].at = n
<1> DEFINE f == [i \in OpenIn(s) |-> tabs[i].at]
<1>1. f \in Injection(OpenIn(s), 1..Count(s))
  BY DEF Indexed, Injection, IsInjective
<1>2. IsFiniteSet(1..Count(s)) /\ Cardinality(1..Count(s)) = Count(s)
  BY OpenIsFinite, IntervalSize
<1>3. f \in Surjection(OpenIn(s), 1..Count(s))
  BY <1>1, <1>2, FS_Injection DEF Count
<1> QED BY <1>3 DEF Surjection

(* An index counts the tabs to its left.                                   *)
LeftOf(s, i) == {j \in OpenIn(s) : tabs[j].at < tabs[i].at}

LEMMA IndexCounts ==
  ASSUME NEW s, Indexed(s), NEW i \in OpenIn(s)
  PROVE  Cardinality(LeftOf(s, i)) = tabs[i].at - 1
<1> DEFINE L == LeftOf(s, i)
           n == tabs[i].at - 1
           f == [j \in L |-> tabs[j].at]
<1>0. /\ Count(s) \in Nat /\ tabs[i].at \in 1..Count(s) /\ n \in Nat
      /\ \A j \in L : j \in OpenIn(s) /\ tabs[j].at \in 1..Count(s) /\ tabs[j].at < tabs[i].at
  BY OpenIsFinite DEF Indexed, LeftOf
<1>1. f \in Injection(L, 1..n)
  <2>1. \A j \in L : tabs[j].at \in 1..n BY <1>0
  <2>2. \A j, k \in L : tabs[j].at = tabs[k].at => j = k BY <1>0 DEF Indexed
  <2> HIDE DEF L, n
  <2> QED BY <2>1, <2>2 DEF Injection, IsInjective
<1>2. IsFiniteSet(1..n) /\ Cardinality(1..n) = n
  BY <1>0, IntervalSize
<1>3. \A m \in 1..n : \E j \in L : f[j] = m
  <2> SUFFICES ASSUME NEW m \in 1..n PROVE \E j \in L : tabs[j].at = m
    OBVIOUS
  <2>1. m \in 1..Count(s) /\ m < tabs[i].at BY <1>0
  <2>2. PICK j \in OpenIn(s) : tabs[j].at = m BY <2>1, EveryIndexIsTaken
  <2> QED BY <2>1, <2>2 DEF LeftOf
<1>4. f \in Surjection(L, 1..n)
  BY <1>1, <1>3 DEF Surjection, Injection
<1> HIDE DEF f, L, n
<1>5. Cardinality(L) = n BY <1>1, <1>2, <1>4, FS_Injection
<1> QED BY <1>5 DEF L, n

(* The leftmost of some tabs is one of them.                               *)
LEMMA FirstIsOne ==
  ASSUME NEW s, Indexed(s), NEW S \in SUBSET OpenIn(s), S # {}
  PROVE  First(S) \in S
<1> DEFINE Ats == {tabs[i].at : i \in S}
<1>1. Ats \subseteq Nat /\ Ats # {}
  BY OpenIsFinite DEF Indexed
<1>2. \E n \in Ats : \A m \in Ats : ~(<<m, n>> \in OpToRel(<, Nat))
  <2> HIDE DEF Ats
  <2> QED BY <1>1, NatLessThanWellFounded, WFMin
<1>3. \A m, n \in Nat : m < n => <<m, n>> \in OpToRel(<, Nat)
  BY DEF OpToRel
<1>4. PICK n \in Ats : \A m \in Ats : n <= m
  <2>1. PICK n \in Ats : \A m \in Ats : ~(<<m, n>> \in OpToRel(<, Nat)) BY <1>2
  <2> HIDE DEF Ats
  <2>2. ASSUME NEW m \in Ats PROVE n <= m
    <3>1. m \in Nat /\ n \in Nat BY <1>1
    <3>2. ~(<<m, n>> \in OpToRel(<, Nat)) BY <2>1
    <3>3. ~(m < n) BY <1>3, <3>1, <3>2
    <3> QED BY <3>1, <3>3
  <2> QED BY <2>2
<1>5. \E i \in S : \A j \in S : tabs[i].at <= tabs[j].at
  BY <1>4
<1> QED BY <1>5 DEF First

(* Tabs of one section are removed: the others stay, further left.         *)
TakenOut(s, D) == s \in Sections /\ D \in SUBSET OpenIn(s) /\ tabs' = Without(D)

LEMMA RemovedTabs ==
  ASSUME Placed, NEW s, NEW D, TakenOut(s, D)
  PROVE  /\ Placed'
         /\ \A j \in D : tabs'[j] = NoTab
         /\ \A j \in Slots \ D :
              /\ tabs'[j].kind = tabs[j].kind /\ tabs'[j].row = tabs[j].row
              /\ tabs'[j].section = tabs[j].section
              /\ j \notin OpenIn(s) => tabs'[j] = tabs[j]
         /\ \A j \in OpenIn(s) \ D :
              tabs'[j].at = tabs[j].at - Cardinality(LeftOf(s, j) \cap D)
         /\ OpenIn(s)' = OpenIn(s) \ D
         /\ \A t \in Sections \ {s} : OpenIn(t)' = OpenIn(t)
<1> DEFINE Before(j) == {d \in D : /\ tabs[d].section = tabs[j].section
                                   /\ tabs[d].at < tabs[j].at}
           Moved(j) == [tabs[j] EXCEPT !.at = @ - Cardinality(Before(j))]
<1>0. /\ s \in Sections /\ "none" \notin Sections /\ "none" \notin Kinds
      /\ D \subseteq Slots /\ \A d \in D : tabs[d].section = s /\ tabs[d].kind # "none"
  BY FrameAssumption DEF FrameAssumption, OpenIn, TakenOut
<1>1. tabs' = [j \in Slots |-> IF j \in D THEN NoTab ELSE Moved(j)]
  BY DEF Without, TakenOut
<1>2. ASSUME NEW j \in Slots
      PROVE  /\ Before(j) \subseteq OpenIn(s) /\ Cardinality(Before(j)) \in Nat
             /\ j \in OpenIn(s) => Before(j) = LeftOf(s, j) \cap D
             /\ j \notin OpenIn(s) => Before(j) = {}
  <2>1. Before(j) \in SUBSET OpenIn(s) BY DEF TakenOut
  <2>2. Cardinality(Before(j)) \in Nat BY <2>1, OpenIsFinite
  <2>3. j \in OpenIn(s) => Before(j) = LeftOf(s, j) \cap D
    BY <1>0 DEF LeftOf, OpenIn
  <2>4. j \notin OpenIn(s) => tabs[j].section # s
    BY <1>0 DEF OpenIn, Placed
  <2> QED BY <1>0, <2>1, <2>2, <2>3, <2>4
<1>3. ASSUME NEW j \in Slots
      PROVE  /\ Moved(j) \in Tab /\ Moved(j).kind = tabs[j].kind
             /\ Moved(j).row = tabs[j].row /\ Moved(j).section = tabs[j].section
             /\ Moved(j).at = tabs[j].at - Cardinality(Before(j))
  <2>1. tabs[j] \in Tab /\ Cardinality(Before(j)) \in Nat BY <1>2 DEF Placed
  <2> HIDE DEF Before
  <2> QED BY <2>1 DEF Tab
<1>4. ASSUME NEW j \in Slots, j \notin OpenIn(s) PROVE Moved(j) = tabs[j]
  <2>1. Before(j) = {} BY <1>2, <1>4
  <2>2. Cardinality(Before(j)) = 0 BY <2>1, FS_EmptySet
  <2>3. tabs[j] \in Tab BY DEF Placed
  <2> HIDE DEF Before
  <2>4. tabs[j].at - Cardinality(Before(j)) = tabs[j].at BY <2>2, <2>3 DEF Tab
  <2> QED BY <2>3, <2>4 DEF Tab
<1>5. NoTab \in Tab /\ NoTab.kind = "none" /\ NoTab.section = "none"
  BY DEF NoTab, Tab
<1> HIDE DEF Moved
<1>6. \A j \in D : tabs'[j] = NoTab BY <1>0, <1>1
<1>7. \A j \in Slots \ D : tabs'[j] = Moved(j) BY <1>1
<1>8. Placed' BY <1>0, <1>1, <1>3, <1>5 DEF Placed
<1>9. \A t \in Sections : OpenIn(t)' = OpenIn(t) \ D
  <2>1. /\ \A j \in D : tabs'[j].kind = "none"
        /\ \A j \in Slots \ D : /\ tabs'[j].kind = tabs[j].kind
                              /\ tabs'[j].section = tabs[j].section
    BY <1>3, <1>5, <1>6, <1>7
  <2>2. ASSUME NEW t \in Sections
        PROVE  {i \in Slots : tabs'[i].kind # "none" /\ tabs'[i].section = t}
                 = {i \in Slots : tabs[i].kind # "none" /\ tabs[i].section = t} \ D
    BY <1>0, <2>1
  <2> QED BY <2>2 DEF OpenIn
<1>10. \A t \in Sections \ {s} : OpenIn(t) \ D = OpenIn(t)
  BY <1>0 DEF OpenIn
<1>11. \A j \in OpenIn(s) \ D :
         tabs'[j].at = tabs[j].at - Cardinality(LeftOf(s, j) \cap D)
  <2> SUFFICES ASSUME NEW j \in OpenIn(s) \ D
               PROVE  tabs'[j].at = tabs[j].at - Cardinality(LeftOf(s, j) \cap D)
    OBVIOUS
  <2>1. j \in Slots BY DEF OpenIn
  <2>2. Before(j) = LeftOf(s, j) \cap D BY <1>2, <2>1
  <2>3. tabs'[j].at = tabs[j].at - Cardinality(Before(j)) BY <1>3, <1>7, <2>1
  <2> QED BY <2>2, <2>3
<1> QED BY <1>0, <1>3, <1>4, <1>6, <1>7, <1>8, <1>9, <1>10, <1>11

(* They are counted anew: an index is one more than the tabs that are left *)
(* to its left.                                                            *)
LEMMA RemovedIndexes ==
  ASSUME Placed, NEW s, NEW D, TakenOut(s, D), Indexed(s)
  PROVE  Indexed(s)'
<1> DEFINE Left(j) == LeftOf(s, j) \ D
<1>1. OpenIn(s)' = OpenIn(s) \ D BY RemovedTabs
<1>2. ASSUME NEW j \in OpenIn(s) \ D
      PROVE  tabs'[j].at = Cardinality(Left(j)) + 1
  <2>1. Cardinality(LeftOf(s, j)) = tabs[j].at - 1 BY IndexCounts
  <2>2. tabs'[j].at = tabs[j].at - Cardinality(LeftOf(s, j) \cap D) BY RemovedTabs
  <2>3. LeftOf(s, j) \in SUBSET OpenIn(s) BY DEF LeftOf
  <2>4. IsFiniteSet(LeftOf(s, j)) /\ Cardinality(LeftOf(s, j) \cap D) \in Nat
        /\ Cardinality(LeftOf(s, j)) \in Nat
    BY <2>3, OpenIsFinite
  <2>5. Cardinality(Left(j)) = Cardinality(LeftOf(s, j)) - Cardinality(LeftOf(s, j) \cap D)
    BY <2>4, FS_Difference
  <2>6. tabs[j].at \in Int BY DEF Placed, Tab, OpenIn
  <2> HIDE DEF Left
  <2> QED BY <2>1, <2>2, <2>4, <2>5, <2>6
<1>3. ASSUME NEW j \in OpenIn(s) \ D
      PROVE  /\ IsFiniteSet(Left(j)) /\ Cardinality(Left(j)) \in Nat
             /\ Cardinality(Left(j)) < Cardinality(OpenIn(s) \ D)
  <2>0. tabs[j].at \in Int BY DEF Placed, Tab, OpenIn
  <2>1. Left(j) \in SUBSET ((OpenIn(s) \ D) \ {j}) BY <2>0 DEF LeftOf
  <2>2. IsFiniteSet(OpenIn(s) \ D) /\ Cardinality(OpenIn(s) \ D) \in Nat
    BY OpenIsFinite
  <2>3. /\ IsFiniteSet((OpenIn(s) \ D) \ {j})
        /\ Cardinality((OpenIn(s) \ D) \ {j}) = Cardinality(OpenIn(s) \ D) - 1
    BY <2>2, FS_RemoveElement
  <2> HIDE DEF Left
  <2>4. IsFiniteSet(Left(j)) /\ Cardinality(Left(j)) <= Cardinality((OpenIn(s) \ D) \ {j})
    BY <2>1, <2>3, FS_Subset
  <2>5. Cardinality(Left(j)) \in Nat BY <2>4, FS_CardinalityType
  <2> QED BY <2>2, <2>3, <2>4, <2>5
<1>4. ASSUME NEW j \in OpenIn(s) \ D, NEW k \in OpenIn(s) \ D, tabs[j].at < tabs[k].at
      PROVE  tabs'[j].at < tabs'[k].at
  <2>0. tabs[j].at \in Int /\ tabs[k].at \in Int
        /\ \A l \in OpenIn(s) : tabs[l].at \in Int
    BY DEF Placed, Tab, OpenIn
  <2>1. Left(j) \cup {j} \in SUBSET Left(k) BY <1>4, <2>0 DEF LeftOf
  <2>2. j \notin Left(j) BY <2>0 DEF LeftOf
  <2>3. IsFiniteSet(Left(j)) /\ IsFiniteSet(Left(k)) /\ Cardinality(Left(j)) \in Nat
        /\ Cardinality(Left(k)) \in Nat
    BY <1>3
  <2> HIDE DEF Left
  <2>4. Cardinality(Left(j) \cup {j}) = Cardinality(Left(j)) + 1
    BY <2>2, <2>3, FS_AddElement
  <2>5. Cardinality(Left(j) \cup {j}) <= Cardinality(Left(k))
    BY <2>1, <2>3, FS_Subset
  <2>6. tabs'[j].at = Cardinality(Left(j)) + 1 /\ tabs'[k].at = Cardinality(Left(k)) + 1
    BY <1>2
  <2> QED BY <2>3, <2>4, <2>5, <2>6
<1>5. Count(s)' = Cardinality(OpenIn(s) \ D) /\ Count(s)' \in Nat
  BY <1>1, OpenIsFinite DEF Count
<1> HIDE DEF Left
<1>6. \A j \in OpenIn(s) \ D : tabs'[j].at \in 1..Count(s)'
  BY <1>2, <1>3, <1>5
<1>7. \A j, k \in OpenIn(s) \ D : j # k => tabs'[j].at # tabs'[k].at
  <2> SUFFICES ASSUME NEW j \in OpenIn(s) \ D, NEW k \in OpenIn(s) \ D, j # k
               PROVE  tabs'[j].at # tabs'[k].at
    OBVIOUS
  <2>1. tabs[j].at \in Int /\ tabs[k].at \in Int /\ tabs[j].at # tabs[k].at
    BY DEF Indexed, Placed, Tab, OpenIn
  <2>2. tabs[j].at < tabs[k].at \/ tabs[k].at < tabs[j].at BY <2>1
  <2>3. tabs'[j].at \in Int /\ tabs'[k].at \in Int BY <1>5, <1>6
  <2> QED BY <1>4, <2>2, <2>3
<1>8. \A j, k \in OpenIn(s) \ D : j # k =>
        <<tabs'[j].kind, tabs'[j].row>> # <<tabs'[k].kind, tabs'[k].row>>
  BY RemovedTabs DEF Indexed, OpenIn
<1> QED BY <1>1, <1>6, <1>7, <1>8 DEF Indexed

-------------------------------------------------------------------------------
(* What a step does to the tabs.                                           *)

LEMMA SameTabs ==
  ASSUME Tabs, UNCHANGED tabs, section' \in Sections
  PROVE  Tabs' /\ \A s : OpenIn(s)' = OpenIn(s)
<1>1. \A s : OpenIn(s)' = OpenIn(s) /\ Count(s)' = Count(s) /\ (Indexed(s)' <=> Indexed(s))
  BY DEF OpenIn, Count, Indexed
<1> QED BY <1>1 DEF Tabs, Placed

\* A tab that is left is the one it was, but for its index.
Thinned ==
  \A i \in Slots : \/ tabs'[i].kind = "none"
                   \/ /\ tabs'[i].kind = tabs[i].kind /\ tabs'[i].row = tabs[i].row
                      /\ tabs'[i].section = tabs[i].section

LEMMA RemovedKeeps ==
  ASSUME Tabs, NEW s, NEW D, TakenOut(s, D), section' \in Sections
  PROVE  Tabs' /\ Thinned
<1>1. Placed /\ (\A t \in Sections : Indexed(t)) /\ s \in Sections
  BY DEF Tabs, TakenOut
<1>2. /\ Placed' /\ OpenIn(s)' = OpenIn(s) \ D
      /\ \A t \in Sections \ {s} : OpenIn(t)' = OpenIn(t)
      /\ \A j \in D : tabs'[j] = NoTab
      /\ \A j \in Slots \ D :
           /\ tabs'[j].kind = tabs[j].kind /\ tabs'[j].row = tabs[j].row
           /\ tabs'[j].section = tabs[j].section
           /\ j \notin OpenIn(s) => tabs'[j] = tabs[j]
  BY <1>1, RemovedTabs
<1>3. \A t \in Sections \ {s} : \A j \in OpenIn(t) : tabs'[j] = tabs[j]
  <2>1. \A t \in Sections \ {s} : \A j \in OpenIn(t) : j \in Slots \ D /\ j \notin OpenIn(s)
    BY DEF OpenIn, TakenOut
  <2> QED BY <1>2, <2>1
<1>4. \A t \in Sections \ {s} : Indexed(t)'
  <2>1. \A t \in Sections \ {s} : Count(t)' = Count(t) BY <1>2 DEF Count
  <2> QED BY <1>1, <1>2, <1>3, <2>1 DEF Indexed
<1>5. Indexed(s)' BY <1>1, RemovedIndexes
<1>6. Thinned BY <1>2 DEF Thinned, NoTab
<1> QED BY <1>2, <1>4, <1>5, <1>6 DEF Tabs

\* Also when what is closed is not a tab: then nothing is.
LEMMA ClosedTabs ==
  ASSUME Tabs, NEW i, Close(i)
  PROVE  Tabs' /\ Thinned
<1>1. section' \in Sections BY DEF Close, Tabs
<1>2. \E s \in Sections : TakenOut(s, Doomed(i))
  <2>1. CASE Doomed(i) = {}
    BY <2>1 DEF TakenOut, Close, Tabs
  <2>2. CASE Doomed(i) # {}
    <3>1. PICK j \in Doomed(i) : j \in OpenIn(tabs[i].section)
      BY <2>2 DEF Doomed
    <3>2. tabs[i].section \in Sections
      BY <3>1 DEF OpenIn, Tabs, Placed
    <3> QED BY <3>2 DEF TakenOut, Close, Doomed
  <2> QED BY <2>1, <2>2
<1> QED BY <1>1, <1>2, RemovedKeeps

LEMMA UnchangedThins == UNCHANGED tabs => Thinned
  BY DEF Thinned

LEMMA AppendTabs ==
  ASSUME Tabs, NEW i \in Slots, tabs[i].kind = "none",
         NEW kind \in Kinds, NEW row \in Rows \cup {0}, Same(kind, row) = {},
         kind # "channel", Append(i, kind, row)
  PROVE  /\ Tabs'
         /\ tabs'[i].kind = kind /\ tabs'[i].row = row /\ tabs'[i].section = section
         /\ \A j \in Slots \ {i} : tabs'[j] = tabs[j]
<1> DEFINE n == Count(section) + 1
<1>0. /\ Count(section) \in Nat /\ n \in Nat /\ section \in Sections /\ section' = section
      /\ tabs \in [Slots -> Tab] /\ kind # "none" /\ "none" \notin Sections
  BY OpenIsFinite, FrameAssumption DEF FrameAssumption, Tabs, Placed, Append
<1>1. /\ tabs'[i] = [kind |-> kind, section |-> section, row |-> row, at |-> n]
      /\ \A j \in Slots \ {i} : tabs'[j] = tabs[j]
      /\ tabs' \in [Slots -> Tab]
  <2>1. [kind |-> kind, section |-> section, row |-> row, at |-> n] \in Tab
    BY <1>0 DEF Tab
  <2> QED BY <1>0, <2>1 DEF Append
<1> HIDE DEF n
<1>2. /\ tabs'[i].kind = kind /\ tabs'[i].row = row
      /\ tabs'[i].section = section /\ tabs'[i].at = n
  BY <1>1
<1>3. Placed' BY <1>0, <1>1, <1>2 DEF Tabs, Placed
<1>4. ASSUME NEW s \in Sections
      PROVE  OpenIn(s)' = IF s = section THEN OpenIn(s) \cup {i} ELSE OpenIn(s)
  BY <1>0, <1>1, <1>2 DEF OpenIn
<1>5. \A s \in Sections : i \notin OpenIn(s) BY DEF OpenIn
<1>6. ASSUME NEW s \in Sections PROVE Indexed(s)'
  <2>0. Indexed(s) BY DEF Tabs
  <2>1. CASE s # section
    <3>1. \A j \in OpenIn(s) : tabs'[j] = tabs[j] BY <1>1, <1>5 DEF OpenIn
    <3>2. Count(s)' = Count(s) BY <1>4, <2>1 DEF Count
    <3> QED BY <1>4, <2>0, <2>1, <3>1, <3>2 DEF Indexed
  <2>2. CASE s = section
    <3>1. \A j \in OpenIn(s) : tabs'[j] = tabs[j] /\ j # i /\ j \in Slots
      BY <1>1, <1>5 DEF OpenIn
    <3>2. \A j \in OpenIn(s) : tabs[j].at \in 1..Count(s) /\ tabs[j].at # n
      BY <1>0, <2>0, <2>2 DEF Indexed, n
    <3>3. \A j \in OpenIn(s) : <<tabs[j].kind, tabs[j].row>> # <<kind, row>>
      BY <2>2 DEF Same
    <3>4. \A j \in OpenIn(s) : tabs[j].at \in 1..n
      BY <1>0, <2>2, <3>2 DEF n
    <3>5. n \in 1..n BY <1>0 DEF n
    <3>6. IsFiniteSet(OpenIn(s)) BY OpenIsFinite
    <3>7. Cardinality(OpenIn(s) \cup {i}) = Cardinality(OpenIn(s)) + 1
      BY <1>5, <3>6, FS_AddElement
    <3>8. Count(s)' = n BY <1>4, <2>2, <3>7 DEF Count, n
    <3> QED BY <1>2, <1>4, <2>0, <2>2, <3>1, <3>2, <3>3, <3>4, <3>5, <3>8 DEF Indexed
  <2> QED BY <2>1, <2>2
<1> QED BY <1>0, <1>1, <1>2, <1>3, <1>6 DEF Tabs

\* A tab is given another kind, of which its section has none.
LEMMA TurnedTabs ==
  ASSUME Tabs, NEW i \in Slots, tabs[i].kind # "none", tabs[i].row = 0,
         NEW kind \in Kinds, tabs' = [tabs EXCEPT ![i].kind = kind],
         \A j \in OpenIn(tabs[i].section) : j # i => tabs[j].kind # kind,
         UNCHANGED section
  PROVE  Tabs'
<1>1. /\ tabs'[i].kind = kind /\ tabs'[i].row = 0 /\ tabs'[i].section = tabs[i].section
      /\ tabs'[i].at = tabs[i].at /\ tabs'[i] \in Tab /\ kind # "none"
      /\ \A j \in Slots \ {i} : tabs'[j] = tabs[j]
      /\ tabs' \in [Slots -> Tab]
  BY FrameAssumption DEF FrameAssumption, Tabs, Placed, Tab
<1>2. \A s : OpenIn(s)' = OpenIn(s)
  BY <1>1 DEF OpenIn
<1>3. Placed' BY <1>1 DEF Tabs, Placed
<1>4. ASSUME NEW s \in Sections PROVE Indexed(s)'
  <2>1. Count(s)' = Count(s) /\ Indexed(s) BY <1>2 DEF Count, Tabs
  <2>2. \A j \in OpenIn(s) : j \in Slots /\ tabs[j].section = s BY DEF OpenIn
  <2>3. \A j \in OpenIn(s) : tabs'[j].at \in 1..Count(s)'
    BY <1>1, <2>1, <2>2 DEF Indexed
  <2>4. ASSUME NEW j \in OpenIn(s), NEW k \in OpenIn(s), j # k
        PROVE  /\ tabs'[j].at # tabs'[k].at
               /\ <<tabs'[j].kind, tabs'[j].row>> # <<tabs'[k].kind, tabs'[k].row>>
    BY <1>1, <2>1, <2>2, <2>4 DEF Indexed
  <2> QED BY <1>2, <2>3, <2>4 DEF Indexed
<1> QED BY <1>3, <1>4 DEF Tabs

-------------------------------------------------------------------------------
(* While a call holds the keyboard its screen takes no key, so a key means *)
(* that none does.                                                         *)

LEMMA OneIsActive ==
  ASSUME Tabs, NEW i, NEW j, AtContent(i), AtContent(j)
  PROVE  i = j /\ active # 0
<1>1. section \in Sections /\ Indexed(section) BY DEF Tabs
<1>2. /\ i \in OpenIn(section) /\ j \in OpenIn(section)
      /\ tabs[i].at = active /\ tabs[j].at = active
  BY DEF AtContent
<1>3. tabs[i].at \in 1..Count(section) BY <1>1, <1>2 DEF Indexed
<1>4. Count(section) \in Nat BY OpenIsFinite
<1> QED BY <1>1, <1>2, <1>3, <1>4 DEF Indexed

LEMMA NoneHolds ==
  ASSUME IInv,
         \/ AtHome
         \/ focus # "content"
         \/ \E i : /\ AtContent(i)
                   /\ \/ ~Busy(i)
                      \/ tabs[i].kind \in {"pair", "device", "sshKeys", "syncthing"}
  PROVE  \A c \in calls : ~Holds(c)
<1> SUFFICES ASSUME NEW c \in calls, Holds(c) PROVE FALSE
  OBVIOUS
<1>1. Tabs /\ Asking(c, c.owner) /\ c.op \notin {"sshKeys", "syncthing", "pair", "device"}
  BY DEF IInv, Waiting, Homes, Holds, Modal
<1>2. AtContent(c.owner) /\ Busy(c.owner) /\ tabs[c.owner].kind = c.op
  BY <1>1 DEF Asking
<1>3. focus = "content" /\ active # 0
  BY <1>1, <1>2, OneIsActive DEF AtContent
<1>4. ASSUME NEW i, AtContent(i) PROVE i = c.owner
  BY <1>1, <1>2, <1>4, OneIsActive
<1> QED BY <1>1, <1>2, <1>3, <1>4 DEF AtHome

\* A call that does not hold the keyboard is of a device, or nothing is left
\* to tell of what it does.
LEMMA NotHolding ==
  ASSUME IInv, NEW c \in calls, ~Holds(c)
  PROVE  \/ c.op \in {"pair", "device"}
         \/ c.op \in {"install", "p2p", "update"} /\ AllSet
  BY DEF Holds, Modal, Loose, Closable

LEMMA AllSetIsTrue ==
  ASSUME IInv, AllSet
  PROVE  shown.mode = node.mode /\ shown.addon = node.addon
<1>1. shown.addon /\ node.addon /\ node.addon \in BOOLEAN /\ shown.addon \in BOOLEAN
  BY DEF IInv, Types, Installed, AllSet
<1>2. shown.mode = "hybrid" /\ node.mode = "hybrid"
  BY DEF IInv, Installed, AllSet
<1> QED BY <1>1, <1>2

LEMMA SameLoose ==
  ASSUME UNCHANGED <<shown, menu>>
  PROVE  (AllSet' <=> AllSet) /\ \A c : Holds(c)' <=> Holds(c)
  BY DEF AllSet, Holds, Loose, Closable

\* With no call holding the keyboard, only what is in doubt is shown wrongly.
LEMMA QuietTruth ==
  ASSUME IInv, \A c \in calls : ~Holds(c) \/ ~Due(c), UNCHANGED <<node, doubt>>,
         \A s \in {"autoUnlock", "mode", "addon"} : shown'[s] = shown[s],
         \A d \in calls' : d.op = "autoUnlock" => d.answer = "none"
  PROVE  Truth'
<1>1. ASSUME NEW s \in {"autoUnlock", "mode", "addon"}, shown[s] # node[s]
      PROVE  s \in doubt
  <2>1. CASE s \in doubt BY <2>1
  <2>2. ASSUME NEW c \in calls, Setting(c) = s, Due(c) PROVE FALSE
    <3>1. c.op \in {"install", "p2p"} /\ AllSet
      BY <2>2, NotHolding DEF Due
    <3>2. s \in {"mode", "addon"} BY <2>2, <3>1 DEF Setting
    <3>3. shown.mode = node.mode /\ shown.addon = node.addon
      BY <3>1, AllSetIsTrue
    <3> QED BY <1>1, <3>2, <3>3
  <2> QED BY <1>1, <2>1, <2>2 DEF IInv, Truth
<1> QED BY <1>1 DEF Truth, Told

\* The key of a screen that does not wait, or of the frame: nothing is asked,
\* and no screen of the installation is made or moved behind its back.
Descends(d) ==
  \E c \in calls : /\ ~Holds(c)
                   /\ d.op = c.op /\ d.stage = c.stage /\ d.answer = c.answer

LEMMA QuietStep ==
  ASSUME IInv, \A c \in calls : ~Holds(c) \/ ~Due(c), UNCHANGED <<node, shown, doubt, menu>>,
         Types', Tabs', Homes', \A d \in calls' : Descends(d),
         \A i \in Slots :
           /\ Turned(i)' => Turned(i)
           /\ tabs'[i].kind \in {"syncthing", "pair", "device"} => shown.addon
           /\ tabs'[i].kind = "install" =>
                ~shown.addon \/ (tabs[i].kind = "install" /\ screen'[i] = screen[i])
  PROVE  IInv'
<1>0. Types /\ Installed /\ Ceremony BY DEF IInv
<1>1. \A d \in calls' : /\ ~Holds(d)'
                        /\ d.op \in {"pair", "device", "install", "p2p", "update"}
  <2> SUFFICES ASSUME NEW d \in calls'
               PROVE  /\ ~Holds(d)'
                      /\ d.op \in {"pair", "device", "install", "p2p", "update"}
    OBVIOUS
  <2>1. PICK c \in calls : d.op = c.op /\ ~Holds(c) BY DEF Descends
  <2>2. ~Holds(c) BY <2>1
  <2>3. Holds(d) <=> Holds(c) BY <2>1 DEF Holds, Loose, Closable, Modal
  <2> QED BY <2>1, <2>2, <2>3, SameLoose, NotHolding
<1>2. Waiting' BY <1>1 DEF Waiting
<1>3. Truth' BY <1>1, QuietTruth
<1>4. Ceremony' BY <1>0, <1>1 DEF Ceremony, Late
<1>5. Installed'
  <2>1. \A d \in calls' : d.op = "p2p" /\ (d.stage # 1 \/ d.answer = "ok")
                             => node.mode = "hybrid"
    BY <1>0 DEF Installed, Descends
  <2>2. shown.addon /\ shown.mode = "tor" =>
          \A i \in Slots : tabs'[i].kind = "install" => screen'[i].step \in {"busy", "done"}
    BY <1>0 DEF Installed
  <2>3. \A d \in calls' : d.op = "device" => shown.addon
    BY <1>0 DEF Installed, Descends
  <2>4. shown.mode = "tor" => \A c, d \in calls' : c.op = "device" => d.op # "install"
    BY <1>0 DEF Installed, Descends
  <2> QED BY <1>0, <2>1, <2>2, <2>3, <2>4 DEF Installed
<1> QED BY <1>2, <1>3, <1>4, <1>5 DEF IInv

-------------------------------------------------------------------------------
(* Tabs are closed, or left.                                               *)

LEMMA ForgottenCall ==
  ASSUME NEW c \in Call
  PROVE  /\ Forgotten(c) \in Call /\ Forgotten(c).op = c.op
         /\ Forgotten(c).stage = c.stage /\ Forgotten(c).answer = c.answer
         /\ c.owner # NoSlot /\ tabs'[c.owner].kind # "none" => Forgotten(c) = c
  BY DEF Forgotten, Call

LEMMA KeptStep ==
  ASSUME IInv, Tabs', Thinned, NEW remaining \in SUBSET calls, Kept(remaining),
         UNCHANGED <<node, shown, menu>>
  PROVE  /\ Types' /\ Homes'
         /\ \A d \in calls' : \E c \in remaining :
              d.op = c.op /\ d.stage = c.stage /\ d.answer = c.answer
         /\ \A i \in Slots :
              /\ tabs'[i].kind # "none" => screen'[i] = screen[i]
              /\ tabs'[i].kind = "none" => screen'[i] = NoScreen
              /\ Turned(i)' => Turned(i)
              /\ tabs'[i].kind \in {"syncthing", "pair", "device"} => shown.addon
              /\ tabs'[i].kind = "install" => tabs[i].kind = "install"
<1>0. Types /\ Homes /\ Installed BY DEF IInv
<1>1. NoScreen \in [step : Steps, mode : Modes] BY DEF NoScreen, Steps, Modes
<1>2. screen' \in [Slots -> [step : Steps, mode : Modes]]
  BY <1>0, <1>1 DEF Types, Kept
<1>3. \A i \in Slots : /\ tabs'[i].kind # "none" => screen'[i] = screen[i]
                       /\ tabs'[i].kind = "none" => screen'[i] = NoScreen
  BY DEF Kept
<1>4. \A d \in calls' : \E c \in remaining : d = Forgotten(c) /\ c \in Call
  BY <1>0 DEF Kept, Types
<1>5. \A d \in calls' :
        /\ d \in Call
        /\ \E c \in remaining : d.op = c.op /\ d.stage = c.stage /\ d.answer = c.answer
  BY <1>4, ForgottenCall
<1>6. Types' BY <1>0, <1>2, <1>3, <1>5 DEF Types
<1>7. ASSUME NEW i \in Slots, tabs'[i].kind # "none" PROVE AtItsHome(tabs[i])'
  <2>1. /\ tabs'[i].kind = tabs[i].kind /\ tabs'[i].row = tabs[i].row
        /\ tabs'[i].section = tabs[i].section
    BY <1>7 DEF Thinned
  <2>2. AtItsHome(tabs[i]) BY <1>0, <1>7, <2>1 DEF Homes
  <2> QED BY <2>1, <2>2 DEF AtItsHome
<1>8. Homes' BY <1>0, <1>5, <1>7 DEF Homes
<1>9. ASSUME NEW i \in Slots
      PROVE  /\ Turned(i)' => Turned(i)
             /\ tabs'[i].kind \in {"syncthing", "pair", "device"} => shown.addon
             /\ tabs'[i].kind = "install" => tabs[i].kind = "install"
  BY <1>0 DEF Thinned, Turned, Installed
<1> QED BY <1>3, <1>5, <1>6, <1>8, <1>9

LEMMA KeptIsQuiet ==
  ASSUME IInv, NEW remaining \in SUBSET calls, \A c \in remaining : ~Holds(c),
         \A c \in calls \ remaining : ~Due(c), Tabs', Thinned, Kept(remaining),
         UNCHANGED <<node, shown, doubt, menu>>
  PROVE  IInv'
<1>1. \A d \in calls' : Descends(d) BY KeptStep DEF Descends
<1>2. \A c \in calls : ~Holds(c) \/ ~Due(c) OBVIOUS
<1> QED BY <1>1, <1>2, KeptStep, QuietStep

LEMMA TabsMove ==
  ASSUME Tabs, \/ SidebarUp \/ (\E s \in Sections : SidebarEnter(s)) \/ TabBarEnter
               \/ TabBarLeft \/ TabBarRight \/ TabBarClose({})
               \/ ToSidebar \/ ToTabBar \/ ToParent \/ CloseActive({})
  PROVE  Tabs' /\ Thinned
<1>1. CASE UNCHANGED tabs /\ section' \in Sections
  BY <1>1, SameTabs, UnchangedThins
<1>2. CASE \E i : Close(i)
  BY <1>2, ClosedTabs
<1>3. section \in Sections BY DEF Tabs
<1> QED BY <1>1, <1>2, <1>3 DEF SidebarUp, SidebarEnter, TabBarEnter, TabBarLeft,
           TabBarRight, TabBarClose, ToSidebar, ToTabBar, ToParent, CloseActive

LEMMA FrameKeysKeep ==
  ASSUME IInv, FrameKeys, UNCHANGED menu
  PROVE  IInv'
<1>1. focus # "content"
  BY DEF FrameKeys, SidebarUp, SidebarEnter, TabBarEnter, TabBarLeft, TabBarRight,
         TabBarClose
<1>2. Tabs' /\ Thinned BY TabsMove DEF FrameKeys, IInv
<1> QED BY <1>1, <1>2, NoneHolds, KeptIsQuiet DEF FrameKeys

LEMMA ScreenEmitsKeeps ==
  ASSUME IInv, NEW i \in Slots, ScreenEmits(i), UNCHANGED menu
  PROVE  IInv'
<1>1. AtContent(i) BY DEF ScreenEmits
<1>2. Tabs' /\ Thinned BY TabsMove DEF ScreenEmits, IInv
<1>3. ~Busy(i) \/ tabs[i].kind \in {"pair", "device"}
  BY DEF ScreenEmits, Exits, Modal
<1> QED BY <1>1, <1>2, <1>3, NoneHolds, KeptIsQuiet DEF ScreenEmits

LEMMA HomeEmitsKeeps ==
  ASSUME IInv, HomeEmits, UNCHANGED menu
  PROVE  IInv'
<1>1. Tabs' /\ Thinned BY TabsMove DEF HomeEmits, IInv
<1>2. \A c \in calls : ~Holds(c) BY NoneHolds DEF HomeEmits
<1>3. UNCHANGED tabs BY DEF HomeEmits, ToSidebar, ToTabBar
<1>4. Types' BY <1>3 DEF IInv, Types, HomeEmits
<1>5. Homes' BY <1>3 DEF IInv, Homes, AtItsHome, HomeEmits
<1>6. \A d \in calls' : Descends(d) BY <1>2 DEF HomeEmits, Descends
<1>7. \A i \in Slots : /\ Turned(i)' => Turned(i)
                       /\ tabs'[i].kind \in {"syncthing", "pair", "device"} => shown.addon
                       /\ screen'[i] = screen[i]
  BY <1>3 DEF IInv, Installed, Turned, HomeEmits
<1> QED BY <1>1, <1>2, <1>3, <1>4, <1>5, <1>6, <1>7, QuietStep DEF HomeEmits

-------------------------------------------------------------------------------
(* A tab is opened from a home, or from a list that waits for nothing.     *)

Offered(kind) ==
  \/ WalletOffered(kind)
  \/ SystemHomeOpens(kind)
  \/ AddonsHomeOpens(kind)
  \/ SSHKeysOpens(kind)
  \/ SyncthingOpens(kind)

LEMMA ParentIsHere ==
  ASSUME IInv, NEW parent \in {"sshKeys", "syncthing"}, From(parent)
  PROVE  /\ \A c \in calls : ~Holds(c)
         /\ parent = "sshKeys" => section = "system"
         /\ parent = "syncthing" => section = "addons" /\ shown.addon
<1>1. PICK i \in Slots : AtContent(i) /\ tabs[i].kind = parent
  BY DEF From
<1>2. tabs[i].section = section /\ tabs[i].kind # "none" BY <1>1 DEF AtContent, OpenIn
<1>3. AtItsHome(tabs[i]) BY <1>2 DEF IInv, Homes
<1> QED BY <1>1, <1>2, <1>3, NoneHolds DEF AtItsHome, Addons, IInv, Installed

LEMMA OfferedWhere ==
  ASSUME IInv, NEW kind, Offered(kind)
  PROVE  /\ \A c \in calls : ~Holds(c)
         /\ kind # "channel"
         /\ kind \in Addons <=> section = "addons"
         /\ kind = "wallet" => section \in {"wallet", "onchain", "channels"}
         /\ kind \notin Addons \cup {"wallet"} => section = "system"
         /\ kind \in {"syncthing", "pair", "device"} => shown.addon
         /\ kind = "install" => ~shown.addon
<1>1. CASE WalletOffered(kind)
  BY <1>1, NoneHolds DEF WalletOffered, Addons
<1>2. CASE SystemHomeOpens(kind)
  BY <1>2, NoneHolds DEF SystemHomeOpens, Addons
<1>3. CASE AddonsHomeOpens(kind)
  BY <1>3, NoneHolds DEF AddonsHomeOpens, Addons
<1>4. CASE SSHKeysOpens(kind)
  BY <1>4, ParentIsHere DEF SSHKeysOpens, Addons
<1>5. CASE SyncthingOpens(kind)
  BY <1>5, ParentIsHere DEF SyncthingOpens, Addons
<1> QED BY <1>1, <1>2, <1>3, <1>4, <1>5 DEF Offered

LEMMA OpenKeeps ==
  ASSUME IInv, NEW kind \in menu, NEW row \in Rows \cup {0}, Open(kind, row),
         UNCHANGED menu
  PROVE  IInv'
<1>0. Types /\ Tabs /\ Homes /\ Installed BY DEF IInv
<1>1. Offered(kind) /\ UNCHANGED <<calls, node, shown, doubt>>
      /\ (row = 0 <=> kind \notin {"sshKey", "device"})
  BY DEF Open, Offered
<1>2. /\ \A c \in calls : ~Holds(c)
      /\ kind # "channel"
      /\ kind \in Addons <=> section = "addons"
      /\ kind = "wallet" => section \in {"wallet", "onchain", "channels"}
      /\ kind \notin Addons \cup {"wallet"} => section = "system"
      /\ kind \in {"syncthing", "pair", "device"} => shown.addon
      /\ kind = "install" => ~shown.addon
  BY <1>1, OfferedWhere
<1>3. \A d \in calls' : Descends(d) BY <1>1, <1>2 DEF Descends
<1>4. CASE UNCHANGED <<tabs, screen, section>>
  <2>1. Types' BY <1>0, <1>1, <1>4 DEF Types
  <2>2. Homes' BY <1>0, <1>1, <1>4 DEF Homes, AtItsHome
  <2>3. Tabs' BY <1>0, <1>4, SameTabs DEF Tabs
  <2>4. \A i \in Slots :
          /\ Turned(i)' => Turned(i)
          /\ tabs'[i].kind \in {"syncthing", "pair", "device"} => shown.addon
          /\ tabs'[i].kind = "install" => tabs[i].kind = "install" /\ screen'[i] = screen[i]
    BY <1>0, <1>4 DEF Installed, Turned
  <2> QED BY <1>1, <1>2, <1>3, <2>1, <2>2, <2>3, <2>4, QuietStep
<1>5. ASSUME NEW n \in Slots, tabs[n].kind = "none", Same(kind, row) = {},
             Append(n, kind, row), screen' = [screen EXCEPT ![n] = NewScreen(kind)]
      PROVE  IInv'
  <2>0. kind \in Kinds BY <1>0 DEF Types
  <2>1. /\ Tabs'
        /\ tabs'[n].kind = kind /\ tabs'[n].row = row /\ tabs'[n].section = section
        /\ \A j \in Slots \ {n} : tabs'[j] = tabs[j]
    BY <1>0, <1>2, <1>5, <2>0, AppendTabs
  <2>2. NewScreen(kind) \in [step : Steps, mode : Modes]
    BY DEF NewScreen, Steps, Modes
  <2>3. /\ screen' \in [Slots -> [step : Steps, mode : Modes]]
        /\ \A j \in Slots \ {n} : screen'[j] = screen[j]
    BY <1>0, <1>5, <2>2 DEF Types
  <2>4. kind # "none"
    BY <2>0, FrameAssumption DEF FrameAssumption
  <2>5. Types' BY <1>0, <1>1, <2>1, <2>3, <2>4 DEF Types
  <2>6. AtItsHome(tabs[n])'
    BY <1>1, <1>2, <2>1 DEF AtItsHome, Addons
  <2>7. \A j \in Slots \ {n} : tabs'[j].kind # "none" => AtItsHome(tabs[j])'
    BY <1>0, <2>1 DEF Homes, AtItsHome
  <2>8. Homes' BY <1>0, <1>1, <2>6, <2>7 DEF Homes
  <2>9. ASSUME NEW i \in Slots
        PROVE  /\ Turned(i)' => Turned(i)
               /\ tabs'[i].kind \in {"syncthing", "pair", "device"} => shown.addon
               /\ tabs'[i].kind = "install" =>
                    ~shown.addon \/ (tabs[i].kind = "install" /\ screen'[i] = screen[i])
    <3>1. CASE i = n BY <1>2, <2>1, <3>1 DEF Turned, Addons
    <3>2. CASE i # n BY <1>0, <2>1, <2>3, <3>2 DEF Turned, Installed
    <3> QED BY <3>1, <3>2
  <2> QED BY <1>1, <1>2, <1>3, <2>1, <2>5, <2>8, <2>9, QuietStep
<1>6. CASE Same(kind, row) # {}
  BY <1>4, <1>6 DEF Open, Reuse
<1>7. CASE Same(kind, row) = {}
  <2>1. NewSlot \in Slots /\ tabs[NewSlot].kind = "none"
    BY <1>7 DEF Open, NewSlot
  <2> QED BY <1>5, <1>7, <2>1 DEF Open
<1> QED BY <1>6, <1>7

-------------------------------------------------------------------------------
(* The keys of a screen that does not wait.                                *)

LEMMA ContentIsOpen ==
  ASSUME NEW i, AtContent(i)
  PROVE  i \in Slots /\ tabs[i].kind # "none" /\ tabs[i].section = section
  BY DEF AtContent, OpenIn

LEMMA MovesKeep ==
  ASSUME IInv, NEW i \in Slots, AtContent(i), ~Busy(i), tabs[i].kind # "install",
         NEW r \in [step : Steps, mode : Modes], screen' = [screen EXCEPT ![i] = r],
         UNCHANGED <<frame, calls, node, shown, doubt, menu>>
  PROVE  IInv'
<1>0. Types /\ Tabs /\ Homes /\ Installed /\ UNCHANGED <<tabs, section>>
  BY DEF IInv, frame
<1>1. \A c \in calls : ~Holds(c) BY NoneHolds
<1>2. tabs[i].kind # "none" BY ContentIsOpen
<1>3. /\ screen' \in [Slots -> [step : Steps, mode : Modes]]
      /\ \A j \in Slots \ {i} : screen'[j] = screen[j]
  BY <1>0 DEF Types
<1>4. Types' BY <1>0, <1>2, <1>3 DEF Types
<1>5. Homes' BY <1>0 DEF Homes, AtItsHome
<1>6. Tabs' BY <1>0, SameTabs DEF Tabs
<1>7. \A d \in calls' : Descends(d) BY <1>1 DEF Descends
<1>8. \A j \in Slots :
        /\ Turned(j)' => Turned(j)
        /\ tabs'[j].kind \in {"syncthing", "pair", "device"} => shown.addon
        /\ tabs'[j].kind = "install" => tabs[j].kind = "install" /\ screen'[j] = screen[j]
  BY <1>0, <1>3 DEF Installed, Turned
<1> QED BY <1>1, <1>4, <1>5, <1>6, <1>7, <1>8, QuietStep

LEMMA MoveKeeps ==
  ASSUME IInv, NEW i \in Slots, AtContent(i), tabs[i].kind # "install",
         NEW from \in Steps \ {"busy"}, NEW to \in Steps, Move(i, from, to),
         UNCHANGED menu
  PROVE  IInv'
<1>1. screen \in [Slots -> [step : Steps, mode : Modes]] BY DEF IInv, Types
<1>2. /\ screen' = [screen EXCEPT ![i] = [screen[i] EXCEPT !.step = to]]
      /\ [screen[i] EXCEPT !.step = to] \in [step : Steps, mode : Modes]
  BY <1>1 DEF Move
<1> QED BY <1>2, MovesKeep DEF Move, Busy

LEMMA AskKeeps ==
  ASSUME IInv, NEW i \in Slots, AtContent(i), ~Busy(i),
         tabs[i].kind \notin {"sshKeys", "syncthing"},
         tabs[i].kind = "install" => screen[i].step = "form",
         calls' = calls \cup {Ask(i)},
         \/ screen' = [screen EXCEPT ![i].step = "busy"]
         \/ UNCHANGED screen /\ tabs[i].kind = "device",
         UNCHANGED <<frame, node, shown, doubt, menu>>
  PROVE  IInv'
<1> DEFINE new == Ask(i)
<1>0. Types /\ Tabs /\ Homes /\ Installed /\ Ceremony
      /\ UNCHANGED <<tabs, section, focus, active>>
  BY DEF IInv, frame
<1>1. \A c \in calls : ~Holds(c) BY NoneHolds
<1>2. /\ tabs[i].kind \in Kinds /\ tabs[i].kind # "none"
  BY <1>0, ContentIsOpen DEF Tabs, Placed, Tab
<1>3. /\ new \in Call /\ new.op = tabs[i].kind /\ new.stage = 1 /\ new.owner = i
      /\ new.answer = "none"
  BY <1>2 DEF Ask, Call
<1> HIDE DEF new
<1>4. calls' = calls \cup {new} BY DEF new
<1>5. /\ screen' \in [Slots -> [step : Steps, mode : Modes]]
      /\ \A j \in Slots \ {i} : screen'[j] = screen[j]
      /\ screen'[i].step \in Steps
      /\ tabs[i].kind # "device" => screen'[i].step = "busy"
  BY <1>0 DEF Types, Steps
<1>6. Types' BY <1>0, <1>2, <1>3, <1>4, <1>5 DEF Types
<1>7. Homes' BY <1>0, <1>2, <1>3, <1>4 DEF Homes, AtItsHome
<1>8. Tabs' BY <1>0, SameTabs DEF Tabs
<1>9. Waiting'
  <2>1. \A c : Holds(c)' <=> Holds(c) BY SameLoose
  <2>2. \A c \in calls' : Holds(c)' => c = new BY <1>1, <1>4, <2>1
  <2>3. ASSUME NEW c \in calls', Holds(c)' PROVE Asking(c, c.owner)'
    <3>1. c = new /\ c.op # "device" BY <2>2, <2>3 DEF Holds, Modal
    <3>2. AtContent(i)' BY <1>0 DEF AtContent, OpenIn
    <3>3. c.owner = i /\ c.op = tabs[i].kind BY <1>3, <3>1
    <3>4. Busy(i)' BY <1>5, <3>1, <3>3 DEF Busy
    <3> QED BY <1>0, <3>2, <3>3, <3>4 DEF Asking
  <2> QED BY <2>2, <2>3 DEF Waiting
<1>10. Ceremony'
  <2>1. \A c \in calls' : ~Late(c)
    BY <1>1, <1>3, <1>4, NotHolding DEF Late
  <2> QED BY <1>0, <2>1 DEF Ceremony, Turned
<1>11. Truth'
  <2>1. \A d \in calls' : d.op = "autoUnlock" => d.answer = "none"
    BY <1>1, <1>3, <1>4, NotHolding
  <2> QED BY <1>1, <2>1, QuietTruth
<1>12. Installed'
  <2>1. \A c \in calls' : c.op = "p2p" /\ (c.stage # 1 \/ c.answer = "ok")
                            => node.mode = "hybrid"
    BY <1>0, <1>3, <1>4 DEF Installed
  <2>2. shown.addon /\ shown.mode = "tor" =>
          \A j \in Slots : tabs[j].kind = "install" => screen'[j].step \in {"busy", "done"}
    BY <1>0, <1>5 DEF Installed
  <2>3. \A c \in calls' : c.op = "device" => shown.addon
    BY <1>0, <1>3, <1>4 DEF Installed
  <2>4. ASSUME shown.mode = "tor", NEW c \in calls', NEW d \in calls', c.op = "device",
               d.op = "install"
        PROVE  FALSE
    <3>1. d = new
      <4>1. ASSUME d \in calls PROVE FALSE
        <5>1. shown.mode = "hybrid" BY <1>1, <2>4, <4>1, NotHolding DEF AllSet
        <5> QED BY <2>4, <5>1
      <4> QED BY <1>4, <4>1
    <3>2. screen[i].step = "form" BY <1>3, <2>4, <3>1
    <3>3. ~shown.addon BY <1>0, <1>3, <2>4, <3>1, <3>2 DEF Installed
    <3> QED BY <2>3, <2>4, <3>3
  <2> QED BY <1>0, <2>1, <2>2, <2>3, <2>4 DEF Installed
<1> QED BY <1>6, <1>7, <1>8, <1>9, <1>10, <1>11, <1>12 DEF IInv

LEMMA SubmitKeeps ==
  ASSUME IInv, NEW i \in Slots, NEW kind, kind \notin {"sshKeys", "syncthing"}, On(i, kind),
         NEW from \in {"form", "confirm"}, kind = "install" => from = "form",
         Submit(i, from), UNCHANGED menu
  PROVE  IInv'
  BY AskKeeps DEF On, Submit, Begin, Busy

LEMMA ScreenKeysKeep ==
  ASSUME IInv, NEW i \in Slots, ScreenKeys(i), UNCHANGED menu
  PROVE  IInv'
<1> DEFINE Asks(kind, from) == On(i, kind) /\ Submit(i, from)
<1>1. CASE \E kind \in {"password", "sshAdd", "update", "install", "wallet",
                        "autoUnlock", "pair"} : Asks(kind, "form")
  BY <1>1, SubmitKeeps
<1>2. CASE \E kind \in {"sshKey", "pwAuth", "p2p"} : Asks(kind, "confirm")
  BY <1>2, SubmitKeeps
<1>3. CASE \E kind \in {"sshKey", "pwAuth", "p2p", "device"} : On(i, kind) /\ Confirmed(i)
  BY <1>3, MoveKeeps DEF On, Confirmed, Steps
<1>4. CASE On(i, "wallet") /\ Move(i, "form", "failed")
  BY <1>4, MoveKeeps DEF On, Steps
<1>5. CASE /\ On(i, "autoUnlock")
           /\ screen[i] = [step |-> "done", mode |-> "disabled"]
           /\ screen' = [screen EXCEPT ![i] = [step |-> "form", mode |-> "enable"]]
           /\ UNCHANGED <<frame, calls, node, shown, polls, doubt>>
  <2>1. [step |-> "form", mode |-> "enable"] \in [step : Steps, mode : Modes]
    BY DEF Steps, Modes
  <2>2. ~Busy(i) BY <1>5 DEF Busy
  <2> QED BY <1>5, <2>1, <2>2, MovesKeep DEF On
<1>6. CASE /\ On(i, "device") /\ screen[i].step = "confirm" /\ Begin(i)
           /\ UNCHANGED <<frame, screen, node, shown, polls, doubt>>
  BY <1>6, AskKeeps DEF On, Begin, Busy
<1>7. CASE ScreenEmits(i) BY <1>7, ScreenEmitsKeeps
<1> QED BY <1>1, <1>2, <1>3, <1>4, <1>5, <1>6, <1>7
        DEF ScreenKeys, PasswordKeys, KeyAddKeys, KeyDetailKeys, PasswordAuthKeys,
            P2PKeys, UpdateKeys, InstallKeys, WalletKeys, AutoUnlockKeys, PairKeys,
            DeviceKeys

-------------------------------------------------------------------------------
(* Answers: who hears them.                                                *)

LEMMA AskingAgain ==
  ASSUME IInv, NEW c \in calls, Holds(c), UNCHANGED <<tabs, section, focus, active>>,
         screen'[c.owner].step = screen[c.owner].step
  PROVE  Asking(c, c.owner)'
<1>1. Asking(c, c.owner) BY DEF IInv, Waiting
<1>2. AtContent(c.owner)' BY <1>1 DEF Asking, AtContent, OpenIn
<1> QED BY <1>1, <1>2 DEF Asking, Busy

\* A message finds the screen that asked for it if no other of its kind is open
\* there.  The kinds that are opened without a row are open once in a section.
LEMMA RoutedToOwner ==
  ASSUME IInv, NEW c \in calls, Asking(c, c.owner), c.op = "update" => Shown({"p2p"}) = {},
         \A j \in OpenIn(section) : tabs[j].kind = c.op => j = c.owner
  PROVE  Routed(c.op) = {c.owner}
<1>1. Homes /\ Tabs /\ Placed /\ c.op \notin {"sshKeys", "syncthing"}
  BY DEF IInv, Homes, Tabs
<1>2. /\ c.owner \in OpenIn(section) /\ tabs[c.owner].kind = c.op
      /\ tabs[c.owner].section = section /\ AtItsHome(tabs[c.owner])
  BY <1>1, ContentIsOpen DEF Asking, AtContent, Homes
<1>3. \A i \in OpenIn(section) : AtItsHome(tabs[i]) /\ tabs[i].section = section
  BY <1>1 DEF OpenIn, Homes
<1>4. c.op \in {"p2p", "update"} => Shown({"install"}) = {}
  BY <1>2, <1>3 DEF AtItsHome, Addons, Shown
<1>5. c.op = "install" => Shown({"install"}) # {} BY <1>2 DEF Shown
<1>6. c.op = "p2p" => Shown({"p2p"}) # {} BY <1>2 DEF Shown
<1>7. Wanted(c.op) = {c.op} BY <1>4, <1>5, <1>6 DEF Wanted
<1>8. Shown({c.op}) = {c.owner} BY <1>2 DEF Shown
<1>9. tabs[c.owner].at \in Int BY <1>1, <1>2 DEF OpenIn, Placed, Tab
<1> QED BY <1>7, <1>8, <1>9 DEF Routed

\* What is due of a screen that waits reaches it.
LEMMA DueIsRouted ==
  ASSUME IInv, NEW c \in calls, Holds(c), Due(c)
  PROVE  Routed(c.op) = {c.owner} /\ Busy(c.owner) /\ tabs[c.owner].kind = c.op
<1>1. Asking(c, c.owner) /\ Homes /\ Tabs /\ c.op \notin {"sshKey", "device", "update"}
  BY DEF IInv, Waiting, Due
<1>2. Indexed(section) /\ c.owner \in OpenIn(section) /\ tabs[c.owner].kind = c.op
  BY <1>1 DEF Tabs, Asking, AtContent
<1>3. ASSUME NEW j \in OpenIn(section), tabs[j].kind = c.op PROVE j = c.owner
  <2>1. AtItsHome(tabs[j]) /\ AtItsHome(tabs[c.owner])
    BY <1>1, <1>2, <1>3 DEF Homes, OpenIn
  <2>2. tabs[j].row = 0 /\ tabs[c.owner].row = 0
    BY <1>1, <1>2, <1>3, <2>1 DEF AtItsHome
  <2> QED BY <1>2, <1>3, <2>2 DEF Indexed
<1>4. Routed(c.op) = {c.owner} BY <1>1, <1>3, RoutedToOwner
<1> QED BY <1>1, <1>4 DEF Asking

LEMMA RoutedIsShown ==
  ASSUME NEW op, NEW i \in Routed(op)
  PROVE  /\ i \in Slots /\ i \in OpenIn(section) /\ tabs[i].kind # "none"
         /\ tabs[i].kind \in Wanted(op)
         /\ op \notin {"install", "p2p", "update"} => tabs[i].kind = op
         /\ op \in {"install", "p2p", "update"} =>
              tabs[i].kind \in {"install", "p2p", "update"}
  BY DEF Routed, Shown, OpenIn, Wanted

\* A call ends.  The screens that wait for another are not touched, and what
\* it was to bring is shown, or it was to bring nothing.
LEMMA EndsKeep ==
  ASSUME IInv, NEW c \in calls, calls' = calls \ {c}, Types',
         UNCHANGED <<tabs, section, focus, active, node, doubt, menu>>,
         \A d \in calls' : Holds(d) => screen'[d.owner] = screen[d.owner],
         \A i \in Slots : tabs[i].kind = "install" =>
           screen'[i].step = screen[i].step \/ screen'[i].step \in {"busy", "done"},
         shown'.addon = shown.addon, shown'.mode = shown.mode,
         \A s \in {"autoUnlock", "mode", "addon"} : shown'[s] # node[s] =>
           s \in doubt \/ \E d \in calls' : Setting(d) = s /\ Due(d)
  PROVE  IInv'
<1>0. Types /\ Tabs /\ Homes /\ Waiting /\ Ceremony /\ Installed /\ Truth
  BY DEF IInv
<1>1. Tabs' BY <1>0, SameTabs DEF Tabs
<1>2. Homes' BY <1>0 DEF Homes, AtItsHome
<1>3. \A d : Holds(d)' <=> Holds(d) BY DEF Holds, Loose, Closable, AllSet
<1>4. Waiting'
  <2>1. ASSUME NEW d \in calls', Holds(d)' PROVE Asking(d, d.owner)'
    BY <1>3, <2>1, AskingAgain
  <2>2. \A d, e \in calls' : Holds(d)' /\ Holds(e)' => d = e
    BY <1>0, <1>3 DEF Waiting
  <2> QED BY <2>1, <2>2 DEF Waiting
<1>5. Ceremony' BY <1>0 DEF Ceremony, Turned
<1>6. Installed'
  <2>1. shown'.addon /\ shown'.mode = "tor" =>
          \A i \in Slots : tabs'[i].kind = "install" => screen'[i].step \in {"busy", "done"}
    BY <1>0 DEF Installed
  <2> QED BY <1>0, <2>1 DEF Installed
<1>7. Truth'
  <2>1. ASSUME "autoUnlock" \notin doubt', NEW d \in calls' PROVE Told(d)'
    <3>1. ASSUME d.op = "autoUnlock" PROVE Enables(d)' = Enables(d)
      <4>1. Holds(d) BY <3>1 DEF Holds, Modal, Loose, Closable
      <4> QED BY <4>1 DEF Enables
    <3>2. Told(d) BY <1>0, <2>1 DEF Truth
    <3> QED BY <3>1, <3>2 DEF Told
  <2>2. \A s \in {"autoUnlock", "mode", "addon"} : shown'[s] # node'[s] =>
           s \in doubt' \/ \E d \in calls' : Setting(d) = s /\ Due(d)
    OBVIOUS
  <2> QED BY <2>1, <2>2 DEF Truth
<1> QED BY <1>1, <1>2, <1>4, <1>5, <1>6, <1>7 DEF IInv

\* With it goes nothing that is due.
LEMMA NothingIsDue ==
  ASSUME IInv, NEW c \in calls, ~Due(c) \/ ~Holds(c),
         NEW s \in {"autoUnlock", "mode", "addon"}, shown[s] # node[s]
  PROVE  s \in doubt \/ \E d \in calls \ {c} : Setting(d) = s /\ Due(d)
<1>1. CASE s \in doubt BY <1>1
<1>2. ASSUME NEW d \in calls, Setting(d) = s, Due(d) PROVE d # c
  <2> SUFFICES ASSUME d = c PROVE FALSE
    OBVIOUS
  <2>1. c.op \in {"install", "p2p"} /\ AllSet BY <1>2, NotHolding DEF Due
  <2>2. s \in {"mode", "addon"} BY <1>2, <2>1 DEF Setting
  <2> QED BY <2>1, <2>2, AllSetIsTrue
<1> QED BY <1>1, <1>2 DEF IInv, Truth

LEMMA UnroutedKeeps ==
  ASSUME IInv, NEW c \in calls, Unrouted(c), UNCHANGED menu
  PROVE  IInv'
<1>1. ~Due(c) \/ ~Holds(c) BY DueIsRouted DEF Unrouted
<1>2. Types' BY DEF IInv, Types, Unrouted, frame
<1>3. calls' = calls \ {c} /\ UNCHANGED <<frame, screen, node, shown, doubt>>
  BY DEF Unrouted
<1>4. \A s \in {"autoUnlock", "mode", "addon"} : shown'[s] # node[s] =>
        s \in doubt \/ \E d \in calls' : Setting(d) = s /\ Due(d)
  BY <1>1, <1>3, NothingIsDue
<1> QED BY <1>2, <1>3, <1>4, EndsKeep DEF frame

\* The screen an answer is delivered to is not one that waits for another.
LEMMA OthersUntouched ==
  ASSUME IInv, NEW c \in calls, NEW i \in Routed(c.op), NEW d \in calls \ {c}, Holds(d)
  PROVE  d.owner # i
<1>1. Asking(d, d.owner) /\ Modal(d.op) BY DEF IInv, Waiting, Holds
<1>2. tabs[d.owner].kind = d.op BY <1>1 DEF Asking
<1>3. ~Holds(c) BY DEF IInv, Waiting
<1>4. CASE c.op \in {"pair", "device"}
  BY <1>1, <1>2, <1>4, RoutedIsShown DEF Modal
<1>5. CASE Loose(c)
  BY <1>2, <1>5, RoutedIsShown DEF Holds, Loose, Closable
<1> QED BY <1>3, <1>4, <1>5 DEF Holds, Modal

LEMMA DeliveredKeeps ==
  ASSUME IInv, NEW c \in calls, NEW i \in Routed(c.op), NEW step \in Steps,
         Delivered(c, i, step), ~Due(c) \/ ~Holds(c),
         tabs[i].kind = "install" => step \in {screen[i].step, "done"},
         UNCHANGED menu
  PROVE  IInv'
<1>0. /\ calls' = calls \ {c} /\ screen' = [screen EXCEPT ![i].step = step]
      /\ UNCHANGED <<frame, node, shown, doubt>>
  BY DEF Delivered
<1>1. Types /\ i \in Slots /\ tabs[i].kind # "none" BY RoutedIsShown DEF IInv
<1>2. /\ screen' \in [Slots -> [step : Steps, mode : Modes]]
      /\ screen'[i].step = step /\ \A j \in Slots \ {i} : screen'[j] = screen[j]
  BY <1>0, <1>1 DEF Types
<1>3. Types' BY <1>0, <1>1, <1>2 DEF Types, frame
<1>4. \A s \in {"autoUnlock", "mode", "addon"} : shown'[s] # node[s] =>
        s \in doubt \/ \E d \in calls' : Setting(d) = s /\ Due(d)
  BY <1>0, NothingIsDue
<1>5. \A d \in calls' : Holds(d) => screen'[d.owner] = screen[d.owner]
  <2> SUFFICES ASSUME NEW d \in calls \ {c}, Holds(d)
               PROVE  screen'[d.owner] = screen[d.owner]
    BY <1>0
  <2>1. d.owner # i /\ d.owner \in Slots
    BY OthersUntouched DEF IInv, Waiting, Asking
  <2> QED BY <1>2, <2>1
<1>6. \A j \in Slots : tabs[j].kind = "install" =>
        screen'[j].step = screen[j].step \/ screen'[j].step \in {"busy", "done"}
  BY <1>2
<1> QED BY <1>0, <1>3, <1>4, <1>5, <1>6, EndsKeep DEF frame

\* The next step of the same operation, asked by the same screen.
LEMMA ContinuedKeeps ==
  ASSUME IInv, NEW c \in calls, c.answer = "ok", NEW stage \in {2, 3},
         \/ c.op \in {"p2p", "install", "update"} /\ c.stage = 1 /\ stage = 2
         \/ c.op = "wallet" /\ stage = c.stage + 1,
         Continued(c, stage), UNCHANGED menu
  PROVE  IInv'
<1> DEFINE new == [c EXCEPT !.stage = stage, !.answer = "none"]
<1>0. /\ Types /\ Tabs /\ Homes /\ Waiting /\ Ceremony /\ Installed /\ Truth
      /\ UNCHANGED <<tabs, section, focus, active, screen, node, shown, doubt>>
  BY DEF IInv, Continued, frame
<1>1. /\ new \in Call /\ new.op = c.op /\ new.owner = c.owner
      /\ new.stage = stage /\ new.answer = "none" /\ c.stage \in 1..3
  <2>1. c \in Call BY <1>0 DEF Types
  <2>2. stage \in 1..3 OBVIOUS
  <2> QED BY <2>1, <2>2 DEF Call
<1>2. calls' = (calls \ {c}) \cup {new} BY DEF Continued
<1> HIDE DEF new
<1>3. Types' BY <1>0, <1>1, <1>2 DEF Types
<1>4. Tabs' BY <1>0, SameTabs DEF Tabs
<1>5. Homes' BY <1>0, <1>1, <1>2 DEF Homes, AtItsHome
<1>6. \A d : Holds(d)' <=> Holds(d) BY <1>0, SameLoose
<1>7. (Holds(new) <=> Holds(c)) /\ c.op # "autoUnlock"
  <2>1. c.op # "autoUnlock" OBVIOUS
  <2>2. Holds(new) <=> Holds(c) BY <1>1 DEF Holds, Modal, Loose, Closable
  <2> QED BY <2>1, <2>2
<1>8. Waiting'
  <2>1. ASSUME NEW d \in calls', Holds(d)' PROVE Asking(d, d.owner)'
    <3>1. CASE d \in calls BY <1>0, <1>6, <2>1, <3>1, AskingAgain
    <3>2. CASE d = new
      <4>1. Asking(c, c.owner)' BY <1>0, <1>6, <1>7, <2>1, <3>2, AskingAgain
      <4> QED BY <1>1, <3>2, <4>1 DEF Asking
    <3> QED BY <1>2, <2>1, <3>1, <3>2
  <2>2. \A d, e \in calls' : Holds(d)' /\ Holds(e)' => d = e
    BY <1>0, <1>2, <1>6, <1>7 DEF Waiting
  <2> QED BY <2>1, <2>2 DEF Waiting
<1>9. Ceremony'
  <2>1. Late(new) => Late(c) BY <1>1 DEF Late
  <2> QED BY <1>0, <1>2, <2>1 DEF Ceremony, Turned
<1>10. Installed'
  <2>1. \A d \in calls' : d.op = "p2p" /\ (d.stage # 1 \/ d.answer = "ok")
                            => node.mode = "hybrid"
    BY <1>0, <1>1, <1>2 DEF Installed
  <2>2. \A d \in calls' : d.op = "device" => shown.addon
    BY <1>0, <1>1, <1>2 DEF Installed
  <2>3. shown.mode = "tor" => \A d, e \in calls' : d.op = "device" => e.op # "install"
    BY <1>0, <1>1, <1>2 DEF Installed
  <2> QED BY <1>0, <2>1, <2>2, <2>3 DEF Installed
<1>11. Truth'
  <2>1. Due(c) => Due(new) /\ Setting(new) = Setting(c) BY <1>1 DEF Due, Setting
  <2>2. \A s \in {"autoUnlock", "mode", "addon"} : shown[s] # node[s] =>
           s \in doubt \/ \E d \in calls' : Setting(d) = s /\ Due(d)
    BY <1>0, <1>2, <2>1 DEF Truth
  <2>3. \A d \in calls' : d.op = "autoUnlock" => d \in calls /\ Enables(d)' = Enables(d)
    BY <1>0, <1>1, <1>2, <1>7 DEF Enables
  <2>4. ASSUME "autoUnlock" \notin doubt', NEW d \in calls' PROVE Told(d)'
    <3>1. d.op = "autoUnlock" => Told(d) BY <1>0, <2>3, <2>4 DEF Truth
    <3> QED BY <1>0, <2>3, <2>4, <3>1 DEF Told
  <2> QED BY <1>0, <2>2, <2>4 DEF Truth
<1> QED BY <1>3, <1>4, <1>5, <1>8, <1>9, <1>10, <1>11 DEF IInv

-------------------------------------------------------------------------------
(* Answers: what each screen makes of them.                                *)

LEMMA ShownTyped ==
  ASSUME IInv, NEW b \in BOOLEAN, shown' = [shown EXCEPT !.autoUnlock = b]
  PROVE  /\ shown' \in [wallet : {"unknown", "no", "yes"}, client : BOOLEAN,
                        autoUnlock : BOOLEAN, mode : {"tor", "hybrid"}, addon : BOOLEAN]
         /\ shown'["autoUnlock"] = b /\ shown'.addon = shown.addon
         /\ shown'.mode = shown.mode
  BY DEF IInv, Types

LEMMA AutoUnlockDoneKeeps ==
  ASSUME IInv, NEW c \in calls, NEW i \in Routed(c.op), AutoUnlockDone(c, i),
         UNCHANGED menu
  PROVE  IInv'
<1>0. c.op = "autoUnlock" /\ Types /\ i \in Slots /\ tabs[i].kind = "autoUnlock"
      /\ Waiting /\ Truth /\ Holds(c)
  BY RoutedIsShown DEF AutoUnlockDone, IInv, Holds, Modal, Loose, Closable
<1>1. CASE c.answer \notin {"ok", "kept"}
  <2>1. Delivered(c, i, "form") \/ Delivered(c, i, "failed")
    BY <1>1 DEF AutoUnlockDone
  <2>2. ~Due(c) BY <1>0, <1>1 DEF Due
  <2> QED BY <1>0, <2>1, <2>2, DeliveredKeeps DEF Steps
<1>2. CASE c.answer \in {"ok", "kept"}
  <2> DEFINE enables == Enables(c) \/ c.answer = "kept"
             mode == IF enables THEN screen[i].mode ELSE "disabled"
             r == [step |-> "done", mode |-> mode]
  <2>1. /\ calls' = calls \ {c}
        /\ shown' = [shown EXCEPT !.autoUnlock = enables]
        /\ UNCHANGED <<frame, node, doubt>>
    BY <1>2 DEF AutoUnlockDone
  <2>2. screen' = [screen EXCEPT ![i].step = "done", ![i].mode = mode]
    BY <1>2 DEF AutoUnlockDone
  <2>3. enables \in BOOLEAN BY DEF Enables
  <2>4. mode \in Modes BY <1>0 DEF Types, Modes
  <2>5. ASSUME "autoUnlock" \notin doubt PROVE node.autoUnlock = enables
    <3>0. Told(c) BY <1>0, <2>5 DEF Truth
    <3>1. CASE c.answer = "ok"
      <4>1. node.autoUnlock = Enables(c) BY <1>0, <3>0, <3>1 DEF Told
      <4>2. enables = Enables(c) BY <3>1 DEF Enables
      <4> QED BY <4>1, <4>2
    <3>2. CASE c.answer = "kept"
      <4>1. node.autoUnlock /\ node.autoUnlock \in BOOLEAN
        BY <1>0, <3>0, <3>2 DEF Told, Types
      <4> QED BY <3>2, <4>1
    <3> QED BY <1>2, <3>1, <3>2
  <2> HIDE DEF enables, mode
  <2>6. /\ screen' \in [Slots -> [step : Steps, mode : Modes]]
        /\ \A j \in Slots \ {i} : screen'[j] = screen[j]
    BY <1>0, <2>2, <2>4 DEF Types, Steps
  <2>7. /\ shown' \in [wallet : {"unknown", "no", "yes"}, client : BOOLEAN,
                       autoUnlock : BOOLEAN, mode : {"tor", "hybrid"}, addon : BOOLEAN]
        /\ shown'["autoUnlock"] = enables /\ shown'.addon = shown.addon
        /\ shown'.mode = shown.mode
    BY <2>1, <2>3, ShownTyped
  <2>8. Types' BY <1>0, <2>1, <2>6, <2>7 DEF Types, frame
  <2>9. \A d \in calls' : ~Holds(d) BY <1>0, <2>1 DEF Waiting
  <2>10. \A j \in Slots : tabs[j].kind = "install" => screen'[j].step = screen[j].step
    BY <1>0, <2>6
  <2>11. ASSUME NEW s \in {"autoUnlock", "mode", "addon"}, shown'[s] # node[s]
         PROVE  s \in doubt \/ \E d \in calls' : Setting(d) = s /\ Due(d)
    <3>1. CASE s = "autoUnlock" BY <2>5, <2>7, <2>11, <3>1
    <3>2. CASE s # "autoUnlock"
      <4>1. shown[s] # node[s] BY <2>7, <2>11, <3>2
      <4>2. Setting(c) = "autoUnlock" BY <1>0 DEF Setting
      <4> QED BY <1>0, <2>1, <3>2, <4>1, <4>2 DEF Truth
    <3> QED BY <3>1, <3>2
  <2> QED BY <2>1, <2>7, <2>8, <2>9, <2>10, <2>11, EndsKeep DEF frame
<1> QED BY <1>1, <1>2

LEMMA ProgressKeeps ==
  ASSUME IInv, NEW c \in calls, NEW i \in Routed(c.op), Progress(c, i),
         c.answer # "none", UNCHANGED menu
  PROVE  IInv'
<1>0. /\ c.op \in {"p2p", "install", "update"} /\ i \in Slots
      /\ screen[i].step \in Steps
  BY RoutedIsShown DEF Progress, IInv, Types
<1>1. CASE ~Busy(i)
  <2>1. ~Due(c) \/ ~Holds(c) BY <1>1, DueIsRouted
  <2> QED BY <1>0, <1>1, <2>1, DeliveredKeeps DEF Progress
<1>2. CASE Busy(i) /\ c.answer = "ok" /\ c.stage = 1 /\ tabs[i].kind # "update"
  BY <1>0, <1>2, ContinuedKeeps DEF Progress
<1>3. CASE Busy(i) /\ ~(c.answer = "ok" /\ c.stage = 1 /\ tabs[i].kind # "update")
  <2>1. ASSUME Due(c), Holds(c) PROVE FALSE
    <3>1. tabs[i].kind = c.op BY <2>1, DueIsRouted
    <3> QED BY <1>0, <1>3, <2>1, <3>1 DEF Due
  <2> QED BY <1>0, <1>3, <2>1, DeliveredKeeps DEF Progress, Steps
<1> QED BY <1>1, <1>2, <1>3

LEMMA WalletAnswerKeeps ==
  ASSUME IInv, NEW c \in calls, NEW i \in Routed(c.op), WalletAnswer(c, i),
         UNCHANGED menu
  PROVE  IInv'
<1>0. /\ c.op = "wallet" /\ i \in Slots /\ tabs[i].kind = "wallet"
      /\ screen[i].step \in Steps /\ c.stage \in 1..3
  BY RoutedIsShown DEF WalletAnswer, IInv, Types, Call
<1>1. CASE c.stage < 3 /\ c.answer = "ok"
  <2>1. Continued(c, c.stage + 1) BY <1>0, <1>1 DEF WalletAnswer
  <2>2. c.stage + 1 \in {2, 3} BY <1>0, <1>1
  <2> QED BY <1>0, <1>1, <2>1, <2>2, ContinuedKeeps
<1>2. CASE ~(c.stage < 3 /\ c.answer = "ok")
  <2>1. Delivered(c, i, "failed") \/ Delivered(c, i, screen[i].step)
    <3>1. CASE c.stage < 3 BY <1>2, <3>1 DEF WalletAnswer
    <3>2. CASE c.stage = 3 BY <3>2 DEF WalletAnswer
    <3> QED BY <1>0, <3>1, <3>2
  <2>2. ~Due(c) BY <1>0 DEF Due
  <2> QED BY <1>0, <2>1, <2>2, DeliveredKeeps DEF Steps
<1> QED BY <1>1, <1>2

\* What closes the active tab: the screen of a key closes itself, and no screen
\* of its section waits while a device is being removed.
LEMMA RemovalIsAlone ==
  ASSUME IInv, NEW c \in calls, c.op \in {"sshKey", "device"}, NEW i \in Routed(c.op)
  PROVE  \A d \in calls \ {c} : ~Holds(d)
<1> SUFFICES ASSUME NEW d \in calls \ {c}, Holds(d) PROVE FALSE
  OBVIOUS
<1>0. Types /\ Homes /\ Waiting /\ Installed BY DEF IInv
<1>1. CASE c.op = "sshKey"
  <2>1. Holds(c) BY <1>1 DEF Holds, Modal, Loose, Closable
  <2> QED BY <1>0, <2>1 DEF Waiting
<1>2. CASE c.op = "device"
  <2>1. i \in OpenIn(section) /\ tabs[i].kind = "device" BY <1>2, RoutedIsShown
  <2>2. AtItsHome(tabs[i]) /\ tabs[i].section = section
    BY <1>0, <2>1 DEF Homes, OpenIn
  <2>3. section = "addons" /\ "device" \in menu
    BY <2>1, <2>2 DEF AtItsHome, Addons
  <2>4. /\ Asking(d, d.owner) /\ d.op # "syncthing" /\ Modal(d.op)
    BY <1>0 DEF Waiting, Homes, Holds
  <2>5. /\ d.owner \in OpenIn(section) /\ tabs[d.owner].kind = d.op
        /\ tabs[d.owner].section = section /\ AtItsHome(tabs[d.owner])
    BY <1>0, <2>4, ContentIsOpen DEF Asking, AtContent, Homes
  <2>6. d.op = "install" BY <2>3, <2>4, <2>5 DEF AtItsHome, Addons, Modal
  <2>7. shown.addon BY <1>0, <1>2 DEF Installed
  <2>8. shown.mode = "tor"
    BY <1>0, <2>3, <2>6, <2>7 DEF Holds, Loose, Closable, AllSet, Types
  <2> QED BY <1>0, <1>2, <2>6, <2>8 DEF Installed
<1> QED BY <1>1, <1>2

LEMMA RemovalKeeps ==
  ASSUME IInv, NEW c \in calls, NEW i \in Routed(c.op), Removed(c, i), UNCHANGED menu
  PROVE  IInv'
<1>0. c.op \in {"sshKey", "device"} /\ ~Due(c) BY DEF Removed, Due
<1>1. CASE c.answer = "ok"
  <2>1. /\ CloseActive({}) /\ Kept(calls \ {c}) /\ UNCHANGED <<node, shown, doubt>>
    BY <1>1 DEF Removed
  <2>2. \A d \in calls \ {c} : ~Holds(d) BY <1>0, RemovalIsAlone
  <2>3. Tabs' /\ Thinned BY <2>1, TabsMove DEF IInv
  <2>4. \A d \in calls \ (calls \ {c}) : ~Due(d) BY <1>0
  <2> QED BY <2>1, <2>2, <2>3, <2>4, KeptIsQuiet
<1>2. CASE c.answer # "ok"
  <2>1. Delivered(c, i, "form") BY <1>2 DEF Removed
  <2>2. tabs[i].kind # "install" BY <1>0, RoutedIsShown
  <2> QED BY <1>0, <2>1, <2>2, DeliveredKeeps DEF Steps
<1> QED BY <1>1, <1>2

LEMMA AnsweredKeeps ==
  ASSUME IInv, NEW c \in calls, Answered(c), UNCHANGED menu
  PROVE  IInv'
<1>0. PICK i \in Routed(c.op) :
        \/ Settled(c, i) \/ Removed(c, i) \/ Paired(c, i) \/ AutoUnlockDone(c, i)
        \/ Progress(c, i) \/ WalletAnswer(c, i)
  BY DEF Answered
<1>1. CASE Settled(c, i)
  <2>1. ~Due(c) /\ Delivered(c, i, "done") BY <1>1 DEF Settled, Due
  <2> QED BY <2>1, DeliveredKeeps DEF Steps
<1>2. CASE Paired(c, i)
  <2>1. ~Due(c) /\ (Delivered(c, i, "done") \/ Delivered(c, i, "form"))
    BY <1>2 DEF Paired, Due
  <2>2. tabs[i].kind # "install" BY <1>2, RoutedIsShown DEF Paired
  <2> QED BY <2>1, <2>2, DeliveredKeeps DEF Steps
<1>3. CASE Progress(c, i)
  BY <1>3, ProgressKeeps DEF Answered, Taking
<1> QED BY <1>0, <1>1, <1>2, <1>3, RemovalKeeps, AutoUnlockDoneKeeps, WalletAnswerKeeps

\* The ceremony ends: no call holds the keyboard any more, and the section of
\* the wallet has no other auto-unlock tab.
LEMMA WalletCreatedKeeps ==
  ASSUME IInv, NEW c \in calls, WalletCreated(c), UNCHANGED menu
  PROVE  IInv'
<1>0. /\ Types /\ Tabs /\ Homes /\ Waiting /\ Ceremony /\ Installed
      /\ c.op = "wallet" /\ c.stage = 3 /\ c.answer = "ok"
      /\ calls' = calls \ {c}
      /\ shown' = [shown EXCEPT !.wallet = "yes", !.client = TRUE]
      /\ UNCHANGED <<section, focus, active, node, doubt>>
  BY DEF IInv, WalletCreated
<1>1. Late(c) /\ Holds(c) /\ ~Due(c)
  BY <1>0 DEF Late, Holds, Modal, Loose, Closable, Due
<1>2. \A d \in calls' : ~Holds(d) /\ d \in calls BY <1>0, <1>1 DEF Waiting
<1>3. /\ shown' \in [wallet : {"unknown", "no", "yes"}, client : BOOLEAN,
                     autoUnlock : BOOLEAN, mode : {"tor", "hybrid"}, addon : BOOLEAN]
      /\ shown'["autoUnlock"] = shown["autoUnlock"] /\ shown'["mode"] = shown["mode"]
      /\ shown'["addon"] = shown["addon"]
      /\ shown'.addon = shown.addon /\ shown'.mode = shown.mode
  BY <1>0 DEF Types
<1>4. \A d : Holds(d)' <=> Holds(d) BY <1>3 DEF Holds, Loose, Closable, AllSet
<1>5. Waiting' BY <1>2, <1>4 DEF Waiting
<1>6. Truth'
  <2>1. \A d \in calls : ~Holds(d) \/ ~Due(d) BY <1>0, <1>1 DEF Waiting
  <2>2. \A d \in calls' : d.op = "autoUnlock" => d.answer = "none"
    BY <1>2, NotHolding
  <2>3. \A s \in {"autoUnlock", "mode", "addon"} : shown'[s] = shown[s]
    BY <1>3
  <2> QED BY <1>0, <2>1, <2>2, <2>3, QuietTruth
<1>7. \A d \in calls' : ~Late(d) BY <1>2 DEF Late, Holds, Modal, Loose, Closable
<1>8. CASE UNCHANGED <<tabs, screen>>
  <2>1. Types' BY <1>0, <1>3, <1>8 DEF Types
  <2>2. Tabs' BY <1>0, <1>8, SameTabs DEF Tabs
  <2>3. Homes' BY <1>0, <1>8 DEF Homes, AtItsHome
  <2>4. Ceremony' BY <1>0, <1>7, <1>8 DEF Ceremony, Turned
  <2>5. Installed' BY <1>0, <1>3, <1>8 DEF Installed
  <2> QED BY <1>5, <1>6, <2>1, <2>2, <2>3, <2>4, <2>5 DEF IInv
<1>9. ASSUME NEW i \in Slots, tabs[i].kind = "wallet",
             tabs' = [tabs EXCEPT ![i].kind = "autoUnlock"],
             screen' = [screen EXCEPT ![i] = NewScreen("autoUnlock")]
      PROVE  IInv'
  <2>0. AtItsHome(tabs[i]) BY <1>0, <1>9 DEF Homes
  <2>1. "autoUnlock" \in Kinds
    BY <1>0, <1>9, ScreensAssumption DEF ScreensAssumption, Tabs, Placed, Tab
  <2>2. /\ tabs[i].row = 0 /\ tabs[i].section \in {"wallet", "onchain", "channels"}
        /\ tabs[i].kind # "none"
    BY <1>9, <2>0 DEF AtItsHome
  <2>3. \A j \in OpenIn(tabs[i].section) : tabs[j].kind # "autoUnlock"
    BY <1>0, <1>1, <2>2 DEF Ceremony, Turned, OpenIn
  <2>4. Tabs' BY <1>0, <1>9, <2>1, <2>2, <2>3, TurnedTabs
  <2>5. /\ tabs'[i].kind = "autoUnlock" /\ tabs'[i].row = 0
        /\ tabs'[i].section = tabs[i].section
        /\ \A j \in Slots \ {i} : tabs'[j] = tabs[j]
    BY <1>0, <1>9, <2>2 DEF Tabs, Placed, Tab
  <2>6. NewScreen("autoUnlock") \in [step : Steps, mode : Modes]
    BY DEF NewScreen, Steps, Modes
  <2>7. /\ screen' \in [Slots -> [step : Steps, mode : Modes]]
        /\ \A j \in Slots \ {i} : screen'[j] = screen[j]
    BY <1>0, <1>9, <2>6 DEF Types
  <2>8. Types' BY <1>0, <1>3, <2>5, <2>7 DEF Types
  <2>9. AtItsHome(tabs[i])' BY <2>2, <2>5 DEF AtItsHome, Addons
  <2>10. \A j \in Slots \ {i} : tabs'[j].kind # "none" => AtItsHome(tabs[j])'
    BY <1>0, <2>5 DEF Homes, AtItsHome
  <2>11. Homes' BY <1>0, <2>9, <2>10 DEF Homes
  <2>12. Ceremony' BY <1>0, <1>1, <1>7 DEF Ceremony
  <2>13. Installed'
    <3>1. \A j \in Slots : /\ tabs'[j].kind \in {"syncthing", "pair", "device"} => shown.addon
                           /\ tabs'[j].kind = "install" =>
                                tabs[j].kind = "install" /\ screen'[j] = screen[j]
      BY <1>0, <2>5, <2>7 DEF Installed
    <3>2. shown'.addon /\ shown'.mode = "tor" =>
            \A j \in Slots : tabs'[j].kind = "install" => screen'[j].step \in {"busy", "done"}
      BY <1>0, <1>3, <3>1 DEF Installed
    <3> QED BY <1>0, <1>3, <3>1, <3>2 DEF Installed
  <2> QED BY <1>5, <1>6, <2>4, <2>8, <2>11, <2>12, <2>13 DEF IInv
<1>10. CASE \E s \in Sections :
              LET wallets == {i \in OpenIn(s) : tabs[i].kind = "wallet"}
                  i == First(wallets)
              IN  /\ wallets # {}
                  /\ tabs' = [tabs EXCEPT ![i].kind = "autoUnlock"]
                  /\ screen' = [screen EXCEPT ![i] = NewScreen("autoUnlock")]
  <2>1. PICK s \in Sections :
              LET wallets == {i \in OpenIn(s) : tabs[i].kind = "wallet"}
                  i == First(wallets)
              IN  /\ wallets # {}
                  /\ tabs' = [tabs EXCEPT ![i].kind = "autoUnlock"]
                  /\ screen' = [screen EXCEPT ![i] = NewScreen("autoUnlock")]
    BY <1>10
  <2> DEFINE wallets == {i \in OpenIn(s) : tabs[i].kind = "wallet"}
  <2>2. Indexed(s) /\ wallets \in SUBSET OpenIn(s) /\ wallets # {}
    BY <1>0, <2>1 DEF Tabs
  <2>3. \A i \in wallets : i \in Slots /\ tabs[i].kind = "wallet" BY DEF OpenIn
  <2>4. /\ tabs' = [tabs EXCEPT ![First(wallets)].kind = "autoUnlock"]
        /\ screen' = [screen EXCEPT ![First(wallets)] = NewScreen("autoUnlock")]
    BY <2>1
  <2> HIDE DEF wallets
  <2>5. First(wallets) \in wallets BY <2>2, FirstIsOne
  <2> QED BY <1>9, <2>3, <2>4, <2>5
<1> QED BY <1>8, <1>10 DEF WalletCreated

-------------------------------------------------------------------------------
(* The helper ends an operation, or another session makes the wallet.      *)

\* What an operation changes of the machine, and that it takes nothing back.
LEMMA Effected ==
  ASSUME IInv, NEW c \in calls, NEW a \in Answers(c), Possible(c, a),
         node' = IF a \in {"ok", "lost"} THEN Effect(c) ELSE node
  PROVE  /\ node' \in [wallet : BOOLEAN, autoUnlock : BOOLEAN,
                       mode : {"tor", "hybrid"}, addon : BOOLEAN]
         /\ node.wallet => node'.wallet
         /\ node.addon => node'.addon
         /\ node.mode = "hybrid" => node'.mode = "hybrid"
         /\ node'.mode # node.mode => c.op = "p2p"
         /\ \A s \in {"autoUnlock", "mode", "addon"} : node'[s] # node[s] =>
              s = Setting(c) /\ a \in {"ok", "lost"} /\ ~Reloads(c)
         /\ Reloads(c) => node' = node
         /\ c.op = "wallet" /\ c.stage = 2 /\ a = "ok" => node'.wallet
         /\ c.op = "p2p" /\ c.stage = 1 /\ a = "ok" => node'.mode = "hybrid"
         /\ c.op = "autoUnlock" /\ a = "ok" => node'.autoUnlock = Enables(c)
<1>0. /\ node \in [wallet : BOOLEAN, autoUnlock : BOOLEAN,
                   mode : {"tor", "hybrid"}, addon : BOOLEAN]
      /\ node["autoUnlock"] = node.autoUnlock /\ node["mode"] = node.mode
      /\ node["addon"] = node.addon
      /\ Enables(c) \in BOOLEAN
  BY DEF IInv, Types, Enables
<1> DEFINE done == a \in {"ok", "lost"}
<1>1. CASE ~done BY <1>0, <1>1 DEF Reloads
<1>2. CASE done /\ c.op = "p2p" /\ c.stage = 1
  <2>1. node' = [node EXCEPT !.mode = "hybrid"] BY <1>2 DEF Effect
  <2>2. /\ node' \in [wallet : BOOLEAN, autoUnlock : BOOLEAN,
                      mode : {"tor", "hybrid"}, addon : BOOLEAN]
        /\ node'.mode = "hybrid" /\ node'.wallet = node.wallet
        /\ node'.autoUnlock = node.autoUnlock /\ node'.addon = node.addon
        /\ node'["autoUnlock"] = node["autoUnlock"] /\ node'["addon"] = node["addon"]
    BY <1>0, <2>1
  <2> QED BY <1>0, <1>2, <2>2 DEF Setting, Reloads
<1>3. CASE done /\ c.op = "install" /\ c.stage = 1
  <2>1. node' = [node EXCEPT !.addon = TRUE] BY <1>3 DEF Effect
  <2>2. /\ node' \in [wallet : BOOLEAN, autoUnlock : BOOLEAN,
                      mode : {"tor", "hybrid"}, addon : BOOLEAN]
        /\ node'.addon = TRUE /\ node'.wallet = node.wallet
        /\ node'.autoUnlock = node.autoUnlock /\ node'.mode = node.mode
        /\ node'["autoUnlock"] = node["autoUnlock"] /\ node'["mode"] = node["mode"]
    BY <1>0, <2>1
  <2> QED BY <1>0, <1>3, <2>2 DEF Setting, Reloads
<1>4. CASE done /\ c.op = "autoUnlock"
  <2> DEFINE b == Enables(c)
  <2>1. node' = [node EXCEPT !.autoUnlock = b]
    <3>1. node' = Effect(c) BY <1>4
    <3>2. Effect(c) = [node EXCEPT !.autoUnlock = Enables(c)]
      <4>1. c.op = "autoUnlock" /\ c.op # "p2p" /\ c.op # "install" BY <1>4
      <4> QED BY <4>1, Zenon DEF Effect
    <3> QED BY <3>1, <3>2
  <2>2. b \in BOOLEAN BY <1>0
  <2> HIDE DEF b
  <2>3. /\ node' \in [wallet : BOOLEAN, autoUnlock : BOOLEAN,
                      mode : {"tor", "hybrid"}, addon : BOOLEAN]
        /\ node'.wallet = node.wallet /\ node'.mode = node.mode
        /\ node'.addon = node.addon /\ node'.autoUnlock = b
        /\ node'["mode"] = node["mode"] /\ node'["addon"] = node["addon"]
    BY <1>0, <2>1, <2>2
  <2>4. node'.autoUnlock = Enables(c) BY <2>3 DEF b
  <2> QED BY <1>0, <1>4, <2>3, <2>4 DEF Setting, Reloads
<1>5. CASE done /\ c.op = "wallet" /\ c.stage = 2
  <2>1. node' = [node EXCEPT !.wallet = TRUE] BY <1>5 DEF Effect
  <2>2. /\ node' \in [wallet : BOOLEAN, autoUnlock : BOOLEAN,
                      mode : {"tor", "hybrid"}, addon : BOOLEAN]
        /\ node'.wallet = TRUE /\ node'.autoUnlock = node.autoUnlock
        /\ node'.mode = node.mode /\ node'.addon = node.addon
        /\ node'["autoUnlock"] = node["autoUnlock"]
        /\ node'["mode"] = node["mode"] /\ node'["addon"] = node["addon"]
    BY <1>0, <2>1
  <2> QED BY <1>0, <1>5, <2>2 DEF Setting, Reloads
<1>6. CASE /\ done /\ ~(c.op = "p2p" /\ c.stage = 1)
           /\ ~(c.op = "install" /\ c.stage = 1) /\ c.op # "autoUnlock"
           /\ ~(c.op = "wallet" /\ c.stage = 2)
  <2>1. node' = node BY <1>6 DEF Effect
  <2> QED BY <1>0, <1>6, <2>1 DEF Reloads
<1> QED BY <1>1, <1>2, <1>3, <1>4, <1>5, <1>6

LEMMA PerformKeeps ==
  ASSUME IInv, NEW c \in calls, Perform(c), UNCHANGED menu
  PROVE  IInv'
<1>0. /\ Types /\ Tabs /\ Homes /\ Waiting /\ Ceremony /\ Installed /\ Truth
      /\ UNCHANGED <<tabs, section, focus, active, screen>> /\ c.answer = "none"
  BY DEF IInv, Perform, frame
<1>1. PICK a \in Answers(c) :
        /\ Possible(c, a)
        /\ calls' = (calls \ {c}) \cup {[c EXCEPT !.answer = a]}
        /\ node' = IF a \in {"ok", "lost"} THEN Effect(c) ELSE node
        /\ IF Reloads(c) /\ a = "ok"
           THEN Reloaded
           ELSE doubt' = Doubtful(c, a) /\ UNCHANGED shown
  BY DEF Perform
<1> DEFINE new == [c EXCEPT !.answer = a]
<1>2. a \in {"ok", "failed", "lost", "retry", "kept"}
  BY DEF Answers
<1>3. /\ new \in Call /\ new.op = c.op /\ new.owner = c.owner
      /\ new.stage = c.stage /\ new.answer = a /\ c.stage \in 1..3
  BY <1>0, <1>2 DEF Types, Call
<1>4. calls' = (calls \ {c}) \cup {new} BY <1>1
<1> HIDE DEF new
<1>5. /\ node' \in [wallet : BOOLEAN, autoUnlock : BOOLEAN,
                    mode : {"tor", "hybrid"}, addon : BOOLEAN]
      /\ node.wallet => node'.wallet
      /\ node.addon => node'.addon
      /\ node.mode = "hybrid" => node'.mode = "hybrid"
      /\ node'.mode # node.mode => c.op = "p2p"
      /\ \A s \in {"autoUnlock", "mode", "addon"} : node'[s] # node[s] =>
           s = Setting(c) /\ a \in {"ok", "lost"} /\ ~Reloads(c)
      /\ Reloads(c) => node' = node
      /\ c.op = "wallet" /\ c.stage = 2 /\ a = "ok" => node'.wallet
      /\ c.op = "p2p" /\ c.stage = 1 /\ a = "ok" => node'.mode = "hybrid"
      /\ c.op = "autoUnlock" /\ a = "ok" => node'.autoUnlock = Enables(c)
  BY <1>1, Effected
<1> DEFINE read == Reloads(c) /\ a = "ok"
\* The context is read anew, or it is left as it was.
<1>6. \/ /\ read
         /\ \A s \in {"autoUnlock", "mode", "addon"} : shown'[s] = node'[s]
         /\ shown'.mode = node.mode /\ shown'.addon = node.addon
         /\ doubt' = {s \in doubt : s = "autoUnlock" /\ \E d \in calls : d.op = s}
         /\ node' = node
      \/ /\ ~read /\ UNCHANGED shown
         /\ doubt' = Doubtful(c, a)
  <2>1. CASE read
    <3>1. /\ shown' = [shown EXCEPT !.mode = node.mode, !.addon = node.addon,
                                    !.autoUnlock = node.autoUnlock]
          /\ doubt' = {s \in doubt : s = "autoUnlock" /\ \E d \in calls : d.op = s}
          /\ node' = node
      BY <1>1, <1>5, <2>1 DEF Reloaded
    <3>2. /\ \A s \in {"autoUnlock", "mode", "addon"} : shown'[s] = node'[s]
          /\ shown'.mode = node.mode /\ shown'.addon = node.addon
      BY <1>0, <3>1 DEF Types
    <3> QED BY <2>1, <3>1, <3>2
  <2>2. CASE ~read BY <1>1, <2>2
  <2> QED BY <2>1, <2>2
<1>7. shown' \in [wallet : {"unknown", "no", "yes"}, client : BOOLEAN,
                  autoUnlock : BOOLEAN, mode : {"tor", "hybrid"}, addon : BOOLEAN]
  <2>1. CASE read
    <3>1. shown' = [shown EXCEPT !.mode = node.mode, !.addon = node.addon,
                                 !.autoUnlock = node.autoUnlock]
      BY <1>1, <2>1 DEF Reloaded
    <3> QED BY <1>0, <3>1 DEF Types
  <2>2. CASE ~read BY <1>0, <1>6, <2>2 DEF Types
  <2> QED BY <2>1, <2>2
<1>8. /\ shown.addon => shown'.addon
      /\ shown.mode = "hybrid" => shown'.mode = "hybrid"
      /\ shown'.addon => node'.addon
      /\ shown'.mode = "hybrid" => node'.mode = "hybrid"
  BY <1>0, <1>5, <1>6 DEF Installed
<1> HIDE DEF read
<1>9. Types' BY <1>0, <1>3, <1>4, <1>5, <1>7 DEF Types
<1>10. Tabs' BY <1>0, SameTabs DEF Tabs
<1>11. Homes' BY <1>0, <1>3, <1>4 DEF Homes, AtItsHome
<1>12. /\ \A d : Holds(d)' => Holds(d)
       /\ Holds(new) => Holds(c)
  <2>1. AllSet => AllSet' BY <1>8 DEF AllSet
  <2>2. \A d : Holds(d)' => Holds(d) BY <2>1 DEF Holds, Loose, Closable
  <2>3. Holds(new) => Holds(c) BY <1>3 DEF Holds, Modal, Loose, Closable
  <2> QED BY <2>2, <2>3
<1>13. Waiting'
  <2>1. ASSUME NEW d \in calls', Holds(d)' PROVE Asking(d, d.owner)'
    <3>1. CASE d \in calls BY <1>0, <1>12, <2>1, <3>1, AskingAgain
    <3>2. CASE d = new
      <4>1. Asking(c, c.owner)' BY <1>0, <1>12, <2>1, <3>2, AskingAgain
      <4> QED BY <1>3, <3>2, <4>1 DEF Asking
    <3> QED BY <1>4, <3>1, <3>2
  <2>2. \A d, e \in calls' : Holds(d)' /\ Holds(e)' => d = e
    BY <1>0, <1>4, <1>12 DEF Waiting
  <2> QED BY <2>1, <2>2 DEF Waiting
<1>14. Ceremony'
  <2>1. Late(new) => node'.wallet BY <1>0, <1>3, <1>5 DEF Late, Ceremony
  <2>2. node.wallet /\ Late(new) => Late(c)
    <3>1. ASSUME node.wallet, c.op = "wallet", c.stage = 2 PROVE a # "ok"
      BY <1>1, <3>1 DEF Possible
    <3> QED BY <1>3, <3>1 DEF Late
  <2>3. \A i \in Slots : Turned(i)' <=> Turned(i) BY <1>0 DEF Turned
  <2>4. \A d \in calls' : Late(d) => node'.wallet
    BY <1>0, <1>4, <1>5, <2>1 DEF Ceremony
  <2>5. \A i \in Slots : Turned(i) => node.wallet /\ \A d \in calls' : ~Late(d)
    BY <1>0, <1>4, <2>2 DEF Ceremony
  <2> QED BY <1>5, <2>3, <2>4, <2>5 DEF Ceremony
<1>15. Installed'
  <2>2. \A d \in calls' : d.op = "p2p" /\ (d.stage # 1 \/ d.answer = "ok")
                            => node'.mode = "hybrid"
    BY <1>0, <1>3, <1>4, <1>5 DEF Installed
  <2>3. \A i \in Slots : tabs[i].kind \in {"syncthing", "pair", "device"} => shown'.addon
    BY <1>0, <1>8 DEF Installed
  <2>4. \A d \in calls' : d.op = "device" => shown'.addon
    BY <1>0, <1>3, <1>4, <1>8 DEF Installed
  <2>5. shown'.mode = "tor" => shown.mode = "tor" BY <1>0, <1>8 DEF Types
  <2>6. shown'.mode = "tor" => \A d, e \in calls' : d.op = "device" => e.op # "install"
    BY <1>0, <1>3, <1>4, <2>5 DEF Installed
  <2>7. ASSUME shown'.addon, shown'.mode = "tor", NEW i \in Slots, tabs[i].kind = "install"
        PROVE  screen[i].step \in {"busy", "done"}
    <3>1. CASE ~read BY <1>0, <1>6, <2>7, <3>1 DEF Installed
    <3>2. CASE read
      <4>1. c.op \in {"p2p", "install"} /\ c.stage = 2 /\ node.mode = "tor"
        BY <1>6, <2>7, <3>2 DEF read, Reloads
      <4>2. c.op = "install" BY <1>0, <4>1 DEF Installed
      <4>3. Holds(c)
        BY <2>5, <2>7, <4>2 DEF Holds, Modal, Loose, Closable, AllSet
      <4>4. Busy(c.owner) /\ c.owner \in Slots /\ tabs[c.owner].kind = "install"
        BY <1>0, <4>2, <4>3 DEF Waiting, Asking
      <4>5. i \in OpenIn("addons") /\ c.owner \in OpenIn("addons")
            /\ tabs[i].row = 0 /\ tabs[c.owner].row = 0
            /\ "addons" \in Sections
        BY <1>0, <2>7, <4>4 DEF Homes, AtItsHome, Addons, OpenIn, Tabs, Placed
      <4>6. i = c.owner BY <1>0, <2>7, <4>4, <4>5 DEF Tabs, Indexed
      <4> QED BY <4>4, <4>6 DEF Busy
    <3> QED BY <3>1, <3>2
  <2> QED BY <1>0, <1>8, <2>2, <2>3, <2>4, <2>6, <2>7 DEF Installed
<1>16. Truth'
  <2>1. ASSUME NEW s \in {"autoUnlock", "mode", "addon"}, shown'[s] # node'[s]
        PROVE  s \in doubt' \/ \E d \in calls' : Setting(d) = s /\ Due(d)
    <3>0. ~read /\ UNCHANGED shown BY <1>6, <2>1
    <3>1. CASE node'[s] = node[s]
      <4>1. shown[s] # node[s] BY <2>1, <3>0, <3>1
      <4>2. CASE s \in doubt
        <5>1. CASE s \in doubt' BY <5>1
        <5>2. CASE s \notin doubt'
          <6>1. c.op = "autoUnlock" /\ a \in {"ok", "kept"} /\ s = "autoUnlock"
            BY <1>6, <3>0, <4>2, <5>2 DEF Doubtful
          <6> QED BY <1>3, <1>4, <6>1 DEF Due, Setting
        <5> QED BY <5>1, <5>2
      <4>3. CASE \E d \in calls : Setting(d) = s /\ Due(d)
        <5>1. PICK d \in calls : Setting(d) = s /\ Due(d) BY <4>3
        <5>2. CASE d # c BY <1>4, <5>1, <5>2
        <5>3. CASE d = c
          <6>1. Reloads(c) BY <1>0, <5>1, <5>3 DEF Due, Reloads
          <6>2. Doubtful(c, a) = doubt \cup {Setting(c)}
            BY <6>1 DEF Doubtful, Reloads
          <6> QED BY <1>6, <3>0, <5>1, <5>3, <6>2
        <5> QED BY <5>2, <5>3
      <4> QED BY <1>0, <4>1, <4>2, <4>3 DEF Truth
    <3>2. CASE node'[s] # node[s]
      <4>1. s = Setting(c) /\ a \in {"ok", "lost"} /\ ~Reloads(c) BY <1>5, <3>2
      <4>2. CASE a = "lost" BY <1>6, <3>0, <4>1, <4>2 DEF Doubtful
      <4>3. CASE a = "ok"
        <5>1. node' = Effect(c) /\ node' # node BY <1>1, <3>2, <4>3
        <5>2. Due(new) /\ Setting(new) = Setting(c)
          BY <1>3, <4>1, <4>3, <5>1 DEF Due, Setting, Effect
        <5> QED BY <1>4, <4>1, <5>2
      <4> QED BY <4>1, <4>2, <4>3
    <3> QED BY <3>1, <3>2
  <2>2. \A d : Enables(d)' = Enables(d) BY <1>0 DEF Enables
  <2>3. Told(new)'
    <3>1. Enables(new) = Enables(c) BY <1>3 DEF Enables
    <3>2. a = "kept" => node.autoUnlock /\ node' = node BY <1>1 DEF Possible
    <3>3. (new.op = "autoUnlock" /\ new.answer = "ok") => node'.autoUnlock = Enables(new)'
      BY <1>3, <1>5, <2>2, <3>1
    <3>4. (new.op = "autoUnlock" /\ new.answer = "kept") => node'.autoUnlock
      BY <1>3, <3>2
    <3> QED BY <3>3, <3>4 DEF Told
  <2>4. ASSUME NEW d \in calls \ {c}, d.op = "autoUnlock"
        PROVE  c.op # "autoUnlock"
    <3>1. Holds(d) BY <2>4 DEF Holds, Modal, Loose, Closable
    <3> QED BY <1>0, <2>4, <3>1 DEF Waiting, Holds, Modal, Loose, Closable
  <2>5. ASSUME "autoUnlock" \notin doubt', NEW d \in calls' PROVE Told(d)'
    <3>1. CASE d = new BY <2>3, <3>1
    <3>2. CASE d \in calls \ {c} /\ d.op = "autoUnlock"
      <4>1. c.op # "autoUnlock" BY <2>4, <3>2
      <4>2. Setting(c) # "autoUnlock" BY <4>1 DEF Setting
      <4>3. node'["autoUnlock"] = node["autoUnlock"] BY <1>5, <4>2
      <4>4. node'.autoUnlock = node.autoUnlock BY <1>0, <1>5, <4>3 DEF Types
      <4>5. "autoUnlock" \notin doubt
        BY <1>6, <2>5, <3>2, <4>1 DEF Doubtful
      <4>6. Told(d) BY <1>0, <3>2, <4>5 DEF Truth
      <4> QED BY <2>2, <4>4, <4>6 DEF Told
    <3>3. CASE d.op # "autoUnlock" BY <3>3 DEF Told
    <3> QED BY <1>4, <2>5, <3>1, <3>2, <3>3
  <2> QED BY <2>1, <2>5 DEF Truth
<1> QED BY <1>9, <1>10, <1>11, <1>13, <1>14, <1>15, <1>16 DEF IInv

\* What tells of the wallet says nothing of the settings.
LEMMA WalletTalkKeeps ==
  ASSUME IInv,
         node' = node \/ node' = [node EXCEPT !.wallet = TRUE],
         \/ shown' = shown
         \/ \E w \in {"unknown", "no", "yes"}, b \in BOOLEAN :
              shown' = [shown EXCEPT !.wallet = w, !.client = b],
         UNCHANGED <<tabs, section, focus, active, screen, calls, doubt, menu>>
  PROVE  IInv'
<1>0. Types /\ Tabs /\ Homes /\ Waiting /\ Ceremony /\ Installed /\ Truth
  BY DEF IInv
<1>1. /\ node' \in [wallet : BOOLEAN, autoUnlock : BOOLEAN,
                    mode : {"tor", "hybrid"}, addon : BOOLEAN]
      /\ node.wallet => node'.wallet
      /\ node'.autoUnlock = node.autoUnlock /\ node'.mode = node.mode
      /\ node'.addon = node.addon
      /\ \A s \in {"autoUnlock", "mode", "addon"} : node'[s] = node[s]
  BY <1>0 DEF Types
<1>2. /\ shown' \in [wallet : {"unknown", "no", "yes"}, client : BOOLEAN,
                     autoUnlock : BOOLEAN, mode : {"tor", "hybrid"}, addon : BOOLEAN]
      /\ shown'.mode = shown.mode /\ shown'.addon = shown.addon
      /\ \A s \in {"autoUnlock", "mode", "addon"} : shown'[s] = shown[s]
  BY <1>0 DEF Types
<1>3. Types' BY <1>0, <1>1, <1>2 DEF Types
<1>4. Tabs' BY <1>0, SameTabs DEF Tabs
<1>5. Homes' BY <1>0 DEF Homes, AtItsHome
<1>6. \A d : Holds(d)' <=> Holds(d) BY <1>2 DEF Holds, Loose, Closable, AllSet
<1>7. Waiting' BY <1>0, <1>6, AskingAgain DEF Waiting
<1>8. Ceremony' BY <1>0, <1>1 DEF Ceremony, Turned
<1>9. Installed' BY <1>0, <1>1, <1>2 DEF Installed
<1>10. Truth'
  <2>1. \A d : Enables(d)' = Enables(d) BY DEF Enables
  <2>2. \A s \in {"autoUnlock", "mode", "addon"} : shown'[s] # node'[s] =>
           s \in doubt \/ \E d \in calls : Setting(d) = s /\ Due(d)
    BY <1>0, <1>1, <1>2 DEF Truth
  <2>3. ASSUME "autoUnlock" \notin doubt, NEW d \in calls PROVE Told(d)'
    <3>1. Told(d) BY <1>0, <2>3 DEF Truth
    <3> QED BY <1>1, <2>1, <3>1 DEF Told
  <2> QED BY <2>2, <2>3 DEF Truth
<1> QED BY <1>3, <1>4, <1>5, <1>7, <1>8, <1>9, <1>10 DEF IInv

\* Another session takes back neither the P2P mode nor the add-on, and what it
\* changes is in doubt from then on.
LEMMA ElsewhereKeeps ==
  ASSUME IInv, NEW s \in {"autoUnlock", "mode", "addon"}, ChangedElsewhere(s),
         UNCHANGED menu
  PROVE  IInv'
<1>0. /\ Types /\ Tabs /\ Homes /\ Waiting /\ Ceremony /\ Installed /\ Truth
      /\ UNCHANGED <<tabs, section, focus, active, screen, calls, shown>>
      /\ doubt' = doubt \cup {s}
  BY DEF IInv, ChangedElsewhere, frame
<1>1. \/ s = "autoUnlock" /\ node' = [node EXCEPT !.autoUnlock = ~@]
      \/ s = "mode" /\ node' = [node EXCEPT !.mode = "hybrid"]
      \/ s = "addon" /\ node' = [node EXCEPT !.addon = TRUE]
  BY DEF ChangedElsewhere
<1>2. /\ node' \in [wallet : BOOLEAN, autoUnlock : BOOLEAN,
                    mode : {"tor", "hybrid"}, addon : BOOLEAN]
      /\ node'.wallet = node.wallet
      /\ node.addon => node'.addon
      /\ node.mode = "hybrid" => node'.mode = "hybrid"
      /\ s # "autoUnlock" => node'.autoUnlock = node.autoUnlock
      /\ \A t \in {"autoUnlock", "mode", "addon"} \ {s} : node'[t] = node[t]
  BY <1>0, <1>1 DEF Types
<1>3. Types' BY <1>0, <1>2 DEF Types
<1>4. Tabs' BY <1>0, SameTabs DEF Tabs
<1>5. Homes' BY <1>0 DEF Homes, AtItsHome
<1>6. \A d : Holds(d)' <=> Holds(d) BY <1>0, SameLoose
<1>7. Waiting' BY <1>0, <1>6, AskingAgain DEF Waiting
<1>8. Ceremony' BY <1>0, <1>2 DEF Ceremony, Turned
<1>9. Installed' BY <1>0, <1>2 DEF Installed
<1>10. Truth'
  <2>1. \A t \in {"autoUnlock", "mode", "addon"} : shown'[t] # node'[t] =>
           t \in doubt' \/ \E d \in calls' : Setting(d) = t /\ Due(d)
    BY <1>0, <1>2 DEF Truth
  <2>2. ASSUME "autoUnlock" \notin doubt', NEW d \in calls' PROVE Told(d)'
    <3>1. s # "autoUnlock" /\ Told(d) BY <1>0, <2>2 DEF Truth
    <3>2. Enables(d)' = Enables(d) BY <1>0 DEF Enables
    <3> QED BY <1>2, <3>1, <3>2 DEF Told
  <2> QED BY <2>1, <2>2 DEF Truth
<1> QED BY <1>3, <1>4, <1>5, <1>7, <1>8, <1>9, <1>10 DEF IInv

-------------------------------------------------------------------------------
(* The specification.                                                      *)

LEMMA Start ==
  ASSUME Init PROVE IInv
<1>0. /\ \A i \in Slots : tabs[i] = NoTab /\ screen[i] = NoScreen
      /\ tabs = [i \in Slots |-> NoTab] /\ section \in Sections
      /\ screen = [i \in Slots |-> NoScreen] /\ calls = {} /\ doubt = {}
      /\ menu \in Menus
      /\ node \in [wallet : BOOLEAN, autoUnlock : {FALSE}, mode : {"tor"}, addon : {FALSE}]
  BY FrameAssumption DEF Init, FrameInit, FrameAssumption
<1>1. PICK w \in {"unknown", "no", "yes"} :
        shown = [wallet |-> w, client |-> w = "yes", autoUnlock |-> FALSE,
                 mode |-> "tor", addon |-> FALSE]
  BY DEF Init
<1>2. /\ NoTab.kind = "none" /\ NoTab.section = "none" /\ NoTab \in Tab
      /\ NoScreen \in [step : Steps, mode : Modes]
  BY DEF NoTab, Tab, NoScreen, Steps, Modes
<1>3. /\ node \in [wallet : BOOLEAN, autoUnlock : BOOLEAN,
                   mode : {"tor", "hybrid"}, addon : BOOLEAN]
      /\ node.mode = "tor" /\ node.addon = FALSE /\ node.autoUnlock = FALSE
  BY <1>0
<1>4. /\ shown \in [wallet : {"unknown", "no", "yes"}, client : BOOLEAN,
                    autoUnlock : BOOLEAN, mode : {"tor", "hybrid"}, addon : BOOLEAN]
      /\ shown.mode = "tor" /\ shown.addon = FALSE /\ shown.autoUnlock = FALSE
  BY <1>1
<1>5. Types BY <1>0, <1>2, <1>3, <1>4, ScreensAssumption DEF Types, ScreensAssumption
<1>6. Tabs
  <2>1. Placed BY <1>0, <1>2 DEF Placed
  <2>2. \A s \in Sections : OpenIn(s) = {} BY <1>0, <1>2 DEF OpenIn
  <2> QED BY <1>0, <2>1, <2>2 DEF Tabs, Indexed
<1>7. Homes /\ Waiting /\ Ceremony BY <1>0, <1>2 DEF Homes, Waiting, Ceremony, Turned
<1>8. Installed BY <1>0, <1>2, <1>3, <1>4 DEF Installed
<1>9. Truth BY <1>0, <1>3, <1>4 DEF Truth
<1> QED BY <1>5, <1>6, <1>7, <1>8, <1>9 DEF IInv

LEMMA StepKeeps ==
  ASSUME IInv, [Next]_vars
  PROVE  IInv'
<1>1. CASE UNCHANGED vars
  BY <1>1, WalletTalkKeeps DEF vars, state, frame
<1>2. ASSUME UNCHANGED menu, CreatedElsewhere PROVE IInv'
  BY <1>2, WalletTalkKeeps DEF CreatedElsewhere, frame
<1>3. ASSUME UNCHANGED menu, Poll PROVE IInv'
  BY <1>3, WalletTalkKeeps DEF Poll, frame
<1>4. ASSUME UNCHANGED menu, PollFails PROVE IInv'
  <2>1. shown' = [shown EXCEPT !.wallet = "unknown", !.client = shown.client]
        /\ shown.client \in BOOLEAN
    BY <1>4 DEF PollFails, IInv, Types
  <2> QED BY <1>4, <2>1, WalletTalkKeeps DEF PollFails, frame
<1>5. ASSUME UNCHANGED menu, NEW v \in {"no", "yes"}, PollDelivered(v) PROVE IInv'
  <2>1. shown' = [shown EXCEPT !.wallet = v, !.client = shown.client \/ v = "yes"]
        /\ (shown.client \/ v = "yes") \in BOOLEAN
    BY <1>5 DEF PollDelivered, Heard
  <2> QED BY <1>5, <2>1, WalletTalkKeeps DEF PollDelivered, frame
<1>6. CASE Next
  BY <1>2, <1>3, <1>4, <1>5, <1>6, OpenKeeps, ScreenKeysKeep, HomeEmitsKeeps,
     FrameKeysKeep, PerformKeeps, UnroutedKeeps, AnsweredKeeps, WalletCreatedKeeps,
     ElsewhereKeeps DEF Next
<1> QED BY <1>1, <1>6

\* A screen that waits holds the keyboard: its call is the only one that does,
\* and the operator cannot look away from it.  The tabs have the indexes and the
\* sections they were opened with, the ceremony of the wallet ends once, and what
\* an installation has brought is not taken back.
THEOREM Invariant == Spec => []IInv
<1>1. Init => IInv BY Start
<1>2. IInv /\ [Next]_vars => IInv' BY StepKeeps
<1> QED BY <1>1, <1>2, PTL DEF Spec

\* Auto-unlock, the P2P mode and the Syncthing add-on are shown as they are on
\* the machine whenever no operation of this session is changing them, unless
\* since the configuration was last read a change was reported as failed that
\* was made, or made by another session (doubt).
THEOREM SettingsAreShown == Spec => []ShownIsTrue
<1>1. IInv => ShownIsTrue BY DEF IInv, Truth, ShownIsTrue
<1> QED BY <1>1, Invariant, PTL

-------------------------------------------------------------------------------
(* Who hears an answer.  The screens are told apart by their kind alone,   *)
(* so the one that asked must have no rival.                               *)

LEMMA AskerIsRouted ==
  ASSUME IInv, NEW c \in calls, Awaited(c), Alone(c)
  PROVE  Asking(c, c.owner) /\ Routed(c.op) = {c.owner}
<1>1. Asking(c, c.owner) BY DEF Awaited, Asking, AtContent, OpenIn
<1>2. c.owner \in OpenIn(section) /\ tabs[c.owner].kind = c.op
  BY DEF Awaited, AtContent
<1>3. ASSUME NEW j \in OpenIn(section), tabs[j].kind = c.op PROVE j = c.owner
  <2>1. /\ j \in Slots /\ tabs[j].section = section /\ tabs[c.owner].section = section
    BY <1>2 DEF OpenIn
  <2> QED BY <1>2, <1>3, <2>1 DEF Alone, Rivals
<1> QED BY <1>1, <1>3, RoutedToOwner DEF Alone

\* What closes the active tab closes the tab of the screen that waits there, and
\* no other: that screen has no children.
LEMMA ClosesItself ==
  ASSUME IInv, NEW c \in calls, Asking(c, c.owner), CloseActive({}),
         NEW remaining, Kept(remaining)
  PROVE  /\ \A j \in Slots \ {c.owner} : screen'[j] = screen[j]
         /\ screen'[c.owner] = NoScreen
<1>0. Types /\ Tabs /\ Homes /\ Indexed(section) /\ c.op \notin {"sshKeys", "syncthing"}
  BY DEF IInv, Tabs, Homes
<1>1. /\ c.owner \in OpenIn(section) /\ tabs[c.owner].at = active
      /\ tabs[c.owner].kind = c.op /\ active # 0
  BY <1>0, OneIsActive DEF Asking, AtContent
<1>2. TabAt(section, active) = c.owner
  BY <1>0, <1>1 DEF TabAt, Indexed
<1>3. tabs' = Without(Doomed(c.owner)) BY <1>1, <1>2 DEF CloseActive, Close
<1>4. c.owner \in Doomed(c.owner)
  <2>1. tabs[c.owner].section = section BY <1>1 DEF OpenIn
  <2> QED BY <1>1, <2>1 DEF Doomed
<1>5. screen'[c.owner] = NoScreen
  <2>1. tabs'[c.owner] = NoTab BY <1>1, <1>3, <1>4 DEF Without, OpenIn
  <2> QED BY <1>1, <2>1 DEF Kept, NoTab, OpenIn
<1>6. tabs[c.owner].section = section /\ c.op # "main"
  BY <1>0, <1>1, FrameAssumption DEF FrameAssumption, Types, Call, OpenIn
<1>7. ASSUME NEW j \in Slots, screen'[j] # screen[j] PROVE j = c.owner
  <2>1. tabs'[j].kind = "none" /\ tabs[j].kind # "none"
    BY <1>0, <1>7 DEF Kept, Types
  <2>2. j \in Doomed(c.owner)
    <3>1. tabs[j] \in Tab BY <1>0 DEF Tabs, Placed
    <3> SUFFICES ASSUME j \notin Doomed(c.owner) PROVE tabs'[j].kind = tabs[j].kind
      BY <2>1
    <3> DEFINE n == Cardinality({d \in Doomed(c.owner) :
                       tabs[d].section = tabs[j].section /\ tabs[d].at < tabs[j].at})
    <3>2. tabs'[j] = [tabs[j] EXCEPT !.at = @ - n] BY <1>3 DEF Without
    <3> HIDE DEF n
    <3> QED BY <3>1, <3>2 DEF Tab
  <2>3. j \in OpenIn(section) /\ tabs[j].kind = c.op /\ tabs[j].row = tabs[c.owner].row
    BY <1>0, <1>1, <1>6, <2>2 DEF Doomed, ParentOf
  <2> QED BY <1>0, <1>1, <2>3 DEF Indexed
<1> QED BY <1>5, <1>7

\* The ceremony turns the tab of the screen that ran it.
LEMMA CeremonyTurnsItself ==
  ASSUME IInv, NEW c \in calls, WalletCreated(c), Asking(c, c.owner), Alone(c)
  PROVE  /\ \A j \in Slots \ {c.owner} : screen'[j] = screen[j]
         /\ ~Busy(c.owner)'
<1> DEFINE wallets(s) == {i \in OpenIn(s) : tabs[i].kind = "wallet"}
<1>0. /\ Types /\ Tabs /\ Homes /\ c.op = "wallet" /\ section \in Sections
      /\ c.owner \in Slots /\ c.owner \in wallets(section)
  BY DEF IInv, WalletCreated, Tabs, Asking, AtContent
<1>1. PICK s \in Sections :
        /\ wallets(s) # {}
        /\ screen' = [screen EXCEPT ![First(wallets(s))] = NewScreen("autoUnlock")]
  BY <1>0 DEF WalletCreated
<1>2. First(wallets(s)) \in wallets(s)
  <2>1. wallets(s) \in SUBSET OpenIn(s) /\ Indexed(s) BY <1>0 DEF Tabs
  <2> HIDE DEF wallets
  <2> QED BY <1>1, <2>1, FirstIsOne
<1>3. First(wallets(s)) = c.owner
  <2> DEFINE f == First(wallets(s))
  <2>1. f \in Slots /\ tabs[f].kind = "wallet" /\ AtItsHome(tabs[f])
    BY <1>0, <1>2 DEF Homes, OpenIn
  <2>2. tabs[f].section # "system" BY <2>1 DEF AtItsHome
  <2>3. tabs[c.owner].kind = "wallet" BY <1>0
  <2> HIDE DEF f
  <2>4. f = c.owner BY <2>1, <2>2, <2>3 DEF Alone, Rivals
  <2> QED BY <2>4 DEF f
<1>4. screen' = [screen EXCEPT ![c.owner] = NewScreen("autoUnlock")] BY <1>1, <1>3
<1>5. screen'[c.owner].step = "form" BY <1>0, <1>4 DEF Types, NewScreen
<1>6. \A j \in Slots \ {c.owner} : screen'[j] = screen[j] BY <1>0, <1>4 DEF Types
<1> QED BY <1>5, <1>6 DEF Busy

LEMMA DeliveredTo ==
  ASSUME IInv, NEW c, NEW i \in Slots, NEW step, Delivered(c, i, step)
  PROVE  /\ \A j \in Slots \ {i} : screen'[j] = screen[j]
         /\ screen'[i].step = step
  BY DEF IInv, Types, Delivered

Onwards(c) ==
  /\ \/ ~Busy(c.owner)'
     \/ Onward(c) \in calls'
     \/ c.op = "wallet" /\ c.stage = 3 /\ c.answer # "ok"
  /\ \A i \in Slots \ {c.owner} : screen'[i] = screen[i]

AnswerIsHeard ==
  \A c \in calls : c.answer # "none" /\ c \notin calls' /\ Modal(c.op)
    => /\ Awaited(c) \/ Closable(c)
       /\ Awaited(c) /\ Alone(c) => Onwards(c)

\* An answer delivered to its screen.
LEMMA HeardByItself ==
  ASSUME IInv, NEW c \in calls, c.answer # "none", Modal(c.op), Answered(c),
         Awaited(c), Alone(c)
  PROVE  Onwards(c)
<1>0. /\ Asking(c, c.owner) /\ Routed(c.op) = {c.owner} /\ c.owner \in Slots
      /\ Busy(c.owner) /\ tabs[c.owner].kind = c.op
      /\ c.stage \in 1..3
  BY AskerIsRouted DEF Asking, IInv, Types, Call
<1>1. \/ Settled(c, c.owner) \/ Removed(c, c.owner) \/ Paired(c, c.owner)
      \/ AutoUnlockDone(c, c.owner) \/ Progress(c, c.owner) \/ WalletAnswer(c, c.owner)
  BY <1>0 DEF Answered
<1>2. ASSUME NEW step, step # "busy", Delivered(c, c.owner, step) PROVE Onwards(c)
  BY <1>0, <1>2, DeliveredTo DEF Onwards, Busy
<1>3. CASE Settled(c, c.owner) BY <1>2, <1>3 DEF Settled
<1>4. CASE Paired(c, c.owner)
  BY <1>2, <1>4 DEF Paired
<1>5. CASE Removed(c, c.owner)
  <2>1. CASE c.answer = "ok"
    <3>1. CloseActive({}) /\ Kept(calls \ {c}) BY <1>5, <2>1 DEF Removed
    <3>2. /\ \A i \in Slots \ {c.owner} : screen'[i] = screen[i]
          /\ screen'[c.owner] = NoScreen
      BY <1>0, <3>1, ClosesItself
    <3> QED BY <3>2 DEF Onwards, Busy, NoScreen
  <2>2. CASE c.answer # "ok" BY <1>2, <1>5, <2>2 DEF Removed
  <2> QED BY <2>1, <2>2
<1>6. CASE AutoUnlockDone(c, c.owner)
  <2>1. CASE c.answer \notin {"ok", "kept"}
    BY <1>2, <1>6, <2>1 DEF AutoUnlockDone
  <2>2. CASE c.answer \in {"ok", "kept"}
    <3>1. PICK mode : screen' = [screen EXCEPT ![c.owner].step = "done",
                                               ![c.owner].mode = mode]
      BY <1>6, <2>2 DEF AutoUnlockDone
    <3>2. /\ \A i \in Slots \ {c.owner} : screen'[i] = screen[i]
          /\ screen'[c.owner].step = "done"
      BY <1>0, <3>1 DEF IInv, Types
    <3> QED BY <3>2 DEF Onwards, Busy
  <2> QED BY <2>1, <2>2
<1>7. ASSUME Continued(c, c.stage + 1) PROVE Onwards(c)
  BY <1>7 DEF Continued, Onwards, Onward
<1>8. CASE Progress(c, c.owner)
  <2>1. CASE c.answer = "ok" /\ c.stage = 1 /\ tabs[c.owner].kind # "update"
    <3>1. Continued(c, 2) BY <1>0, <1>8, <2>1 DEF Progress
    <3>2. c.stage + 1 = 2 BY <2>1
    <3> QED BY <1>7, <3>1, <3>2
  <2>2. CASE ~(c.answer = "ok" /\ c.stage = 1 /\ tabs[c.owner].kind # "update")
    <3>1. Delivered(c, c.owner, "done") BY <1>0, <1>8, <2>2 DEF Progress
    <3> QED BY <1>2, <3>1
  <2> QED BY <2>1, <2>2
<1>9. CASE WalletAnswer(c, c.owner)
  <2>1. CASE c.stage < 3 /\ c.answer = "ok"
    <3>1. Continued(c, c.stage + 1) BY <1>9, <2>1 DEF WalletAnswer
    <3> QED BY <1>7, <3>1
  <2>2. CASE c.stage < 3 /\ c.answer # "ok"
    <3>0. c.stage # 3 BY <1>0, <2>2
    <3>1. Delivered(c, c.owner, "failed") BY <1>9, <2>2, <3>0 DEF WalletAnswer
    <3> QED BY <1>2, <3>1
  <2>3. CASE c.stage = 3
    <3>1. c.op = "wallet" /\ c.answer # "ok" /\ Delivered(c, c.owner, screen[c.owner].step)
      BY <1>9, <2>3 DEF WalletAnswer
    <3> QED BY <1>0, <2>3, <3>1, DeliveredTo DEF Onwards
  <2> QED BY <1>0, <2>1, <2>2, <2>3
<1> QED BY <1>1, <1>3, <1>4, <1>5, <1>6, <1>8, <1>9


LEMMA HeardStep ==
  ASSUME IInv, [Next]_vars
  PROVE  AnswerIsHeard
<1> SUFFICES ASSUME NEW c \in calls, c.answer # "none", c \notin calls', Modal(c.op)
             PROVE  /\ Awaited(c) \/ Closable(c)
                    /\ Awaited(c) /\ Alone(c) => Onwards(c)
  BY DEF AnswerIsHeard
<1>0. Awaited(c) \/ Closable(c)
  BY DEF IInv, Waiting, Holds, Loose, Asking, Awaited
<1> SUFFICES ASSUME Awaited(c), Alone(c) PROVE Onwards(c)
  BY <1>0
<1>1. /\ Asking(c, c.owner) /\ Routed(c.op) = {c.owner} /\ Tabs
      /\ AtContent(c.owner) /\ Busy(c.owner) /\ Modal(tabs[c.owner].kind)
  BY AskerIsRouted DEF Asking, IInv
\* No key is taken: none closes the tab of a call.
<1>2. ASSUME NEW i \in Slots, ScreenEmits(i) PROVE FALSE
  <2>1. AtContent(i) /\ (~Busy(i) \/ ~Modal(tabs[i].kind))
    BY <1>2 DEF ScreenEmits, Exits
  <2> QED BY <1>1, <2>1, OneIsActive
<1>3. ASSUME FrameKeys PROVE FALSE
  <2>1. focus # "content"
    BY <1>3 DEF FrameKeys, SidebarUp, SidebarEnter, TabBarEnter, TabBarLeft,
                TabBarRight, TabBarClose
  <2> QED BY <1>1, <2>1 DEF AtContent
<1>4. ASSUME NEW i \in Slots, ScreenKeys(i) PROVE FALSE
  <2>1. calls \subseteq calls'
    BY <1>2, <1>4 DEF ScreenKeys, PasswordKeys, KeyAddKeys, KeyDetailKeys, PasswordAuthKeys,
       P2PKeys, UpdateKeys, InstallKeys, WalletKeys, AutoUnlockKeys, PairKeys,
       DeviceKeys, Confirmed, Move, Submit, Begin
  <2> QED BY <2>1
\* The calls of the others: a removal may close its tab.
<1>5. ASSUME NEW d \in calls, Perform(d) PROVE FALSE
  <2>1. d.answer = "none" /\ calls \ {d} \subseteq calls' BY <1>5 DEF Perform
  <2> QED BY <2>1
<1>6. ASSUME NEW d \in calls, Answered(d), d # c PROVE Onwards(c)
  <2>1. PICK i \in Routed(d.op) :
          \/ Settled(d, i) \/ Removed(d, i) \/ Paired(d, i) \/ AutoUnlockDone(d, i)
          \/ Progress(d, i) \/ WalletAnswer(d, i)
    BY <1>6 DEF Answered
  <2>2. CASE Removed(d, i)
    <3>1. CASE d.answer = "ok"
      <4>1. CloseActive({}) /\ Kept(calls \ {d}) BY <2>2, <3>1 DEF Removed
      <4>2. /\ \A j \in Slots \ {c.owner} : screen'[j] = screen[j]
            /\ screen'[c.owner] = NoScreen
        BY <1>1, <4>1, ClosesItself
      <4> QED BY <4>2 DEF Onwards, Busy, NoScreen
    <3>2. CASE d.answer # "ok" BY <1>6, <2>2, <3>2 DEF Removed, Delivered
    <3> QED BY <3>1, <3>2
  <2>3. CASE Settled(d, i) \/ Paired(d, i)
    BY <1>6, <2>3 DEF Settled, Paired, Delivered
  <2>4. CASE AutoUnlockDone(d, i)
    BY <1>6, <2>4 DEF AutoUnlockDone, Delivered
  <2>5. CASE Progress(d, i)
    BY <1>6, <2>5 DEF Progress, Delivered, Continued
  <2>6. CASE WalletAnswer(d, i)
    <3>1. \/ Continued(d, d.stage + 1) \/ Delivered(d, i, "failed")
          \/ Delivered(d, i, screen[i].step)
      <4>1. CASE d.stage < 3 BY <2>6, <4>1 DEF WalletAnswer
      <4>2. CASE d.stage = 3 BY <2>6, <4>2 DEF WalletAnswer
      <4>3. d.stage \in 1..3 BY DEF IInv, Types, Call
      <4> QED BY <4>1, <4>2, <4>3
    <3> QED BY <1>6, <3>1 DEF Delivered, Continued
  <2> QED BY <2>1, <2>2, <2>3, <2>4, <2>5, <2>6
<1>7. ASSUME NEW d \in calls, d # c, Unrouted(d) \/ WalletCreated(d) PROVE FALSE
  BY <1>7 DEF Unrouted, WalletCreated
\* Its own.
<1>8. ASSUME Unrouted(c) PROVE FALSE BY <1>1, <1>8 DEF Unrouted
<1>9. CASE WalletCreated(c)
  BY <1>1, <1>9, CeremonyTurnsItself DEF Onwards
<1>10. CASE Answered(c) BY <1>10, HeardByItself
<1>11. CASE UNCHANGED vars BY <1>11 DEF vars, state
<1>12. ASSUME \/ HomeEmits \/ CreatedElsewhere \/ Poll \/ PollFails
              \/ \E v \in {"no", "yes"} : PollDelivered(v)
              \/ \E kind \in menu, row \in Rows \cup {0} : Open(kind, row)
              \/ \E s \in {"autoUnlock", "mode", "addon"} : ChangedElsewhere(s)
       PROVE  FALSE
  BY <1>12 DEF HomeEmits, CreatedElsewhere, Poll, PollFails, PollDelivered, Open,
               ChangedElsewhere
<1> QED BY <1>3, <1>4, <1>5, <1>6, <1>7, <1>8, <1>9, <1>10, <1>11, <1>12 DEF Next

\* An answer is routed by kind and by what the operator looks at (routeToScreen),
\* and still: when it comes, the screen that asked waits for it under his eyes,
\* unless both settings of an installation are shown and its tab could be closed;
\* and where no rival is open there, it ends the waiting of that screen or starts
\* its next stage, and changes no other.
THEOREM AnswersFindTheirScreen == Spec => AnswersReachTheirScreen
<1>1. ASSUME IInv, [Next]_vars PROVE [AnswerIsHeard]_vars
  BY <1>1, HeardStep
<1> QED BY <1>1, Invariant, PTL
        DEF Spec, AnswersReachTheirScreen, AnswerIsHeard, Onwards

=============================================================================
