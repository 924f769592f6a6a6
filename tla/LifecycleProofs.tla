---------------------------- MODULE LifecycleProofs ----------------------------
(***************************************************************************)
(* The publication of an installation for every number of networks,        *)
(* records and interruptions, on a file system with one ordered journal.   *)
(* NeverRefused is not inductive: whether a tree is recognised after a     *)
(* power loss depends on how far behind the durable one can be, and what   *)
(* the next call leaves depends on what the calls before it have done.     *)
(***************************************************************************)
EXTENDS Lifecycle, TLAPS

(* The labels between two points of completeLifecycleBootstrap.            *)
Layout == {"layout.clean", "layout.cleaned", "layout.stage", "layout.rename",
           "layout.sync"}
Opening == {"tree.open", "tree.sync", "boot.remove"}
Ledger == {"ledger.clean", "ledger.cleaned", "ledger.stage", "ledger.rename",
           "ledger.sync"}
Made == {"private.mode", "private.secure.new", "private.sync"} \cup Ledger \cup Layout
          \cup Opening
HasLib == {"lib.secure", "lib.mode", "lib.secure.new", "lib.sync", "private.make"}
            \cup Made
Booting == {"boot.sync", "lib.make"} \cup HasLib
Stepping == {"step.apply", "step.record", "step.sync", "done"}

(* A tree without its bootstrap file is empty or complete.                 *)
Published(t) ==
  /\ t.boot = None /\ t.lib /\ t.private /\ t.layout /\ t.open
  /\ t.ledger # NoLedger /\ ~t.ledgerStage /\ ~t.layoutStage
  /\ t.network \in Networks

Blank(t) == t.boot = None /\ ~t.lib /\ ~t.evidence

(* ... and one with it can be resumed.                                     *)
Bootstrapping(t) ==
  /\ t.boot # None /\ ~t.evidence
  /\ t.ledgerStage => t.ledger = NoLedger /\ ~t.layoutStage /\ ~t.layout
  /\ t.ledger \in {NoLedger, Initial}
  /\ t.ledger = Initial => t.network = t.boot
  /\ t.layoutStage => t.ledger = Initial /\ ~t.layout
  /\ t.layout => t.ledger = Initial

(* Nothing stands in a directory that does not exist.                      *)
Nested(t) ==
  /\ ~t.lib => ~t.open /\ ~t.private
  /\ ~t.private => /\ ~t.ledgerStage /\ t.ledger = NoLedger /\ t.network = None
                   /\ ~t.layoutStage /\ ~t.layout

Sound(t) == Nested(t) /\ (Blank(t) \/ Bootstrapping(t) \/ Published(t))

(* What the calls so far have made.                                        *)
Progress ==
  /\ pc = "boot.create" => Blank(seen)
  /\ pc # "idle" => ctx \in Networks
  /\ pc \in Booting => seen.boot = ctx
  /\ pc \in HasLib => seen.lib
  /\ pc \in Made => seen.private
  /\ pc \in {"ledger.cleaned", "ledger.stage"} => ~seen.ledgerStage
  /\ pc = "ledger.rename" => seen.ledger = NoLedger
  /\ pc = "ledger.sync" \/ pc \in Layout \cup Opening =>
       ~seen.ledgerStage /\ seen.ledger = Initial
  /\ pc \in {"layout.cleaned", "layout.stage"} => ~seen.layoutStage
  /\ pc = "layout.rename" => ~seen.layout
  /\ pc = "layout.sync" \/ pc \in Opening => seen.layout /\ ~seen.layoutStage
  /\ pc \in {"tree.sync", "boot.remove"} => seen.open
  /\ pc = "boot.removed" => Published(seen) /\ seen.ledger = Initial
  /\ pc \in Stepping => Published(seen)
  /\ pc \in {"step.apply", "step.record"} => seen.ledger < Complete

(* The durable tree is an earlier stage of the visible one.                *)
Behind ==
  /\ kept.ledger <= seen.ledger
  /\ kept.boot # None => kept.boot = Context(seen)
  /\ Published(kept) => Published(seen) /\ kept.network = seen.network

IInv == TypeOK /\ Sound(seen) /\ Sound(kept) /\ Progress /\ Behind

(* Constants.                                                              *)
LEMMA LedgerFacts ==
  /\ NoLedger = 0 /\ Initial = 1 /\ Complete \in Nat /\ Complete > 1
  /\ Ledgers = 0..Complete
  BY RecordsAssumption DEF NoLedger, Initial, Complete, Ledgers

(* On an ordered journal every fsync commits the whole tree.               *)
LEMMA Flushes ==
  ASSUME OrderedJournal, seen \in Trees, NEW d
  PROVE  Synced(d) = seen
  BY DEF Synced, Trees, Holder

(* A sound tree is one the installer recognises.                           *)
LEMMA SoundIsRecognised ==
  ASSUME NEW t \in Trees, Sound(t)
  PROVE  /\ Disposition(t) # "refused"
         /\ Disposition(t) = "pristine" <=> Blank(t)
         /\ Disposition(t) = "bootstrap" <=> Bootstrapping(t)
         /\ Disposition(t) = "completed" <=> Published(t) /\ t.ledger = Complete
         /\ Disposition(t) = "resumable" <=> Published(t) /\ t.ledger # Complete
         /\ Context(t) = IF t.boot # None THEN t.boot
                         ELSE IF Published(t) THEN t.network ELSE None
  BY LedgerFacts, NetworkAssumption DEF Trees, Sound, Nested, Blank, Bootstrapping, Published,
     Disposition, Context, Marked, MarkedTree, BootstrapTree

(* A power loss returns to a sound durable tree as it is.                  *)
LEMMA Survival ==
  ASSUME kept \in Trees, Sound(kept)
  PROVE  Survivors = kept
<1>1. ASSUME NEW n \in DOMAIN Holder, ~Survives(n)
      PROVE  kept[n] = Empty[n]
  <2>1. /\ ~kept.lib => ~kept.open /\ ~kept.private
        /\ ~kept.private => /\ ~kept.ledgerStage /\ kept.ledger = NoLedger
                            /\ kept.network = None /\ ~kept.layoutStage /\ ~kept.layout
    BY DEF Sound, Nested
  <2>2. n \notin {"boot", "lib", "evidence"}
    BY <1>1 DEF Survives, Holder
  <2>3. ~kept.private
    BY <1>1, <2>1, <2>2 DEF Survives, Holder
  <2>4. CASE n \in {"open", "private"}
    <3>1. ~kept.open
      BY <1>1, <2>1, <2>4 DEF Survives, Holder
    <3>2. kept.open = FALSE /\ kept.private = FALSE
      BY <2>3, <3>1 DEF Trees
    <3>3. Empty.open = FALSE /\ Empty.private = FALSE
      BY DEF Empty
    <3> QED  BY <2>4, <3>2, <3>3
  <2>5. CASE n \in {"ledgerStage", "ledger", "network", "layoutStage", "layout"}
    <3>1. /\ kept.ledgerStage = FALSE /\ kept.layoutStage = FALSE /\ kept.layout = FALSE
          /\ kept.ledger = NoLedger /\ kept.network = None
      BY <2>1, <2>3 DEF Trees
    <3>2. /\ Empty.ledgerStage = FALSE /\ Empty.layoutStage = FALSE
          /\ Empty.layout = FALSE /\ Empty.ledger = NoLedger /\ Empty.network = None
      BY DEF Empty
    <3> QED  BY <2>5, <3>1, <3>2
  <2> QED  BY <2>2, <2>4, <2>5 DEF Holder
<1> QED  BY <1>1 DEF Survivors, Trees, Holder

THEOREM InitialState == Init => IInv
  BY LedgerFacts, NetworkAssumption, InterruptionBound
  DEF Init, IInv, TypeOK, Trees, Labels, Empty, Sound, Nested, Blank, Bootstrapping,
      Published, Progress, Behind, Context, Marked, Booting, Layout, Opening, Ledger, Made, HasLib, Stepping

(* InitializeLifecycle preserves the invariant, call by call.            *)
LEMMA InitializeLifecycleKeeps ==
  ASSUME IInv, OrderedJournal, InitializeLifecycle
  PROVE  IInv'
<1> USE LedgerFacts, NetworkAssumption DEF IInv, TypeOK, Trees, Labels, Sound, Nested, Blank,
      Bootstrapping, Published, Progress, Behind, Context, Marked, Call, Sync
<1>1. CASE seen.boot = None /\ Call("boot.create", "boot.sync", [seen EXCEPT !.boot = ctx])
  <2>1. TypeOK'
    BY <1>1
  <2>2. Sound(seen)'
    BY <1>1 DEF Booting, Layout, Opening, Ledger, Made, HasLib, Stepping
  <2>3. Sound(kept)'
    BY <1>1
  <2>4. Progress'
    BY <1>1, <2>2 DEF Booting, Layout, Opening, Ledger, Made, HasLib, Stepping
  <2>5. Behind'
    BY <1>1 DEF Booting, Layout, Opening, Ledger, Made, HasLib, Stepping
  <2> QED  BY <2>1, <2>2, <2>3, <2>4, <2>5
<1>2. CASE Sync("boot.sync", "/var/lib", "lib.make")
  BY <1>2, Flushes DEF Booting, Layout, Opening, Ledger, Made, HasLib, Stepping
<1> QED  BY <1>1, <1>2 DEF InitializeLifecycle

(* MakeDirectories preserves the invariant, call by call.                *)
LEMMA MakeDirectoriesKeeps ==
  ASSUME IInv, OrderedJournal, MakeDirectories
  PROVE  IInv'
<1> USE LedgerFacts, NetworkAssumption DEF IInv, TypeOK, Trees, Labels, Sound, Nested, Blank,
      Bootstrapping, Published, Progress, Behind, Context, Marked, Call, Sync
<1>1. CASE /\ Disposition(seen) = "bootstrap" /\ seen.boot = ctx
         /\ IF seen.lib THEN Call("lib.make", "lib.secure", seen)
            ELSE Call("lib.make", "lib.secure.new", [seen EXCEPT !.lib = TRUE])
  <2>1. CASE seen.lib
  <3>1. TypeOK'
    BY <1>1, SoundIsRecognised, <2>1
  <3>2. Sound(seen)'
    BY <1>1, SoundIsRecognised, <2>1 DEF Booting, Layout, Opening, Ledger, Made, HasLib, Stepping
  <3>3. Sound(kept)'
    BY <1>1, SoundIsRecognised, <2>1
  <3>4. Progress'
    BY <1>1, SoundIsRecognised, <2>1, <3>2 DEF Booting, Layout, Opening, Ledger, Made, HasLib, Stepping
  <3>5. Behind'
    BY <1>1, SoundIsRecognised, <2>1 DEF Booting, Layout, Opening, Ledger, Made, HasLib, Stepping
  <3> QED  BY <3>1, <3>2, <3>3, <3>4, <3>5
  <2>2. CASE ~(seen.lib)
  <3>1. TypeOK'
    BY <1>1, SoundIsRecognised, <2>2
  <3>2. Sound(seen)'
    BY <1>1, SoundIsRecognised, <2>2 DEF Booting, Layout, Opening, Ledger, Made, HasLib, Stepping
  <3>3. Sound(kept)'
    BY <1>1, SoundIsRecognised, <2>2
  <3>4. Progress'
    BY <1>1, SoundIsRecognised, <2>2, <3>2 DEF Booting, Layout, Opening, Ledger, Made, HasLib, Stepping
  <3>5. Behind'
    BY <1>1, SoundIsRecognised, <2>2 DEF Booting, Layout, Opening, Ledger, Made, HasLib, Stepping
  <3> QED  BY <3>1, <3>2, <3>3, <3>4, <3>5
  <2> QED  BY <2>1, <2>2
<1>2. CASE Call("lib.secure", "lib.mode", [seen EXCEPT !.open = FALSE])
  <2>1. TypeOK'
    BY <1>2
  <2>2. Sound(seen)'
    BY <1>2 DEF Booting, Layout, Opening, Ledger, Made, HasLib, Stepping
  <2>3. Sound(kept)'
    BY <1>2
  <2>4. Progress'
    BY <1>2, <2>2 DEF Booting, Layout, Opening, Ledger, Made, HasLib, Stepping
  <2>5. Behind'
    BY <1>2 DEF Booting, Layout, Opening, Ledger, Made, HasLib, Stepping
  <2> QED  BY <2>1, <2>2, <2>3, <2>4, <2>5
<1>3. CASE Sync("lib.mode", "/var/lib/vpn", "private.make")
  BY <1>3, Flushes DEF Booting, Layout, Opening, Ledger, Made, HasLib, Stepping
<1>4. CASE Sync("lib.secure.new", "/var/lib/vpn", "lib.sync")
  BY <1>4, Flushes DEF Booting, Layout, Opening, Ledger, Made, HasLib, Stepping
<1>5. CASE Sync("lib.sync", "/var/lib", "private.make")
  BY <1>5, Flushes DEF Booting, Layout, Opening, Ledger, Made, HasLib, Stepping
<1>6. CASE IF seen.private THEN Call("private.make", "private.mode", seen)
         ELSE Call("private.make", "private.secure.new", [seen EXCEPT !.private = TRUE])
  <2>1. CASE seen.private
  <3>1. TypeOK'
    BY <1>6, <2>1
  <3>2. Sound(seen)'
    BY <1>6, <2>1 DEF Booting, Layout, Opening, Ledger, Made, HasLib, Stepping
  <3>3. Sound(kept)'
    BY <1>6, <2>1
  <3>4. Progress'
    BY <1>6, <2>1, <3>2 DEF Booting, Layout, Opening, Ledger, Made, HasLib, Stepping
  <3>5. Behind'
    BY <1>6, <2>1 DEF Booting, Layout, Opening, Ledger, Made, HasLib, Stepping
  <3> QED  BY <3>1, <3>2, <3>3, <3>4, <3>5
  <2>2. CASE ~(seen.private)
  <3>1. TypeOK'
    BY <1>6, <2>2
  <3>2. Sound(seen)'
    BY <1>6, <2>2 DEF Booting, Layout, Opening, Ledger, Made, HasLib, Stepping
  <3>3. Sound(kept)'
    BY <1>6, <2>2
  <3>4. Progress'
    BY <1>6, <2>2, <3>2 DEF Booting, Layout, Opening, Ledger, Made, HasLib, Stepping
  <3>5. Behind'
    BY <1>6, <2>2 DEF Booting, Layout, Opening, Ledger, Made, HasLib, Stepping
  <3> QED  BY <3>1, <3>2, <3>3, <3>4, <3>5
  <2> QED  BY <2>1, <2>2
<1>7. CASE Sync("private.mode", "/var/lib/vpn/private", "ledger.clean")
  BY <1>7, Flushes DEF Booting, Layout, Opening, Ledger, Made, HasLib, Stepping
<1>8. CASE Sync("private.secure.new", "/var/lib/vpn/private", "private.sync")
  BY <1>8, Flushes DEF Booting, Layout, Opening, Ledger, Made, HasLib, Stepping
<1>9. CASE Sync("private.sync", "/var/lib/vpn", "ledger.clean")
  BY <1>9, Flushes DEF Booting, Layout, Opening, Ledger, Made, HasLib, Stepping
<1> QED  BY <1>1, <1>2, <1>3, <1>4, <1>5, <1>6, <1>7, <1>8, <1>9 DEF MakeDirectories

(* PublishLedger preserves the invariant, call by call.                  *)
LEMMA PublishLedgerKeeps ==
  ASSUME IInv, OrderedJournal, PublishLedger
  PROVE  IInv'
<1> USE LedgerFacts, NetworkAssumption DEF IInv, TypeOK, Trees, Labels, Sound, Nested, Blank,
      Bootstrapping, Published, Progress, Behind, Context, Marked, Call, Sync
<1>1. CASE IF seen.ledgerStage
         THEN Call("ledger.clean", "ledger.cleaned", [seen EXCEPT !.ledgerStage = FALSE])
         ELSE Call("ledger.clean", "ledger.stage", seen)
  <2>1. CASE seen.ledgerStage
  <3>1. TypeOK'
    BY <1>1, <2>1
  <3>2. Sound(seen)'
    BY <1>1, <2>1 DEF Booting, Layout, Opening, Ledger, Made, HasLib, Stepping
  <3>3. Sound(kept)'
    BY <1>1, <2>1
  <3>4. Progress'
    BY <1>1, <2>1, <3>2 DEF Booting, Layout, Opening, Ledger, Made, HasLib, Stepping
  <3>5. Behind'
    BY <1>1, <2>1 DEF Booting, Layout, Opening, Ledger, Made, HasLib, Stepping
  <3> QED  BY <3>1, <3>2, <3>3, <3>4, <3>5
  <2>2. CASE ~(seen.ledgerStage)
  <3>1. TypeOK'
    BY <1>1, <2>2
  <3>2. Sound(seen)'
    BY <1>1, <2>2 DEF Booting, Layout, Opening, Ledger, Made, HasLib, Stepping
  <3>3. Sound(kept)'
    BY <1>1, <2>2
  <3>4. Progress'
    BY <1>1, <2>2, <3>2 DEF Booting, Layout, Opening, Ledger, Made, HasLib, Stepping
  <3>5. Behind'
    BY <1>1, <2>2 DEF Booting, Layout, Opening, Ledger, Made, HasLib, Stepping
  <3> QED  BY <3>1, <3>2, <3>3, <3>4, <3>5
  <2> QED  BY <2>1, <2>2
<1>2. CASE Sync("ledger.cleaned", "/var/lib/vpn/private", "ledger.stage")
  BY <1>2, Flushes DEF Booting, Layout, Opening, Ledger, Made, HasLib, Stepping
<1>3. CASE IF seen.ledger = NoLedger
         THEN Call("ledger.stage", "ledger.rename", [seen EXCEPT !.ledgerStage = TRUE])
         ELSE /\ seen.ledger = Initial /\ seen.network = ctx
              /\ Call("ledger.stage", "layout.clean", seen)
  <2>1. CASE seen.ledger = NoLedger
  <3>1. TypeOK'
    BY <1>3, <2>1
  <3>2. Sound(seen)'
    BY <1>3, <2>1 DEF Booting, Layout, Opening, Ledger, Made, HasLib, Stepping
  <3>3. Sound(kept)'
    BY <1>3, <2>1
  <3>4. Progress'
    BY <1>3, <2>1, <3>2 DEF Booting, Layout, Opening, Ledger, Made, HasLib, Stepping
  <3>5. Behind'
    BY <1>3, <2>1 DEF Booting, Layout, Opening, Ledger, Made, HasLib, Stepping
  <3> QED  BY <3>1, <3>2, <3>3, <3>4, <3>5
  <2>2. CASE ~(seen.ledger = NoLedger)
  <3>1. TypeOK'
    BY <1>3, <2>2
  <3>2. Sound(seen)'
    BY <1>3, <2>2 DEF Booting, Layout, Opening, Ledger, Made, HasLib, Stepping
  <3>3. Sound(kept)'
    BY <1>3, <2>2
  <3>4. Progress'
    BY <1>3, <2>2, <3>2 DEF Booting, Layout, Opening, Ledger, Made, HasLib, Stepping
  <3>5. Behind'
    BY <1>3, <2>2 DEF Booting, Layout, Opening, Ledger, Made, HasLib, Stepping
  <3> QED  BY <3>1, <3>2, <3>3, <3>4, <3>5
  <2> QED  BY <2>1, <2>2
<1>4. CASE Call("ledger.rename", "ledger.sync",
              [seen EXCEPT !.ledgerStage = FALSE, !.ledger = Initial, !.network = ctx])
  <2> USE <1>4
  <2>0. ctx \in Networks /\ Initial \in Ledgers
    OBVIOUS
  <2>9. seen' \in Trees
    BY <2>0
  <2>1. TypeOK'
    BY <2>9
  <2>2. Sound(seen)'
    BY <1>4 DEF Booting, Layout, Opening, Ledger, Made, HasLib, Stepping
  <2>3. Sound(kept)'
    BY <1>4
  <2>4. Progress'
    BY <1>4, <2>2 DEF Booting, Layout, Opening, Ledger, Made, HasLib, Stepping
  <2>5. Behind'
    BY <1>4 DEF Booting, Layout, Opening, Ledger, Made, HasLib, Stepping
  <2> QED  BY <2>1, <2>2, <2>3, <2>4, <2>5
<1>5. CASE Sync("ledger.sync", "/var/lib/vpn/private", "layout.clean")
  BY <1>5, Flushes DEF Booting, Layout, Opening, Ledger, Made, HasLib, Stepping
<1> QED  BY <1>1, <1>2, <1>3, <1>4, <1>5 DEF PublishLedger

(* PublishLayout preserves the invariant, call by call.                  *)
LEMMA PublishLayoutKeeps ==
  ASSUME IInv, OrderedJournal, PublishLayout
  PROVE  IInv'
<1> USE LedgerFacts, NetworkAssumption DEF IInv, TypeOK, Trees, Labels, Sound, Nested, Blank,
      Bootstrapping, Published, Progress, Behind, Context, Marked, Call, Sync
<1>1. CASE IF seen.layoutStage
         THEN Call("layout.clean", "layout.cleaned", [seen EXCEPT !.layoutStage = FALSE])
         ELSE Call("layout.clean", "layout.stage", seen)
  <2>1. CASE seen.layoutStage
  <3>1. TypeOK'
    BY <1>1, <2>1
  <3>2. Sound(seen)'
    BY <1>1, <2>1 DEF Booting, Layout, Opening, Ledger, Made, HasLib, Stepping
  <3>3. Sound(kept)'
    BY <1>1, <2>1
  <3>4. Progress'
    BY <1>1, <2>1, <3>2 DEF Booting, Layout, Opening, Ledger, Made, HasLib, Stepping
  <3>5. Behind'
    BY <1>1, <2>1 DEF Booting, Layout, Opening, Ledger, Made, HasLib, Stepping
  <3> QED  BY <3>1, <3>2, <3>3, <3>4, <3>5
  <2>2. CASE ~(seen.layoutStage)
  <3>1. TypeOK'
    BY <1>1, <2>2
  <3>2. Sound(seen)'
    BY <1>1, <2>2 DEF Booting, Layout, Opening, Ledger, Made, HasLib, Stepping
  <3>3. Sound(kept)'
    BY <1>1, <2>2
  <3>4. Progress'
    BY <1>1, <2>2, <3>2 DEF Booting, Layout, Opening, Ledger, Made, HasLib, Stepping
  <3>5. Behind'
    BY <1>1, <2>2 DEF Booting, Layout, Opening, Ledger, Made, HasLib, Stepping
  <3> QED  BY <3>1, <3>2, <3>3, <3>4, <3>5
  <2> QED  BY <2>1, <2>2
<1>2. CASE Sync("layout.cleaned", "/var/lib/vpn/private", "layout.stage")
  BY <1>2, Flushes DEF Booting, Layout, Opening, Ledger, Made, HasLib, Stepping
<1>3. CASE IF seen.layout THEN Call("layout.stage", "tree.open", seen)
         ELSE Call("layout.stage", "layout.rename", [seen EXCEPT !.layoutStage = TRUE])
  <2>1. CASE seen.layout
  <3>1. TypeOK'
    BY <1>3, <2>1
  <3>2. Sound(seen)'
    BY <1>3, <2>1 DEF Booting, Layout, Opening, Ledger, Made, HasLib, Stepping
  <3>3. Sound(kept)'
    BY <1>3, <2>1
  <3>4. Progress'
    BY <1>3, <2>1, <3>2 DEF Booting, Layout, Opening, Ledger, Made, HasLib, Stepping
  <3>5. Behind'
    BY <1>3, <2>1 DEF Booting, Layout, Opening, Ledger, Made, HasLib, Stepping
  <3> QED  BY <3>1, <3>2, <3>3, <3>4, <3>5
  <2>2. CASE ~(seen.layout)
  <3>1. TypeOK'
    BY <1>3, <2>2
  <3>2. Sound(seen)'
    BY <1>3, <2>2 DEF Booting, Layout, Opening, Ledger, Made, HasLib, Stepping
  <3>3. Sound(kept)'
    BY <1>3, <2>2
  <3>4. Progress'
    BY <1>3, <2>2, <3>2 DEF Booting, Layout, Opening, Ledger, Made, HasLib, Stepping
  <3>5. Behind'
    BY <1>3, <2>2 DEF Booting, Layout, Opening, Ledger, Made, HasLib, Stepping
  <3> QED  BY <3>1, <3>2, <3>3, <3>4, <3>5
  <2> QED  BY <2>1, <2>2
<1>4. CASE Call("layout.rename", "layout.sync",
              [seen EXCEPT !.layoutStage = FALSE, !.layout = TRUE])
  <2>1. TypeOK'
    BY <1>4
  <2>2. Sound(seen)'
    BY <1>4 DEF Booting, Layout, Opening, Ledger, Made, HasLib, Stepping
  <2>3. Sound(kept)'
    BY <1>4
  <2>4. Progress'
    BY <1>4, <2>2 DEF Booting, Layout, Opening, Ledger, Made, HasLib, Stepping
  <2>5. Behind'
    BY <1>4 DEF Booting, Layout, Opening, Ledger, Made, HasLib, Stepping
  <2> QED  BY <2>1, <2>2, <2>3, <2>4, <2>5
<1>5. CASE Sync("layout.sync", "/var/lib/vpn/private", "tree.open")
  BY <1>5, Flushes DEF Booting, Layout, Opening, Ledger, Made, HasLib, Stepping
<1> QED  BY <1>1, <1>2, <1>3, <1>4, <1>5 DEF PublishLayout

(* OpenTree preserves the invariant, call by call.                       *)
LEMMA OpenTreeKeeps ==
  ASSUME IInv, OrderedJournal, OpenTree
  PROVE  IInv'
<1> USE LedgerFacts, NetworkAssumption DEF IInv, TypeOK, Trees, Labels, Sound, Nested, Blank,
      Bootstrapping, Published, Progress, Behind, Context, Marked, Call, Sync
<1>1. CASE Call("tree.open", "tree.sync", [seen EXCEPT !.open = TRUE])
  <2>1. TypeOK'
    BY <1>1
  <2>2. Sound(seen)'
    BY <1>1 DEF Booting, Layout, Opening, Ledger, Made, HasLib, Stepping
  <2>3. Sound(kept)'
    BY <1>1
  <2>4. Progress'
    BY <1>1, <2>2 DEF Booting, Layout, Opening, Ledger, Made, HasLib, Stepping
  <2>5. Behind'
    BY <1>1 DEF Booting, Layout, Opening, Ledger, Made, HasLib, Stepping
  <2> QED  BY <2>1, <2>2, <2>3, <2>4, <2>5
<1>2. CASE Sync("tree.sync", "/var/lib/vpn", "boot.remove")
  BY <1>2, Flushes DEF Booting, Layout, Opening, Ledger, Made, HasLib, Stepping
<1> QED  BY <1>1, <1>2 DEF OpenTree

(* RemoveBootstrap preserves the invariant, call by call.                *)
LEMMA RemoveBootstrapKeeps ==
  ASSUME IInv, OrderedJournal, RemoveBootstrap
  PROVE  IInv'
<1> USE LedgerFacts, NetworkAssumption DEF IInv, TypeOK, Trees, Labels, Sound, Nested, Blank,
      Bootstrapping, Published, Progress, Behind, Context, Marked, Call, Sync
<1>1. CASE seen.boot = ctx /\ Call("boot.remove", "boot.removed", [seen EXCEPT !.boot = None])
  <2>1. TypeOK'
    BY <1>1
  <2>2. Sound(seen)'
    BY <1>1 DEF Booting, Layout, Opening, Ledger, Made, HasLib, Stepping
  <2>3. Sound(kept)'
    BY <1>1
  <2>4. Progress'
    BY <1>1, <2>2 DEF Booting, Layout, Opening, Ledger, Made, HasLib, Stepping
  <2>5. Behind'
    BY <1>1 DEF Booting, Layout, Opening, Ledger, Made, HasLib, Stepping
  <2> QED  BY <2>1, <2>2, <2>3, <2>4, <2>5
<1>2. CASE Sync("boot.removed", "/var/lib", "step.apply")
  BY <1>2, Flushes DEF Booting, Layout, Opening, Ledger, Made, HasLib, Stepping
<1> QED  BY <1>1, <1>2 DEF RemoveBootstrap

(* RecordSteps preserves the invariant, call by call.                    *)
LEMMA RecordStepsKeeps ==
  ASSUME IInv, OrderedJournal, RecordSteps
  PROVE  IInv'
<1> USE LedgerFacts, NetworkAssumption DEF IInv, TypeOK, Trees, Labels, Sound, Nested, Blank,
      Bootstrapping, Published, Progress, Behind, Context, Marked, Call, Sync
<1>1. CASE Call("step.apply", "step.record", [seen EXCEPT !.evidence = TRUE])
  <2>1. TypeOK'
    BY <1>1
  <2>2. Sound(seen)'
    BY <1>1 DEF Booting, Layout, Opening, Ledger, Made, HasLib, Stepping
  <2>3. Sound(kept)'
    BY <1>1
  <2>4. Progress'
    BY <1>1, <2>2 DEF Booting, Layout, Opening, Ledger, Made, HasLib, Stepping
  <2>5. Behind'
    BY <1>1 DEF Booting, Layout, Opening, Ledger, Made, HasLib, Stepping
  <2> QED  BY <2>1, <2>2, <2>3, <2>4, <2>5
<1>2. CASE Call("step.record", "step.sync", [seen EXCEPT !.ledger = @ + 1])
  <2>1. TypeOK'
    BY <1>2
  <2>2. Sound(seen)'
    BY <1>2 DEF Booting, Layout, Opening, Ledger, Made, HasLib, Stepping
  <2>3. Sound(kept)'
    BY <1>2
  <2>4. Progress'
    BY <1>2, <2>2 DEF Booting, Layout, Opening, Ledger, Made, HasLib, Stepping
  <2>5. Behind'
    BY <1>2 DEF Booting, Layout, Opening, Ledger, Made, HasLib, Stepping
  <2> QED  BY <2>1, <2>2, <2>3, <2>4, <2>5
<1>3. CASE Sync("step.sync", "/var/lib/vpn/private",
              IF seen.ledger = Complete THEN "done" ELSE "step.apply")
  BY <1>3, Flushes DEF Booting, Layout, Opening, Ledger, Made, HasLib, Stepping
<1>4. CASE Call("done", "idle", seen)
  <2>1. TypeOK'
    BY <1>4
  <2>2. Sound(seen)'
    BY <1>4 DEF Booting, Layout, Opening, Ledger, Made, HasLib, Stepping
  <2>3. Sound(kept)'
    BY <1>4
  <2>4. Progress'
    BY <1>4, <2>2 DEF Booting, Layout, Opening, Ledger, Made, HasLib, Stepping
  <2>5. Behind'
    BY <1>4 DEF Booting, Layout, Opening, Ledger, Made, HasLib, Stepping
  <2> QED  BY <2>1, <2>2, <2>3, <2>4, <2>5
<1> QED  BY <1>1, <1>2, <1>3, <1>4 DEF RecordSteps

(* A run starts from what it recognises.                                   *)
LEMMA StartKeeps ==
  ASSUME IInv, NEW flag \in Networks \cup {None}, Start(flag)
  PROVE  IInv'
<1>1. /\ seen' = seen /\ kept' = kept /\ interruptions' = interruptions
      /\ seen \in Trees /\ Sound(seen)
  BY DEF Start, IInv, TypeOK
<1>2. CASE Disposition(seen) = "pristine" /\ pc' = "boot.create"
             /\ ctx' = (IF flag = None THEN Mainnet ELSE flag)
  BY <1>1, <1>2, SoundIsRecognised, NetworkAssumption
  DEF IInv, TypeOK, Labels, Progress, Behind, Sound, Blank, Context, Published, Booting, Layout, Opening, Ledger, Made, HasLib, Stepping
<1>3. CASE Disposition(seen) = "bootstrap" /\ ctx' = Context(seen) /\ pc' = "lib.make"
  BY <1>1, <1>3, SoundIsRecognised, NetworkAssumption
  DEF IInv, TypeOK, Trees, Labels, Progress, Behind, Bootstrapping, Context, Published, Booting, Layout, Opening, Ledger, Made, HasLib, Stepping
<1>4. CASE Disposition(seen) = "resumable" /\ ctx' = Context(seen) /\ pc' = "step.apply"
  BY <1>1, <1>4, SoundIsRecognised, LedgerFacts
  DEF IInv, TypeOK, Trees, Labels, Progress, Behind, Context, Published, Booting, Layout, Opening, Ledger, Made, HasLib, Stepping
<1>5. CASE UNCHANGED <<pc, ctx>>
  BY <1>1, <1>5 DEF IInv, TypeOK, Progress, Behind, Context, Published, Sound, Blank,
     Bootstrapping, Nested, Marked
<1> QED  BY <1>2, <1>3, <1>4, <1>5 DEF Start

LEMMA StopKeeps == IInv /\ Stop => IInv'
<1> SUFFICES ASSUME IInv, Stop PROVE IInv'
  OBVIOUS
<1>1. /\ pc' = "idle" /\ UNCHANGED <<seen, kept, ctx>>
      /\ interruptions' \in 0..MaxInterruptions
  BY InterruptionBound DEF Stop, Interrupt, IInv, TypeOK
<1> QED  BY <1>1 DEF IInv, TypeOK, Labels, Sound, Nested, Blank, Bootstrapping, Published,
           Progress, Behind, Context, Marked, Booting, Layout, Opening, Ledger, Made, HasLib, Stepping

LEMMA PowerLossKeeps == IInv /\ PowerLoss => IInv'
<1> SUFFICES ASSUME IInv, PowerLoss PROVE IInv'
  OBVIOUS
<1>1. /\ pc' = "idle" /\ ctx' = ctx /\ seen' = kept /\ kept' = kept
      /\ interruptions' \in 0..MaxInterruptions
  BY Survival, InterruptionBound DEF PowerLoss, Interrupt, IInv, TypeOK
<1>2. TypeOK' /\ Sound(seen)' /\ Sound(kept)'
  BY <1>1 DEF IInv, TypeOK, Labels, Sound, Nested, Blank, Bootstrapping, Published
<1>3. Progress'
  BY <1>1 DEF Progress, Booting, Layout, Opening, Ledger, Made, HasLib, Stepping
<1>4. Behind'
  BY <1>1, LedgerFacts DEF IInv, TypeOK, Trees, Behind, Context
<1> QED  BY <1>2, <1>3, <1>4 DEF IInv

LEMMA WritebackKeeps ==
  ASSUME IInv, OrderedJournal, NEW d \in Directories, Writeback(d)
  PROVE  IInv'
<1>1. UNCHANGED <<seen, pc, ctx, interruptions>> /\ kept' = seen
  BY Flushes DEF Writeback, IInv, TypeOK
<1>2. TypeOK' /\ Sound(seen)' /\ Sound(kept)'
  BY <1>1 DEF IInv, TypeOK, Labels, Sound, Nested, Blank, Bootstrapping, Published
<1>3. Progress'
  BY <1>1 DEF IInv, Progress, Published, Blank
<1>4. Behind'
  BY <1>1, LedgerFacts DEF IInv, TypeOK, Trees, Behind, Context
<1> QED  BY <1>2, <1>3, <1>4 DEF IInv

LEMMA NextKeeps ==
  ASSUME OrderedJournal
  PROVE  IInv /\ [Next]_vars => IInv'
<1> SUFFICES ASSUME IInv, [Next]_vars PROVE IInv'
  OBVIOUS
<1>1. CASE RunInstall
  BY <1>1, StartKeeps DEF RunInstall
<1>2. CASE InstallStep
  BY <1>2, InitializeLifecycleKeeps, MakeDirectoriesKeeps, PublishLedgerKeeps,
     PublishLayoutKeeps, OpenTreeKeeps, RemoveBootstrapKeeps, RecordStepsKeeps
  DEF InstallStep
<1>3. CASE Stop
  BY <1>3, StopKeeps
<1>4. CASE PowerLoss
  BY <1>4, PowerLossKeeps
<1>5. CASE \E d \in Directories : Writeback(d)
  BY <1>5, WritebackKeeps
<1>6. CASE UNCHANGED vars
  BY <1>6 DEF vars, IInv, TypeOK, Sound, Nested, Blank, Bootstrapping, Published, Progress,
     Behind, Context, Marked
<1> QED  BY <1>1, <1>2, <1>3, <1>4, <1>5, <1>6 DEF Next

-------------------------------------------------------------------------------
(* On an ordered journal every reachable pair of trees is sound.           *)
THEOREM TreesAreSound ==
  ASSUME OrderedJournal
  PROVE  Spec => []IInv
<1> QED  BY InitialState, NextKeeps, PTL DEF Spec

(* Every reachable state is well typed.                                    *)
THEOREM TypeCorrect ==
  ASSUME OrderedJournal
  PROVE  Spec => []TypeOK
<1>1. IInv => TypeOK
  BY DEF IInv
<1> QED  BY <1>1, TreesAreSound, PTL

(* After any number of stopped runs and power losses, at any calls, the    *)
(* next run of `vpn install` recognises what it finds.                     *)
THEOREM AlwaysRecognised ==
  ASSUME OrderedJournal
  PROVE  Spec => []NeverRefused
<1>1. IInv => NeverRefused
  BY SoundIsRecognised DEF IInv, TypeOK, NeverRefused
<1> QED  BY <1>1, TreesAreSound, PTL

-------------------------------------------------------------------------------
(* The refinement.  With a sound durable tree, what a power loss cannot    *)
(* take back is what its ledger says.                                      *)
Kept == IInv /\ Survivors = kept

LEMMA KeptAlways ==
  ASSUME OrderedJournal
  PROVE  Spec => []Kept
<1>1. IInv => Kept
  BY Survival DEF IInv, TypeOK, Kept
<1> QED  BY <1>1, TreesAreSound, PTL

LEMMA AssuredIs ==
  ASSUME Survivors = kept
  PROVE  Assured = IF kept.ledger = Complete THEN "completion"
                   ELSE IF kept.ledger > Initial THEN "steps" ELSE "nothing"
  BY DEF Assured

(* How a call of the installer changes the visible tree.                   *)
Moves ==
  \/ seen' = seen
  \/ Blank(seen) /\ Bootstrapping(seen') /\ seen'.boot \in Networks
  \/ Bootstrapping(seen) /\ Bootstrapping(seen') /\ seen'.boot = seen.boot
  \/ /\ Bootstrapping(seen) /\ Published(seen')
     /\ seen'.ledger = Initial /\ seen'.network = seen.boot
  \/ /\ Published(seen) /\ Published(seen') /\ seen'.network = seen.network
     /\ \/ seen'.ledger = seen.ledger
        \/ seen.ledger < Complete /\ seen'.ledger = seen.ledger + 1

LEMMA CallsMove ==
  ASSUME IInv, IInv', InstallStep
  PROVE  Moves
<1> USE LedgerFacts, NetworkAssumption DEF IInv, TypeOK, Trees, Progress, Call, Sync
<1>1. CASE InitializeLifecycle
  BY <1>1 DEF InitializeLifecycle, Moves, Sound, Blank, Bootstrapping, Published, Booting, Layout, Opening, Ledger, Made, HasLib, Stepping
<1>2. CASE MakeDirectories
  BY <1>2 DEF MakeDirectories, Moves, Sound, Blank, Bootstrapping, Published, Booting, Layout, Opening, Ledger, Made, HasLib, Stepping
<1>3. CASE PublishLedger
  BY <1>3 DEF PublishLedger, Moves, Sound, Blank, Bootstrapping, Published, Booting, Layout, Opening, Ledger, Made, HasLib, Stepping
<1>4. CASE PublishLayout
  BY <1>4 DEF PublishLayout, Moves, Sound, Blank, Bootstrapping, Published, Booting, Layout, Opening, Ledger, Made, HasLib, Stepping
<1>5. CASE OpenTree
  BY <1>5 DEF OpenTree, Moves, Sound, Blank, Bootstrapping, Published, Booting, Layout, Opening, Ledger, Made, HasLib, Stepping
<1>6. CASE RemoveBootstrap
  BY <1>6 DEF RemoveBootstrap, Moves, Sound, Blank, Bootstrapping, Published, Booting, Layout, Opening, Ledger, Made, HasLib, Stepping
<1>7. CASE RecordSteps
  BY <1>7 DEF RecordSteps, Moves, Sound, Blank, Bootstrapping, Published, Booting, Layout, Opening, Ledger, Made, HasLib, Stepping
<1> QED  BY <1>1, <1>2, <1>3, <1>4, <1>5, <1>6, <1>7 DEF InstallStep

(* ... and the durable one.                                                *)
LEMMA CallsSync ==
  ASSUME IInv, OrderedJournal, InstallStep
  PROVE  kept' = kept \/ (kept' = seen /\ seen' = seen)
  BY Flushes DEF IInv, TypeOK, InstallStep, InitializeLifecycle, MakeDirectories,
     PublishLedger, PublishLayout, OpenTree, RemoveBootstrap, RecordSteps, Call, Sync

LEMMA AuthorityStarts == Init => Authority!Init
<1> SUFFICES ASSUME Init PROVE Authority!Init
  OBVIOUS
<1>1. IInv /\ Survivors = kept /\ seen = Empty /\ kept = Empty
  BY InitialState, Survival DEF Init, IInv, TypeOK
<1>2. Blank(seen) /\ ~Published(seen) /\ seen.boot = None /\ kept.ledger = NoLedger
  BY <1>1 DEF Empty, Blank, Published
<1>3. Disposition(seen) = "pristine" /\ Context(seen) = None
  BY <1>1, <1>2, SoundIsRecognised DEF IInv, TypeOK
<1>4. Assured = "nothing"
  BY <1>1, <1>2, LedgerFacts DEF Assured
<1> QED  BY <1>3, <1>4 DEF Authority!Init, Authority!None, None

LEMMA AuthorityGoesOn ==
  ASSUME OrderedJournal, Kept, Kept', [Next]_vars
  PROVE  [Authority!Next]_(Authority!vars)
<1> DEFINE D == Disposition(seen)
           N == Context(seen)
           Unmoved == D' = D /\ N' = N
<1> USE LedgerFacts
<1>1. /\ seen \in Trees /\ kept \in Trees /\ Sound(seen) /\ Sound(kept) /\ Behind
      /\ seen' \in Trees /\ kept' \in Trees /\ Sound(seen') /\ Sound(kept')
      /\ IInv /\ IInv'
  BY DEF Kept, IInv, TypeOK
<1>2. /\ D = "pristine" <=> Blank(seen)
      /\ D = "bootstrap" <=> Bootstrapping(seen)
      /\ D = "completed" <=> Published(seen) /\ seen.ledger = Complete
      /\ D = "resumable" <=> Published(seen) /\ seen.ledger # Complete
      /\ N = IF seen.boot # None THEN seen.boot
             ELSE IF Published(seen) THEN seen.network ELSE None
  BY <1>1, SoundIsRecognised
<1>3. /\ D' = "pristine" <=> Blank(seen')
      /\ D' = "bootstrap" <=> Bootstrapping(seen')
      /\ D' = "completed" <=> Published(seen') /\ seen'.ledger = Complete
      /\ D' = "resumable" <=> Published(seen') /\ seen'.ledger # Complete
      /\ N' = IF seen'.boot # None THEN seen'.boot
              ELSE IF Published(seen') THEN seen'.network ELSE None
  BY <1>1, SoundIsRecognised
<1>4. Assured = IF kept.ledger = Complete THEN "completion"
                ELSE IF kept.ledger > Initial THEN "steps" ELSE "nothing"
  BY DEF Kept, Assured
<1>5. Assured' = IF kept'.ledger = Complete THEN "completion"
                 ELSE IF kept'.ledger > Initial THEN "steps" ELSE "nothing"
  BY DEF Kept, Assured
<1>6. ASSUME seen' = seen, kept' = kept
      PROVE  UNCHANGED Authority!vars
  <2>1. D' = D /\ N' = N /\ Assured' = Assured
    BY <1>4, <1>5, <1>6
  <2> QED  BY <2>1 DEF Authority!vars
<1>7. ASSUME seen' = seen, kept' = seen
      PROVE  [Authority!Next]_(Authority!vars)
  <2>1. D' = D /\ N' = N
    BY <1>7
  <2>2. kept.ledger <= seen.ledger /\ kept.ledger \in 0..Complete
        /\ seen.ledger \in 0..Complete
    BY <1>1 DEF Behind, Trees
  <2>3. CASE Assured' = Assured
    BY <2>1, <2>3 DEF Authority!vars
  <2>4. CASE Assured' # Assured
    <3>1. seen.ledger > Initial
      BY <1>4, <1>5, <1>7, <2>2, <2>4
    <3>2. Published(seen)
      BY <1>1, <3>1 DEF Sound, Nested, Blank, Bootstrapping
    <3>3. D \in {"resumable", "completed"}
      BY <1>2, <3>2
    <3>4. Assured' = "completion" => D = "completed"
      BY <1>2, <1>5, <1>7, <3>2
    <3>5. \/ Assured = "nothing" /\ Assured' \in {"steps", "completion"}
          \/ Assured = "steps" /\ Assured' = "completion"
      BY <1>4, <1>5, <1>7, <2>2, <2>4
    <3> QED  BY <2>1, <3>3, <3>4, <3>5 DEF Authority!Next, Authority!Assure
  <2> QED  BY <2>3, <2>4
<1>8. CASE RunInstall
  BY <1>6, <1>8 DEF RunInstall, Start
<1>9. CASE InstallStep
  <2>1. CASE kept' = kept
    <3>0. Assured' = Assured
      BY <1>4, <1>5, <2>1
    <3>1. CASE seen' = seen
      BY <1>6, <2>1, <3>1
    <3>2. CASE Blank(seen) /\ Bootstrapping(seen') /\ seen'.boot \in Networks
      <4>1. D = "pristine" /\ D' = "bootstrap" /\ N' \in Networks
        BY <1>2, <1>3, <3>2, NetworkAssumption
      <4> QED  BY <3>0, <4>1 DEF Authority!Next, Authority!Claim
    <3>3. CASE Bootstrapping(seen) /\ Bootstrapping(seen') /\ seen'.boot = seen.boot
      <4>1. D = "bootstrap" /\ D' = D /\ N' = N
        BY <1>2, <1>3, <3>3 DEF Bootstrapping
      <4> QED  BY <3>0, <4>1 DEF Authority!vars
    <3>4. CASE /\ Bootstrapping(seen) /\ Published(seen')
               /\ seen'.ledger = Initial /\ seen'.network = seen.boot
      <4>1. D = "bootstrap" /\ D' = "resumable" /\ N' = N
        BY <1>2, <1>3, <3>4 DEF Bootstrapping, Published
      <4> QED  BY <3>0, <4>1 DEF Authority!Next, Authority!Publish
    <3>5. CASE /\ Published(seen) /\ Published(seen') /\ seen'.network = seen.network
               /\ \/ seen'.ledger = seen.ledger
                  \/ seen.ledger < Complete /\ seen'.ledger = seen.ledger + 1
      <4>1. N' = N
        BY <1>2, <1>3, <3>5 DEF Published
      <4>2. D' = D \/ (D = "resumable" /\ D' = "completed")
        BY <1>1, <1>2, <1>3, <3>5 DEF Trees
      <4> QED  BY <3>0, <4>1, <4>2 DEF Authority!Next, Authority!Complete, Authority!vars
    <3> QED  BY <1>1, <1>9, CallsMove, <3>1, <3>2, <3>3, <3>4, <3>5 DEF Moves
  <2>2. CASE kept' = seen /\ seen' = seen
    BY <1>7, <2>2
  <2> QED  BY <1>1, <1>9, CallsSync, <2>1, <2>2
<1>10. CASE Stop
  BY <1>6, <1>10 DEF Stop
<1>11. CASE PowerLoss
  <2>1. seen' = kept /\ kept' = kept
    BY <1>11 DEF PowerLoss, Kept
  <2>2. Assured' = Assured
    BY <1>4, <1>5, <2>1
  <2>3. CASE Blank(kept)
    <3>1. D' = "pristine" /\ N' = None /\ Assured = "nothing"
      BY <1>1, <1>3, <1>4, <2>1, <2>3 DEF Blank, Published, Sound, Nested
    <3> QED  BY <2>2, <3>1 DEF Authority!Next, Authority!Lose, Authority!None, None
  <2>4. CASE Bootstrapping(kept)
    <3>1. D' = "bootstrap" /\ N' = N /\ Assured = "nothing"
      BY <1>1, <1>2, <1>3, <1>4, <2>1, <2>4 DEF Bootstrapping, Behind, Context
    <3>2. D # "pristine"
      BY <1>1, <1>2, <1>3, <2>1, <2>4, <3>1 DEF Bootstrapping, Blank, Published
    <3>3. D \in {"bootstrap", "resumable", "completed"}
      BY <1>1, <1>2, <3>2 DEF Sound
    <3> QED  BY <2>2, <3>1, <3>3 DEF Authority!Next, Authority!Lose, Authority!vars
  <2>5. CASE Published(kept)
    <3>1. Published(seen) /\ kept.network = seen.network /\ kept.ledger <= seen.ledger
      BY <1>1, <2>5 DEF Behind
    <3>2. N' = N
      BY <1>2, <1>3, <2>1, <2>5, <3>1 DEF Published
    <3>3. D' = D \/ (D = "completed" /\ D' = "resumable" /\ Assured # "completion")
      BY <1>1, <1>2, <1>3, <1>4, <2>1, <2>5, <3>1 DEF Trees
    <3> QED  BY <2>2, <3>2, <3>3 DEF Authority!Next, Authority!Lose, Authority!vars
  <2> QED  BY <1>1, <2>3, <2>4, <2>5 DEF Sound
<1>12. CASE \E d \in Directories : Writeback(d)
  <2>1. seen' = seen /\ kept' = seen
    BY <1>1, <1>12, Flushes DEF Writeback
  <2> QED  BY <1>7, <2>1
<1>13. CASE UNCHANGED vars
  BY <1>6, <1>13 DEF vars
<1> QED  BY <1>8, <1>9, <1>10, <1>11, <1>12, <1>13 DEF Next

(* What the tree tells the next run keeps the promises of InstallAuthority: *)
(* the network never changes, recorded steps and completion are never      *)
(* forgotten.                                                              *)
THEOREM ImplementsAuthority ==
  ASSUME OrderedJournal
  PROVE  Spec => AuthorityHolds
<1>1. Kept /\ Kept' /\ [Next]_vars => [Authority!Next]_(Authority!vars)
  BY AuthorityGoesOn
<1> QED  BY AuthorityStarts, KeptAlways, <1>1, PTL DEF Spec, AuthorityHolds, Authority!Spec
=============================================================================
