----------------------------- MODULE HelperProofs -----------------------------
(***************************************************************************)
(* Proofs about the root helper, for any connections and any number of     *)
(* requests, faults and renewed certificates: it keeps the promises of     *)
(* RequestService, the newest binary serves, and a published P2P mode is   *)
(* one the node has.                                                       *)
(*                                                                         *)
(* What the connection being served has had performed, what it has been    *)
(* told, and where the helper is in its loop determine one another (Turn); *)
(* the connections in the queue have had nothing performed, and those that *)
(* are closed never change again (ConnInv).                                *)
(***************************************************************************)
EXTENDS Helper, FiniteSetTheorems, TLAPS

\* The steps that were reported when n steps have been performed.
SoFar(verb, n) == {m \in Reported(verb) : m <= n}

Connection ==
  [stage : {"idle", "queued", "served", "closed"}, verb : AllVerbs \cup {"none"},
   sent : BOOLEAN, gone : BOOLEAN, performed : 0..9, steps : Nat,
   end : {"none", "ok", "error"}]

Process ==
  [pc : {"down", "accept", "header", "run", "end", "after"},
   conn : Slots \cup {NoSlot}, failed : BOOLEAN, expired : BOOLEAN, copy : Nat,
   version : {"old", "new"}]

HelperShape ==
  /\ conns \in [Slots -> Connection]
  /\ queue \in Seq(Slots)
  /\ helper \in Process
  /\ installed \in {"old", "new"}

NodeShape ==
  /\ config \in {"tor", "hybrid"} /\ conf \in {"tor", "hybrid"} /\ rules \in BOOLEAN
  /\ lnd \in {"down", "tor", "hybrid"}
  /\ cert \in [gen : Nat, mode : {"tor", "hybrid"}]
  /\ client.slot \in Slots \cup {NoSlot}

Serving == helper.pc \in {"header", "run", "end"}
Current == conns[helper.conn]

ConnInv(k) ==
  /\ conns[k].stage # "idle" =>
       /\ conns[k].verb \in AllVerbs
       /\ conns[k].performed <= Len(Body(conns[k].verb))
  /\ conns[k].stage = "served" <=> Serving /\ helper.conn = k
  /\ conns[k].stage = "queued" => conns[k].performed = 0 /\ conns[k].steps = 0
  /\ conns[k].stage # "closed" => conns[k].end = "none"
  /\ conns[k].end = "ok" => Whole(conns[k]) /\ conns[k].steps = Names(conns[k].verb)
  /\ conns[k].end = "error" => ~Whole(conns[k])

QueueInv ==
  /\ \A i \in 1..Len(queue) : conns[queue[i]].stage = "queued"
  /\ \A i, j \in 1..Len(queue) : queue[i] = queue[j] => i = j

Turn ==
  /\ Serving <=> helper.conn \in Slots
  /\ helper.pc \in {"accept", "header", "run"} => ~helper.failed
  /\ helper.pc \in {"accept", "header"} => ~helper.expired
  /\ helper.pc = "header" => Current.performed = 0 /\ Current.steps = 0
  /\ helper.pc = "run" => Current.performed < Len(Body(Current.verb))
  /\ helper.pc = "end" => (helper.failed <=> ~Whole(Current))
  /\ helper.pc \in {"run", "end"} /\ ~helper.expired =>
       Current.steps = Cardinality(SoFar(Current.verb, Current.performed))

\* The binary that serves is the installed one, but for a process that has
\* just replaced it.
VersionInv ==
  helper.pc # "down" => \/ helper.version = installed
                        \/ Serving /\ Current.verb = "selfUpdate" /\ Whole(Current)

\* The upgrade publishes its setting last, and nothing of it is taken back.
Upgraded ==
  /\ lnd = "hybrid" => conf = "hybrid" /\ cert.mode = "hybrid"
  /\ PublishedIsServed
  /\ helper.pc \in {"run", "end"} /\ Current.verb = "p2p" =>
       /\ Current.performed >= 3 => conf = "hybrid"
       /\ Current.performed >= 4 => rules
       /\ Current.performed >= 5 => lnd \in {"down", "hybrid"} /\ cert.mode = "hybrid"

IInv ==
  /\ HelperShape /\ NodeShape
  /\ \A k \in Slots : ConnInv(k)
  /\ QueueInv /\ Turn /\ VersionInv /\ Upgraded

-----------------------------------------------------------------------------
(* The operations.                                                         *)

LEMMA Lengths ==
  /\ Len(P2PBody) = 9 /\ Len(SelfUpdateBody) = 5 /\ Len(PackagesBody) = 3
  /\ Len(RestartBody) = 3 /\ Len(CredentialsBody) = 2
  /\ Len(<<"read">>) = 1 /\ Len(<<"plan">>) = 1
BY DEF P2PBody, SelfUpdateBody, PackagesBody, RestartBody, CredentialsBody

LEMMA BodyLengths ==
  ASSUME NEW verb \in AllVerbs
  PROVE  /\ verb \in {"p2p", "selfUpdate", "packages", "restart", "credentials",
                       "read", "reboot"}
         /\ Len(Body(verb)) = CASE verb = "p2p" -> 9
                                [] verb = "selfUpdate" -> 5
                                [] verb \in {"packages", "restart"} -> 3
                                [] verb = "credentials" -> 2
                                [] OTHER -> 1
         /\ Len(Body(verb)) \in 1..9
         /\ Reported(verb) \subseteq 1..Len(Body(verb))
<1>1. verb \in {"p2p", "selfUpdate", "packages", "restart", "credentials",
                "read", "reboot"}
    BY HelperAssumption DEF AllVerbs
<1>2. Len(Body(verb)) = CASE verb = "p2p" -> 9
                          [] verb = "selfUpdate" -> 5
                          [] verb \in {"packages", "restart"} -> 3
                          [] verb = "credentials" -> 2
                          [] OTHER -> 1
  <2>1. CASE verb = "p2p"
      BY <2>1, Lengths DEF Body
  <2>2. CASE verb = "selfUpdate"
      BY <2>2, Lengths DEF Body
  <2>3. CASE verb = "packages"
      BY <2>3, Lengths DEF Body
  <2>4. CASE verb = "restart"
      BY <2>4, Lengths DEF Body
  <2>5. CASE verb = "credentials"
      BY <2>5, Lengths DEF Body
  <2>6. CASE verb = "read"
      BY <2>6, Lengths DEF Body
  <2>7. CASE verb = "reboot"
      BY <2>7, Lengths DEF Body
  <2> QED BY <1>1, <2>1, <2>2, <2>3, <2>4, <2>5, <2>6, <2>7
<1>3. Len(Body(verb)) \in 1..9
    BY <1>1, <1>2
<1>4. Reported(verb) \subseteq 1..Len(Body(verb))
    BY <1>1, <1>2 DEF Reported
<1> QED BY <1>1, <1>2, <1>3, <1>4

LEMMA Places ==
  ASSUME NEW verb \in AllVerbs, NEW n \in 0..9, n < Len(Body(verb))
  PROVE  /\ Body(verb)[n + 1] = "conf" => verb = "p2p" /\ n = 2
         /\ Body(verb)[n + 1] = "rules" => verb = "p2p" /\ n = 3
         /\ Body(verb)[n + 1] = "publish" => verb = "p2p" /\ n = 8
         /\ Body(verb)[n + 1] = "install" => verb = "selfUpdate" /\ n = 4
         /\ verb = "p2p" /\ n = 2 => Body(verb)[n + 1] = "conf"
         /\ verb = "p2p" /\ n = 3 => Body(verb)[n + 1] = "rules"
         /\ verb = "p2p" /\ n = 4 => Body(verb)[n + 1] = "restartLND"
         /\ verb = "selfUpdate" /\ n = 4 => Body(verb)[n + 1] = "install"
<1>1. CASE verb = "p2p"
  <2>1. Len(Body(verb)) = 9
      BY <1>1, BodyLengths
  <2>2. n \in {0, 1, 2, 3, 4, 5, 6, 7, 8}
      BY <2>1
  <2> QED BY <1>1, <2>2 DEF Body, P2PBody
<1>2. CASE verb = "selfUpdate"
  <2>1. Len(Body(verb)) = 5
      BY <1>2, BodyLengths
  <2>2. n \in {0, 1, 2, 3, 4}
      BY <2>1
  <2> QED BY <1>2, <2>2 DEF Body, SelfUpdateBody
<1>3. CASE verb = "packages"
  <2>1. Len(Body(verb)) = 3
      BY <1>3, BodyLengths
  <2>2. n \in {0, 1, 2}
      BY <2>1
  <2> QED BY <1>3, <2>2 DEF Body, PackagesBody
<1>4. CASE verb = "restart"
  <2>1. Len(Body(verb)) = 3
      BY <1>4, BodyLengths
  <2>2. n \in {0, 1, 2}
      BY <2>1
  <2> QED BY <1>4, <2>2 DEF Body, RestartBody
<1>5. CASE verb = "credentials"
  <2>1. Len(Body(verb)) = 2
      BY <1>5, BodyLengths
  <2>2. n \in {0, 1}
      BY <2>1
  <2> QED BY <1>5, <2>2 DEF Body, CredentialsBody
<1>6. CASE verb \in {"read", "reboot"}
  <2>1. Len(Body(verb)) = 1
      BY <1>6, BodyLengths
  <2>2. n = 0
      BY <2>1
  <2> QED BY <1>6, <2>2 DEF Body
<1> QED BY <1>1, <1>2, <1>3, <1>4, <1>5, <1>6, HelperAssumption DEF AllVerbs

LEMMA Counting ==
  ASSUME NEW verb \in AllVerbs
  PROVE  /\ Cardinality(SoFar(verb, 0)) = 0
         /\ \A n \in 0..9 : Cardinality(SoFar(verb, n)) \in Nat
         /\ Cardinality(SoFar(verb, Len(Body(verb)))) = Names(verb)
         /\ \A n \in 0..9 :
              Cardinality(SoFar(verb, n + 1))
                = IF n + 1 \in Reported(verb) THEN Cardinality(SoFar(verb, n)) + 1
                                              ELSE Cardinality(SoFar(verb, n))
<1>1. Reported(verb) \subseteq 1..Len(Body(verb)) /\ Len(Body(verb)) \in 1..9
    BY BodyLengths
<1>2. IsFiniteSet(Reported(verb))
  <2>1. IsFiniteSet(1..Len(Body(verb)))
      BY <1>1, FS_Interval
  <2> QED BY <1>1, <2>1, FS_Subset
<1>3. \A n : IsFiniteSet(SoFar(verb, n))
    BY <1>2, FS_Subset DEF SoFar
<1>4. SoFar(verb, 0) = {} /\ SoFar(verb, Len(Body(verb))) = Reported(verb)
    BY <1>1 DEF SoFar
<1>5. ASSUME NEW n \in 0..9
      PROVE  /\ Cardinality(SoFar(verb, n)) \in Nat
             /\ Cardinality(SoFar(verb, n + 1))
                 = IF n + 1 \in Reported(verb) THEN Cardinality(SoFar(verb, n)) + 1
                                               ELSE Cardinality(SoFar(verb, n))
  <2>1. Cardinality(SoFar(verb, n)) \in Nat
      BY <1>3, FS_CardinalityType
  <2>2. CASE n + 1 \in Reported(verb)
    <3>1. SoFar(verb, n + 1) = SoFar(verb, n) \cup {n + 1} /\ n + 1 \notin SoFar(verb, n)
        BY <1>1, <2>2 DEF SoFar
    <3> QED BY <1>3, <2>1, <2>2, <3>1, FS_AddElement
  <2>3. CASE n + 1 \notin Reported(verb)
    <3>1. SoFar(verb, n + 1) = SoFar(verb, n)
        BY <1>1, <2>3 DEF SoFar
    <3> QED BY <2>1, <2>3, <3>1
  <2> QED BY <2>1, <2>2, <2>3
<1> QED BY <1>4, <1>5, FS_EmptySet DEF Names

-----------------------------------------------------------------------------
(* The invariant.                                                          *)

LEMMA NewRecords == NoConn \in Connection /\ NoHelper \in Process
BY DEF NoConn, NoHelper, Connection, Process

LEMMA NewHelper ==
  /\ NoHelper.pc = "down" /\ NoHelper.conn = NoSlot /\ ~NoHelper.failed
  /\ ~NoHelper.expired /\ NoHelper.copy = 0 /\ NoHelper.version = "old"
  /\ NoConn.stage = "idle" /\ NoConn.end = "none"
  /\ NoConn.performed = 0 /\ NoConn.steps = 0 /\ ~NoConn.gone
BY DEF NoHelper, NoConn

LEMMA InitialState == Init => IInv
<1> SUFFICES ASSUME Init PROVE IInv
    OBVIOUS
<1>1. HelperShape
  <2>1. queue \in Seq(Slots)
      BY DEF Init
  <2> QED BY <2>1, NewRecords DEF Init, HelperShape
<1>2. NodeShape
    BY DEF Init, NodeShape, NewClient
<1>3. ~Serving /\ helper.pc = "down" /\ helper.conn \notin Slots
    BY NewHelper, HelperAssumption DEF Init, Serving
<1>4. \A k \in Slots : ConnInv(k)
    BY <1>3, NewHelper DEF Init, ConnInv
<1>5. QueueInv
    BY DEF Init, QueueInv
<1>6. Turn /\ VersionInv
    BY <1>3 DEF Turn, VersionInv, Serving
<1>7. Upgraded
    BY <1>3 DEF Init, Upgraded, PublishedIsServed
<1> QED BY <1>1, <1>2, <1>4, <1>5, <1>6, <1>7 DEF IInv

LEMMA CurrentShape ==
  ASSUME IInv, Serving
  PROVE  /\ helper.conn \in Slots /\ helper.conn # NoSlot
         /\ Current.stage = "served" /\ Current.verb \in AllVerbs
         /\ Current.performed \in 0..9 /\ Current.steps \in Nat
         /\ Current.performed <= Len(Body(Current.verb))
         /\ Len(Body(Current.verb)) \in 1..9
<1>1. helper.conn \in Slots
    BY DEF IInv, Turn
<1>2. /\ Current.stage = "served" /\ Current.verb \in AllVerbs
      /\ Current.performed <= Len(Body(Current.verb))
    BY <1>1 DEF IInv, ConnInv, Current
<1>3. Current.performed \in 0..9 /\ Current.steps \in Nat
    BY <1>1 DEF IInv, HelperShape, Connection, Current
<1> QED BY <1>1, <1>2, <1>3, BodyLengths, HelperAssumption

\* What the model's other half does: LND, the watch unit, the terminal UI.
LEMMA NodeMoves ==
  ASSUME IInv, NodeShape', Upgraded', UNCHANGED <<conns, queue, helper, installed>>
  PROVE  IInv'
<1>1. Whole(conns[helper.conn])' <=> Whole(conns[helper.conn])
    BY DEF Whole
<1>2. HelperShape' /\ QueueInv' /\ VersionInv'
    BY <1>1 DEF IInv, HelperShape, QueueInv, VersionInv, Serving, Current
<1>3. Turn'
    BY <1>1 DEF IInv, Turn, Serving, Current
<1>4. \A k \in Slots : ConnInv(k)'
    BY DEF IInv, ConnInv, Serving, Whole
<1> QED BY <1>2, <1>3, <1>4 DEF IInv

\* A client's side of connections: records change in what nobody relies on, or
\* closed connections are forgotten.
SameConn(k) ==
  /\ conns'[k].stage = conns[k].stage /\ conns'[k].verb = conns[k].verb
  /\ conns'[k].performed = conns[k].performed /\ conns'[k].steps = conns[k].steps
  /\ conns'[k].end = conns[k].end

LEMMA ClientSide ==
  ASSUME IInv, HelperShape', client'.slot \in Slots \cup {NoSlot},
         UNCHANGED <<queue, helper, installed, nodeState>>,
         \A k \in Slots : \/ SameConn(k)
                          \/ conns[k].stage = "closed" /\ conns'[k] = NoConn
  PROVE  IInv'
<1>1. \A k \in Slots : SameConn(k) => (Whole(conns'[k]) <=> Whole(conns[k]))
    BY DEF SameConn, Whole
<1>2. \A k \in Slots : ConnInv(k)'
  <2> SUFFICES ASSUME NEW k \in Slots PROVE ConnInv(k)'
      OBVIOUS
  <2>1. CASE SameConn(k)
      BY <1>1, <2>1 DEF IInv, ConnInv, SameConn, Serving
  <2>2. CASE conns[k].stage = "closed" /\ conns'[k] = NoConn
      BY <2>2, NewHelper DEF IInv, ConnInv, Serving
  <2> QED BY <2>1, <2>2
<1>3. QueueInv'
  <2> SUFFICES ASSUME NEW i \in 1..Len(queue) PROVE conns'[queue[i]].stage = "queued"
      BY DEF IInv, QueueInv
  <2>1. queue[i] \in Slots /\ conns[queue[i]].stage = "queued"
      BY DEF IInv, QueueInv, HelperShape
  <2> QED BY <2>1 DEF SameConn
<1>4. Serving => helper.conn \in Slots /\ SameConn(helper.conn)
    BY DEF IInv, Turn, ConnInv
<1>5. Turn' /\ VersionInv'
    BY <1>1, <1>4 DEF IInv, Turn, VersionInv, Current, Serving, SameConn
<1>6. NodeShape' /\ Upgraded'
    BY <1>4 DEF IInv, NodeShape, Upgraded, PublishedIsServed, Current, Serving,
               SameConn, nodeState
<1> QED BY <1>2, <1>3, <1>5, <1>6 DEF IInv

LEMMA Connects ==
  ASSUME IInv, NEW k \in Slots, NEW verb \in AllVerbs, NEW sent \in BOOLEAN,
         Connect(k, verb, sent), client'.slot \in Slots \cup {NoSlot},
         UNCHANGED <<helper, installed, nodeState>>
  PROVE  IInv'
<1> DEFINE new == [NoConn EXCEPT !.stage = "queued", !.verb = verb, !.sent = sent]
<1>1. /\ new \in Connection
      /\ new.stage = "queued" /\ new.verb = verb /\ new.performed = 0
      /\ new.steps = 0 /\ new.end = "none"
    BY NewRecords, NewHelper DEF Connection
<1>2. /\ conns[k].stage = "idle" /\ conns' = [conns EXCEPT ![k] = new]
      /\ queue' = Append(queue, k)
    BY DEF Connect, Vacant
<1> HIDE DEF new
<1>3. HelperShape'
  <2>1. queue' \in Seq(Slots)
      BY <1>2 DEF IInv, HelperShape
  <2> QED BY <1>1, <1>2, <2>1 DEF IInv, HelperShape
<1>4. conns'[k] = new /\ \A j \in Slots \ {k} : conns'[j] = conns[j]
    BY <1>2 DEF IInv, HelperShape
<1>5. Serving => helper.conn \in Slots \ {k}
    BY <1>2 DEF IInv, Turn, ConnInv
<1>6. \A j \in Slots : ConnInv(j)'
  <2> SUFFICES ASSUME NEW j \in Slots PROVE ConnInv(j)'
      OBVIOUS
  <2>1. CASE j = k
    <3>1. Len(Body(verb)) \in 1..9
        BY BodyLengths
    <3> QED BY <1>1, <1>4, <1>5, <2>1, <3>1 DEF ConnInv, Serving
  <2>2. CASE j # k
      BY <1>4, <2>2 DEF IInv, ConnInv, Serving, Whole
  <2> QED BY <2>1, <2>2
<1>7. QueueInv'
  <2>1. /\ Len(queue') = Len(queue) + 1 /\ Len(queue) \in Nat
        /\ queue'[Len(queue) + 1] = k
        /\ \A i \in 1..Len(queue) : queue'[i] = queue[i] /\ queue[i] \in Slots
      BY <1>2 DEF IInv, HelperShape
  <2>2. \A i \in 1..Len(queue) : queue[i] # k /\ conns[queue[i]].stage = "queued"
      BY <1>2 DEF IInv, QueueInv
  <2>3. ASSUME NEW i \in 1..Len(queue') PROVE conns'[queue'[i]].stage = "queued"
      BY <1>1, <1>4, <2>1, <2>2
  <2>4. ASSUME NEW i \in 1..Len(queue'), NEW j \in 1..Len(queue'),
               queue'[i] = queue'[j]
        PROVE  i = j
      BY <2>1, <2>2, <2>4 DEF IInv, QueueInv
  <2> QED BY <2>3, <2>4 DEF QueueInv
<1>8. Turn' /\ VersionInv'
  <2>1. Serving => Current' = Current
      BY <1>4, <1>5 DEF Current
  <2> QED BY <2>1 DEF IInv, Turn, VersionInv, Serving, Whole
<1>9. NodeShape' /\ Upgraded'
  <2>1. helper.pc \in {"run", "end"} => Current' = Current
      BY <1>4, <1>5 DEF Current, Serving
  <2> QED BY <2>1 DEF IInv, NodeShape, Upgraded, PublishedIsServed, nodeState
<1> QED BY <1>3, <1>6, <1>7, <1>8, <1>9 DEF IInv

\* LND starts in the mode its file asks for, with a certificate for it.
LEMMA LNDStarts ==
  ASSUME IInv, StartLND
  PROVE  /\ lnd' = conf /\ cert' \in [gen : Nat, mode : {"tor", "hybrid"}]
         /\ cert'.mode = conf
         /\ UNCHANGED <<config, conf, rules>>
<1>1. PICK renewed \in BOOLEAN :
        /\ cert.mode # conf => renewed
        /\ cert' = IF renewed THEN [gen |-> cert.gen + 1, mode |-> conf] ELSE cert
    BY DEF StartLND
<1> QED BY <1>1 DEF StartLND, IInv, NodeShape

LEMMA SurroundingsKeep ==
  ASSUME IInv, LNDCrashes \/ LNDRestarts \/ WatchCopies \/ WatchStages \/ IntervalPasses
  PROVE  IInv'
<1>1. CASE LNDCrashes
  <2>1. NodeShape' /\ Upgraded'
      BY <1>1 DEF LNDCrashes, IInv, NodeShape, Upgraded, PublishedIsServed, Current
  <2> QED BY <1>1, <2>1, NodeMoves DEF LNDCrashes
<1>2. CASE LNDRestarts
  <2>0. /\ lnd' = conf /\ cert' \in [gen : Nat, mode : {"tor", "hybrid"}]
        /\ cert'.mode = conf
        /\ UNCHANGED <<config, conf, rules, conns, helper, client>>
      BY <1>2, LNDStarts DEF LNDRestarts
  <2>1. NodeShape'
      BY <2>0 DEF IInv, NodeShape
  <2>2. Upgraded'
      BY <2>0, CurrentShape DEF Serving, IInv, NodeShape, Upgraded, PublishedIsServed, Current
  <2> QED BY <1>2, <2>1, <2>2, NodeMoves DEF LNDRestarts
<1>3. CASE WatchCopies \/ WatchStages
  <2>1. NodeShape' /\ Upgraded'
      BY <1>3 DEF WatchCopies, WatchStages, IInv, NodeShape, Upgraded,
                 PublishedIsServed, Current
  <2> QED BY <1>3, <2>1, NodeMoves DEF WatchCopies, WatchStages
<1>4. CASE IntervalPasses
  <2>0. UNCHANGED <<conns, helper, nodeState>>
      BY <1>4 DEF IntervalPasses
  <2>1. NodeShape'
      BY <1>4, <2>0 DEF IntervalPasses, IInv, NodeShape, nodeState
  <2>2. Upgraded'
      BY <2>0 DEF IInv, Upgraded, PublishedIsServed, Current, nodeState
  <2> QED BY <1>4, <2>1, <2>2, NodeMoves DEF IntervalPasses
<1> QED BY <1>1, <1>2, <1>3, <1>4

\* What the programs that ask do: no operation is touched.
LEMMA ClientsKeep ==
  ASSUME IInv, NEW k \in Slots, WriteRequest(k) \/ Read(k) \/ Leave(k)
  PROVE  IInv'
<1>1. CASE WriteRequest(k)
  <2>1. conns' = [conns EXCEPT ![k].sent = TRUE]
      BY <1>1 DEF WriteRequest
  <2>2. \A j \in Slots : SameConn(j)
      BY <2>1 DEF IInv, HelperShape, Connection, SameConn
  <2>3. conns' \in [Slots -> Connection]
    <3>1. [conns[k] EXCEPT !.sent = TRUE] \in Connection
        BY DEF IInv, HelperShape, Connection
    <3> QED BY <2>1, <3>1 DEF IInv, HelperShape
  <2>4. HelperShape' /\ client'.slot \in Slots \cup {NoSlot}
      BY <1>1, <2>3 DEF IInv, HelperShape, NodeShape, WriteRequest
  <2> QED BY <1>1, <2>2, <2>4, ClientSide DEF WriteRequest
<1>2. CASE Read(k)
  <2>1. conns' = [conns EXCEPT ![k] = NoConn] /\ conns[k].stage = "closed"
      BY <1>2 DEF Read, Restore
  <2>2. \A j \in Slots : \/ SameConn(j)
                         \/ conns[j].stage = "closed" /\ conns'[j] = NoConn
      BY <2>1 DEF IInv, HelperShape, SameConn
  <2>4. HelperShape' /\ client'.slot \in Slots \cup {NoSlot}
      BY <1>2, <2>1, NewRecords DEF IInv, HelperShape, NodeShape, Read
  <2> QED BY <1>2, <2>2, <2>4, ClientSide DEF Read
<1>3. CASE Leave(k)
  <2>1. conns' = [conns EXCEPT ![k].gone = TRUE]
      BY <1>3 DEF Leave
  <2>2. \A j \in Slots : SameConn(j)
      BY <2>1 DEF IInv, HelperShape, Connection, SameConn
  <2>3. conns' \in [Slots -> Connection]
    <3>1. [conns[k] EXCEPT !.gone = TRUE] \in Connection
        BY DEF IInv, HelperShape, Connection
    <3> QED BY <2>1, <3>1 DEF IInv, HelperShape
  <2>4. HelperShape' /\ client'.slot \in Slots \cup {NoSlot}
      BY <1>3, <2>3 DEF IInv, HelperShape, NodeShape, Leave
  <2> QED BY <1>3, <2>2, <2>4, ClientSide DEF Leave
<1> QED BY <1>1, <1>2, <1>3

\* What the terminal UI does about its connection to LND.
LEMMA RepairsKeep == IInv /\ (Repaired \/ Reconnect) => IInv'
<1> SUFFICES ASSUME IInv, Repaired \/ Reconnect PROVE IInv'
    OBVIOUS
<1>1. CASE Repaired
  <2> DEFINE s == client.slot
  <2>1. /\ conns' = [conns EXCEPT ![s] = NoConn] /\ conns[s].stage = "closed"
        /\ s \in Slots /\ client'.slot = NoSlot
      BY <1>1 DEF Repaired, Restore, IInv, NodeShape
  <2>2. \A j \in Slots : \/ SameConn(j)
                         \/ conns[j].stage = "closed" /\ conns'[j] = NoConn
      BY <2>1 DEF IInv, HelperShape, SameConn
  <2>4. HelperShape'
      BY <1>1, <2>1, NewRecords DEF IInv, HelperShape, Repaired
  <2> QED BY <1>1, <2>1, <2>2, <2>4, ClientSide DEF Repaired
<1>2. CASE Reconnect
  <2>1. UNCHANGED <<helper, installed, nodeState>>
      BY <1>2 DEF Reconnect
  <2>2. CASE ~Reaches(board) /\ Repairing
    <3>1. PICK j \in Slots : /\ Connect(j, "credentials", TRUE)
                            /\ client' = [held |-> board, due |-> FALSE, slot |-> j]
        BY <1>2, <2>2 DEF Reconnect
    <3>2. "credentials" \in AllVerbs /\ client'.slot \in Slots \cup {NoSlot}
        BY <3>1 DEF AllVerbs
    <3> QED BY <2>1, <3>1, <3>2, Connects
  <2>3. CASE ~(~Reaches(board) /\ Repairing)
    <3>1. /\ UNCHANGED <<conns, queue>>
          /\ client' = [client EXCEPT !.held = board] /\ client.slot = NoSlot
        BY <1>2, <2>3 DEF Reconnect
    <3>2. NodeShape'
        BY <2>1, <3>1 DEF IInv, NodeShape, nodeState
    <3>3. Upgraded'
        BY <2>1, <3>1 DEF IInv, Upgraded, PublishedIsServed, Current, nodeState
    <3> QED BY <2>1, <3>1, <3>2, <3>3, NodeMoves
  <2> QED BY <2>2, <2>3
<1> QED BY <1>1, <1>2

\* The helper between two connections.
LEMMA RestingKeeps ==
  ASSUME IInv, helper.pc \in {"down", "accept", "after"}, helper' \in Process,
         helper'.pc \in {"down", "accept", "after"}, helper'.conn = NoSlot,
         ~helper'.failed, ~helper'.expired,
         helper'.pc # "down" => helper'.version = installed,
         UNCHANGED <<conns, queue, installed, nodeState, client>>
  PROVE  IInv'
<1>1. ~Serving /\ ~Serving'
    BY DEF Serving
<1>2. HelperShape' /\ NodeShape' /\ QueueInv'
    BY DEF IInv, HelperShape, NodeShape, QueueInv, nodeState
<1>3. \A k \in Slots : ConnInv(k)'
    BY <1>1 DEF IInv, ConnInv, Whole
<1>4. Turn' /\ VersionInv'
    BY <1>1, HelperAssumption DEF Turn, VersionInv
<1>5. Upgraded'
    BY DEF IInv, Upgraded, PublishedIsServed, nodeState
<1> QED BY <1>2, <1>3, <1>4, <1>5 DEF IInv

\* The connection being served ends, with a true answer or none.
LEMMA ClosingKeeps ==
  ASSUME IInv, Serving, NEW end \in {"none", "ok", "error"},
         end = "ok" => Whole(Current) /\ Current.steps = Names(Current.verb),
         end = "error" => ~Whole(Current),
         conns' = [conns EXCEPT ![helper.conn] = Closed(helper.conn, end)],
         helper' \in Process,
         helper'.pc \in {"down", "accept", "after"}, helper'.conn = NoSlot,
         ~helper'.failed, ~helper'.expired,
         helper'.pc # "down" => helper'.version = installed,
         UNCHANGED <<queue, installed, nodeState, client>>
  PROVE  IInv'
<1> DEFINE h == helper.conn
           c == Closed(helper.conn, end)
<1>1. h \in Slots /\ conns[h] = Current /\ conns[h] \in Connection
    BY CurrentShape DEF Current, IInv, HelperShape
<1>2. \/ c = NoConn
      \/ /\ c.stage = "closed" /\ c.end = end /\ c.verb = Current.verb
         /\ c.performed = Current.performed /\ c.steps = Current.steps
    BY <1>1 DEF Closed, Connection
<1>3. c \in Connection
  <2>1. [conns[h] EXCEPT !.stage = "closed", !.end = end] \in Connection
      BY <1>1 DEF Connection
  <2> QED BY <2>1, NewRecords DEF Closed
<1>4. conns'[h] = c /\ \A k \in Slots \ {h} : conns'[k] = conns[k]
    BY <1>1 DEF IInv, HelperShape
<1> HIDE DEF c
<1>5. ~Serving'
    BY DEF Serving
<1>6. HelperShape'
  <2>1. conns' \in [Slots -> Connection]
      BY <1>3 DEF IInv, HelperShape, c
  <2> QED BY <2>1 DEF IInv, HelperShape
<1>7. ASSUME NEW k \in Slots PROVE ConnInv(k)'
  <2>1. CASE k = h
    <3>1. CASE c = NoConn
        BY <1>4, <1>5, <2>1, <3>1, NewHelper DEF ConnInv
    <3>2. CASE c # NoConn
        BY <1>1, <1>2, <1>4, <1>5, <2>1, <3>2, CurrentShape DEF ConnInv, Whole
    <3> QED BY <3>1, <3>2
  <2>2. CASE k # h
      BY <1>4, <1>5, <2>2 DEF IInv, ConnInv, Whole
  <2> QED BY <2>1, <2>2
<1>8. QueueInv'
  <2> SUFFICES ASSUME NEW i \in 1..Len(queue) PROVE conns'[queue[i]].stage = "queued"
      BY DEF IInv, QueueInv
  <2>1. queue[i] \in Slots /\ conns[queue[i]].stage = "queued"
      BY DEF IInv, QueueInv, HelperShape
  <2>2. queue[i] # h
      BY <1>1, <2>1, CurrentShape
  <2> QED BY <1>4, <2>1, <2>2
<1>9. Turn' /\ VersionInv'
    BY <1>5, HelperAssumption DEF Turn, VersionInv
<1>10. NodeShape' /\ Upgraded'
    BY DEF IInv, NodeShape, Upgraded, PublishedIsServed, nodeState
<1> QED BY <1>6, <1>7, <1>8, <1>9, <1>10 DEF IInv

\* The answer that ends a connection is true of what was performed.
LEMMA TrueEnd ==
  ASSUME IInv, WriteEnd
  PROVE  \E end \in {"none", "ok", "error"} :
           /\ end = "ok" => Whole(Current) /\ Current.steps = Names(Current.verb)
           /\ end = "error" => ~Whole(Current)
           /\ conns' = [conns EXCEPT ![helper.conn] = Closed(helper.conn, end)]
<1> DEFINE end == IF helper.expired THEN "none"
                  ELSE IF helper.failed THEN "error" ELSE "ok"
<1>1. Serving /\ helper.pc = "end" /\ (helper.failed <=> ~Whole(Current))
    BY DEF WriteEnd, Serving, IInv, Turn
<1>2. /\ end \in {"none", "ok", "error"}
      /\ end = "error" => ~Whole(Current)
      /\ end = "ok" => Whole(Current) /\ ~helper.expired
    BY <1>1
<1>3. end = "ok" => Current.steps = Names(Current.verb)
    BY <1>1, <1>2, CurrentShape, Counting DEF IInv, Turn, Whole
<1>4. conns' = [conns EXCEPT ![helper.conn] = Closed(helper.conn, end)]
    BY DEF WriteEnd
<1> HIDE DEF end
<1> QED BY <1>2, <1>3, <1>4

LEMMA LoopKeeps ==
  ASSUME IInv, Activate \/ IdleExit \/ HeaderTimeout \/ WriteEnd \/ HelperKilled
  PROVE  IInv'
<1>0. helper.pc # "down" /\ ~Serving => helper.version = installed
    BY DEF IInv, VersionInv
<1>1. CASE Activate
  <2>1. helper' = [NoHelper EXCEPT !.pc = "accept", !.version = installed]
      BY <1>1 DEF Activate
  <2>2. /\ helper' \in Process /\ helper'.pc = "accept" /\ helper'.conn = NoSlot
        /\ ~helper'.failed /\ ~helper'.expired /\ helper'.version = installed
      BY <2>1, NewRecords, NewHelper DEF Process, IInv, HelperShape
  <2> QED BY <1>1, <2>2, RestingKeeps DEF Activate
<1>2. CASE IdleExit
    BY <1>2, NewRecords, NewHelper, RestingKeeps DEF IdleExit
<1>3. ASSUME helper.version = installed
      PROVE  /\ NextConn(TRUE) \in Process /\ NextConn(TRUE).pc = "accept"
             /\ NextConn(TRUE).conn = NoSlot /\ ~NextConn(TRUE).failed
             /\ ~NextConn(TRUE).expired /\ NextConn(TRUE).version = installed
             /\ NextConn(FALSE) = NoHelper
    BY <1>3, NewRecords, NewHelper DEF NextConn, Process, IInv, HelperShape
<1>4. CASE HeaderTimeout
  <2>1. Serving /\ ~Whole(Current)
    <3>0. helper.pc = "header"
        BY <1>4 DEF HeaderTimeout
    <3>1. Serving
        BY <3>0 DEF Serving
    <3>2. Current.performed = 0
        BY <3>0 DEF IInv, Turn
    <3>3. Len(Body(Current.verb)) \in 1..9
        BY <3>1, CurrentShape
    <3>4. \A n \in 1..9 : n # 0
        OBVIOUS
    <3>5. Len(Body(Current.verb)) # 0
        BY <3>3, <3>4, Zenon
    <3> QED BY <3>1, <3>2, <3>5 DEF Whole
  <2>2. helper.version = installed
      BY <1>4, <2>1 DEF HeaderTimeout, IInv, VersionInv
  <2> QED BY <1>3, <1>4, <2>1, <2>2, ClosingKeeps DEF HeaderTimeout
<1>5. CASE WriteEnd
  <2>1. Serving /\ helper.pc = "end" /\ (helper.failed <=> ~Whole(Current))
      BY <1>5 DEF WriteEnd, Serving, IInv, Turn
  <2>2. PICK end \in {"none", "ok", "error"} :
          /\ end = "ok" => Whole(Current) /\ Current.steps = Names(Current.verb)
          /\ end = "error" => ~Whole(Current)
          /\ conns' = [conns EXCEPT ![helper.conn] = Closed(helper.conn, end)]
      BY <1>5, TrueEnd
  <2>3. CASE Current.verb = "reboot" /\ ~helper.failed
    <3>1. helper.version = installed
        BY <2>1, <2>3 DEF IInv, VersionInv
    <3>2. helper' = [NextConn(TRUE) EXCEPT !.pc = "after"]
        BY <1>5, <2>3 DEF WriteEnd, Current
    <3>3. /\ helper' \in Process /\ helper'.pc = "after" /\ helper'.conn = NoSlot
          /\ ~helper'.failed /\ ~helper'.expired /\ helper'.version = installed
        BY <1>3, <3>1, <3>2 DEF Process
    <3> QED BY <1>5, <2>1, <2>2, <3>3, ClosingKeeps DEF WriteEnd
  <2>4. CASE ~(Current.verb = "reboot" /\ ~helper.failed)
    <3>1. helper' = NextConn(Accepting(Current))
        BY <1>5, <2>4 DEF WriteEnd, Current
    <3>2. /\ helper' \in Process /\ helper'.conn = NoSlot
          /\ helper'.pc \in {"down", "accept"}
          /\ ~helper'.failed /\ ~helper'.expired
          /\ helper'.pc # "down" => helper'.version = installed
      <4>1. CASE Accepting(Current)
        <5>1. helper.version = installed
            BY <2>1, <4>1 DEF IInv, VersionInv, Accepting
        <5>2. helper' = NextConn(TRUE)
            BY <3>1, <4>1
        <5> QED BY <1>3, <5>1, <5>2
      <4>2. CASE ~Accepting(Current)
        <5>1. helper' = NoHelper
            BY <3>1, <4>2 DEF NextConn
        <5> QED BY <5>1, NewRecords, NewHelper
      <4> QED BY <4>1, <4>2
    <3> QED BY <1>5, <2>1, <2>2, <3>2, ClosingKeeps DEF WriteEnd
  <2> QED BY <2>3, <2>4
<1>6. CASE HelperKilled
  <2>1. CASE Serving
      BY <1>6, <2>1, CurrentShape, NewRecords, NewHelper, ClosingKeeps DEF HelperKilled
  <2>2. CASE ~Serving
    <3>1. helper.conn = NoSlot /\ helper.pc \in {"down", "accept", "after"}
        BY <2>2 DEF IInv, Turn, HelperShape, Process, Serving
    <3> QED BY <1>6, <3>1, NewRecords, NewHelper, RestingKeeps DEF HelperKilled
  <2> QED BY <2>1, <2>2
<1> QED BY <1>1, <1>2, <1>4, <1>5, <1>6

\* The oldest connection of the queue is accepted.
LEMMA AcceptKeeps == IInv /\ Accept => IInv'
<1> SUFFICES ASSUME IInv, Accept PROVE IInv'
    OBVIOUS
<1> DEFINE h == Head(queue)
<1>1. /\ helper.pc = "accept" /\ queue \in Seq(Slots) /\ queue # <<>>
      /\ helper' = [helper EXCEPT !.pc = "header", !.conn = h]
      /\ conns' = [conns EXCEPT ![h].stage = "served"] /\ queue' = Tail(queue)
    BY DEF Accept, IInv, HelperShape
<1>2. /\ Len(queue) \in Nat \ {0} /\ h = queue[1] /\ h \in Slots
      /\ Len(queue') = Len(queue) - 1
      /\ \A i \in 1..Len(queue') : queue'[i] = queue[i + 1] /\ queue[i + 1] \in Slots
    BY <1>1
<1>3. conns[h].stage = "queued" /\ \A i \in 1..Len(queue') : queue'[i] # h
    BY <1>2 DEF IInv, QueueInv
<1>4. /\ conns'[h].stage = "served" /\ conns'[h].verb = conns[h].verb
      /\ conns'[h].performed = conns[h].performed
      /\ conns'[h].steps = conns[h].steps /\ conns'[h].end = conns[h].end
      /\ \A k \in Slots \ {h} : conns'[k] = conns[k]
    BY <1>1, <1>2 DEF IInv, HelperShape, Connection
<1>5. HelperShape'
  <2>0. h \in Slots /\ conns[h] \in Connection
      BY <1>2 DEF IInv, HelperShape
  <2> HIDE DEF h
  <2>1. [conns[h] EXCEPT !.stage = "served"] \in Connection
      BY <2>0 DEF Connection
  <2>2. conns' \in [Slots -> Connection]
      BY <1>1, <1>2, <2>1 DEF IInv, HelperShape
  <2>3. helper' \in Process
      BY <1>1, <1>2 DEF IInv, HelperShape, Process
  <2>4. queue' \in Seq(Slots)
      BY <1>1
  <2> QED BY <2>2, <2>3, <2>4 DEF Accept, IInv, HelperShape
<1>6. /\ helper'.pc = "header" /\ helper'.conn = h /\ Serving' /\ ~Serving
      /\ helper'.failed = helper.failed /\ helper'.expired = helper.expired
      /\ helper'.version = helper.version
    BY <1>1 DEF IInv, HelperShape, Process, Serving
<1> HIDE DEF h
<1>7. ASSUME NEW k \in Slots PROVE ConnInv(k)'
  <2>1. CASE k = h
      BY <1>2, <1>3, <1>4, <1>6, <2>1 DEF IInv, ConnInv, Whole
  <2>2. CASE k # h
      BY <1>4, <1>6, <2>2 DEF IInv, ConnInv, Whole
  <2> QED BY <2>1, <2>2
<1>8. QueueInv'
  <2>1. ASSUME NEW i \in 1..Len(queue') PROVE conns'[queue'[i]].stage = "queued"
      BY <1>2, <1>3, <1>4 DEF IInv, QueueInv
  <2>2. ASSUME NEW i \in 1..Len(queue'), NEW j \in 1..Len(queue'),
               queue'[i] = queue'[j]
        PROVE  i = j
    <3>1. i + 1 \in 1..Len(queue) /\ j + 1 \in 1..Len(queue)
        BY <1>2
    <3>2. i + 1 = j + 1
        BY <1>2, <2>2, <3>1 DEF IInv, QueueInv
    <3> QED BY <3>2
  <2> QED BY <2>1, <2>2 DEF QueueInv
<1>9. Turn'
    BY <1>1, <1>2, <1>3, <1>4, <1>6 DEF IInv, Turn, ConnInv, Current
<1>10. VersionInv' /\ NodeShape' /\ Upgraded'
    BY <1>1, <1>6 DEF Accept, IInv, VersionInv, NodeShape, Upgraded, PublishedIsServed,
                     nodeState
<1> QED BY <1>5, <1>7, <1>8, <1>9, <1>10 DEF IInv

\* The helper moves on with the connection it serves.
LEMMA MovingKeeps ==
  ASSUME IInv, Serving, Serving', helper' \in Process, helper'.conn = helper.conn,
         helper'.version = helper.version, Turn', NodeShape', Upgraded',
         UNCHANGED <<conns, queue, installed>>
  PROVE  IInv'
<1>1. Whole(Current)' <=> Whole(Current)
    BY DEF Whole, Current
<1>2. HelperShape' /\ QueueInv'
    BY DEF IInv, HelperShape, QueueInv
<1>3. VersionInv'
    BY <1>1 DEF IInv, VersionInv, Current, Serving
<1>4. \A k \in Slots : ConnInv(k)'
    BY DEF IInv, ConnInv, Whole
<1> QED BY <1>2, <1>3, <1>4 DEF IInv

LEMMA StartingKeeps == IInv /\ (ReadHeader \/ DeadlinePasses) => IInv'
<1> SUFFICES ASSUME IInv, ReadHeader \/ DeadlinePasses PROVE IInv'
    OBVIOUS
<1>1. CASE ReadHeader
  <2>1. /\ helper.pc = "header" /\ helper' = [helper EXCEPT !.pc = "run"]
        /\ UNCHANGED <<conns, queue, installed, nodeState, client>>
      BY <1>1 DEF ReadHeader
  <2>2. /\ helper' \in Process /\ helper'.pc = "run" /\ helper'.conn = helper.conn
        /\ helper'.version = helper.version /\ helper'.failed = helper.failed
        /\ helper'.expired = helper.expired
      BY <2>1 DEF IInv, HelperShape, Process
  <2>3. Serving /\ Serving' /\ Current' = Current
      BY <2>1, <2>2 DEF Serving, Current
  <2>4. Current.performed = 0 /\ Current.steps = 0 /\ ~helper.failed
      BY <2>1 DEF IInv, Turn
  <2>5. /\ Current.performed < Len(Body(Current.verb))
        /\ Current.steps = Cardinality(SoFar(Current.verb, Current.performed))
    <3>1. Current.verb \in AllVerbs /\ Len(Body(Current.verb)) \in 1..9
        BY <2>3, CurrentShape
    <3>2. \A n \in 1..9 : 0 < n
        OBVIOUS
    <3>3. 0 < Len(Body(Current.verb))
        BY <3>1, <3>2, Zenon
    <3>4. Cardinality(SoFar(Current.verb, 0)) = 0
        BY <3>1, Counting
    <3> QED BY <2>4, <3>3, <3>4
  <2>6. Turn'
      BY <2>2, <2>3, <2>4, <2>5, CurrentShape DEF Turn
  <2>7. NodeShape' /\ Upgraded'
      BY <2>1, <2>3, <2>4 DEF IInv, NodeShape, Upgraded, PublishedIsServed, nodeState
  <2> QED BY <2>1, <2>2, <2>3, <2>6, <2>7, MovingKeeps
<1>2. CASE DeadlinePasses
  <2>1. /\ helper.pc \in {"run", "end"} /\ helper' = [helper EXCEPT !.expired = TRUE]
        /\ UNCHANGED <<conns, queue, installed, nodeState, client>>
      BY <1>2 DEF DeadlinePasses
  <2>2. /\ helper' \in Process /\ helper'.pc = helper.pc /\ helper'.conn = helper.conn
        /\ helper'.version = helper.version /\ helper'.failed = helper.failed
        /\ helper'.expired
      BY <2>1 DEF IInv, HelperShape, Process
  <2>3. Serving /\ Serving' /\ Current' = Current
      BY <2>1, <2>2 DEF Serving, Current
  <2>4. Turn'
      BY <2>1, <2>2, <2>3, CurrentShape DEF IInv, Turn, Whole
  <2>5. NodeShape' /\ Upgraded'
      BY <2>1, <2>2, <2>3 DEF IInv, NodeShape, Upgraded, PublishedIsServed, nodeState
  <2> QED BY <2>1, <2>2, <2>3, <2>4, <2>5, MovingKeeps
<1> QED BY <1>1, <1>2

LEMMA FailingKeeps ==
  ASSUME IInv, StepFails \/ RestartFails \/ (helper.pc = "run" /\ Failed
                                            /\ UNCHANGED <<installed, nodeState>>)
  PROVE  IInv'
<1>1. /\ helper.pc = "run" /\ Failed /\ UNCHANGED installed
      /\ lnd' \in {lnd, "down"} /\ UNCHANGED <<config, conf, rules, cert>>
    BY DEF StepFails, RestartFails, Doing, nodeState
<1>2. /\ helper' \in Process /\ helper'.pc = "end" /\ helper'.conn = helper.conn
      /\ helper'.version = helper.version /\ helper'.failed
      /\ helper'.expired = helper.expired
    BY <1>1 DEF Failed, IInv, HelperShape, Process
<1>3. Serving /\ Serving' /\ Current' = Current
    BY <1>1, <1>2 DEF Serving, Failed, Current
<1>4. Turn'
  <2>1. Current.performed < Len(Body(Current.verb))
      BY <1>1 DEF IInv, Turn
  <2>2. ~Whole(Current)
      BY <1>3, <2>1, CurrentShape DEF Whole
  <2> QED BY <1>1, <1>2, <1>3, <2>2, CurrentShape DEF IInv, Turn, Whole
<1>5. NodeShape'
    BY <1>1 DEF Failed, IInv, NodeShape
<1>6. Upgraded'
    BY <1>1, <1>2, <1>3 DEF IInv, Upgraded, PublishedIsServed
<1> QED BY <1>1, <1>2, <1>3, <1>4, <1>5, <1>6, MovingKeeps DEF Failed

-----------------------------------------------------------------------------
(* The steps of the operations.                                            *)

LEMMA Performed ==
  ASSUME IInv, helper.pc = "run", NEW STATE copy, copy \in Nat, Done(copy)
  PROVE  /\ Serving /\ Serving' /\ helper' \in Process /\ helper'.conn = helper.conn
         /\ helper'.failed = helper.failed /\ helper'.expired = helper.expired
         /\ helper'.version = helper.version
         /\ helper'.pc \in {"run", "end"}
         /\ helper'.pc = "end" <=> Current.performed + 1 = Len(Body(Current.verb))
         /\ Current.performed < Len(Body(Current.verb)) /\ Current.performed \in 0..8
         /\ Current' \in Connection /\ Current'.stage = Current.stage
         /\ Current'.verb = Current.verb /\ Current'.end = Current.end
         /\ Current'.performed = Current.performed + 1
         /\ Current'.steps = IF Current.performed + 1 \in Reported(Current.verb)
                               /\ ~helper.expired
                            THEN Current.steps + 1 ELSE Current.steps
         /\ conns' = [conns EXCEPT ![helper.conn] = Current']
         /\ \A k \in Slots \ {helper.conn} : conns'[k] = conns[k]
<1> DEFINE h == helper.conn
           n == conns[h].performed + 1
           tells == n \in Reported(conns[h].verb) /\ ~helper.expired
           new == [conns[h] EXCEPT !.performed = n,
                                   !.steps = IF tells THEN @ + 1 ELSE @]
<1>1. Serving
    BY DEF Serving
<1>2. /\ h \in Slots /\ conns[h] \in Connection /\ Current = conns[h]
      /\ Current.performed \in 0..9 /\ Current.steps \in Nat
      /\ Len(Body(Current.verb)) \in 1..9
    BY <1>1, CurrentShape DEF IInv, HelperShape, Current
<1>3. /\ Current.performed < Len(Body(Current.verb)) /\ Current.performed \in 0..8
  <2>1. Current.performed < Len(Body(Current.verb))
      BY DEF IInv, Turn
  <2>2. \A p \in 0..9, l \in 1..9 : p < l => p \in 0..8
      OBVIOUS
  <2> QED BY <1>2, <2>1, <2>2, Zenon
<1>4. helper' = [helper EXCEPT !.pc = IF n = Len(Body(conns[h].verb)) THEN "end" ELSE "run",
                              !.copy = copy]
    BY DEF Done
<1>5. conns' = [conns EXCEPT ![h] = new]
    BY <1>2 DEF Done, IInv, HelperShape
<1>6. /\ new \in Connection /\ new.stage = Current.stage /\ new.verb = Current.verb
      /\ new.end = Current.end /\ new.performed = Current.performed + 1
      /\ new.steps = IF Current.performed + 1 \in Reported(Current.verb)
                        /\ ~helper.expired
                     THEN Current.steps + 1 ELSE Current.steps
  <2> DEFINE steps == IF tells THEN conns[h].steps + 1 ELSE conns[h].steps
  <2>1. n \in 0..9 /\ steps \in Nat /\ conns[h].performed = Current.performed
      BY <1>2, <1>3
  <2>2. new = [conns[h] EXCEPT !.performed = n, !.steps = steps]
      OBVIOUS
  <2>3. /\ n = Current.performed + 1
        /\ steps = IF Current.performed + 1 \in Reported(Current.verb)
                      /\ ~helper.expired
                   THEN Current.steps + 1 ELSE Current.steps
      BY <1>2
  <2> HIDE DEF new, n, steps
  <2>4. /\ new \in Connection /\ new.stage = Current.stage /\ new.verb = Current.verb
        /\ new.end = Current.end /\ new.performed = n /\ new.steps = steps
      BY <1>2, <2>1, <2>2 DEF Connection
  <2> QED BY <2>3, <2>4
<1>7. /\ helper' \in Process /\ helper'.conn = helper.conn
      /\ helper'.failed = helper.failed /\ helper'.expired = helper.expired
      /\ helper'.version = helper.version
      /\ helper'.pc \in {"run", "end"}
      /\ helper'.pc = "end" <=> Current.performed + 1 = Len(Body(Current.verb))
    BY <1>2, <1>4 DEF IInv, HelperShape, Process
<1> HIDE DEF new
<1>8. Current' = new /\ \A k \in Slots \ {h} : conns'[k] = conns[k]
    BY <1>2, <1>5, <1>7 DEF IInv, HelperShape, Current
<1>9. Serving'
    BY <1>7 DEF Serving
<1> QED BY <1>1, <1>3, <1>5, <1>6, <1>7, <1>8, <1>9

LEMMA DoingKeeps ==
  ASSUME IInv, helper.pc = "run", NEW STATE copy, copy \in Nat, Done(copy),
         installed' \in {"old", "new"},
         \/ installed' = installed
         \/ Current.verb = "selfUpdate" /\ Current.performed = 4,
         NodeShape', Upgraded'
  PROVE  IInv'
<1> DEFINE h == helper.conn
<1>1. /\ h \in Slots /\ Current.verb \in AllVerbs /\ Current.steps \in Nat
      /\ Current = conns[h] /\ Current' = conns'[h] /\ UNCHANGED queue
      /\ Current.stage = "served"
      /\ Len(Body(Current.verb)) \in 1..9
    BY Performed, CurrentShape DEF Current, Done
<1>2. HelperShape'
    BY <1>1, Performed DEF IInv, HelperShape
<1>3. Current.end = "none" /\ ~helper.failed
    BY <1>1 DEF IInv, ConnInv, Turn
<1>4. ASSUME NEW k \in Slots PROVE ConnInv(k)'
  <2>1. CASE k = h
    <3>1. conns'[k].performed <= Len(Body(conns'[k].verb))
        BY <1>1, <2>1, Performed
    <3> QED BY <1>1, <1>3, <2>1, <3>1, Performed DEF ConnInv
  <2>2. CASE k # h
      BY <2>2, Performed DEF IInv, ConnInv, Whole
  <2> QED BY <2>1, <2>2
<1>5. QueueInv'
  <2> SUFFICES ASSUME NEW i \in 1..Len(queue) PROVE conns'[queue[i]].stage = "queued"
      BY <1>1 DEF IInv, QueueInv
  <2>1. queue[i] \in Slots /\ conns[queue[i]].stage = "queued"
      BY DEF IInv, QueueInv, HelperShape
  <2> QED BY <1>1, <2>1, Performed
<1>6. Turn'
  <2>1. helper'.pc = "run" => Current'.performed < Len(Body(Current'.verb))
      BY <1>1, Performed
  <2>2. helper'.pc = "end" => Whole(Current')
      BY <1>1, Performed DEF Whole
  <2>3. ~helper.expired =>
          Current'.steps = Cardinality(SoFar(Current'.verb, Current'.performed))
    <3>1. SUFFICES ASSUME ~helper.expired
                   PROVE  Current'.steps
                            = Cardinality(SoFar(Current'.verb, Current'.performed))
        OBVIOUS
    <3>2. Current.steps = Cardinality(SoFar(Current.verb, Current.performed))
        BY <3>1 DEF IInv, Turn
    <3>3. Current.performed \in 0..9
        BY Performed
    <3> QED BY <1>1, <3>1, <3>2, <3>3, Performed, Counting
  <2> QED BY <1>1, <1>3, <2>1, <2>2, <2>3, Performed DEF Turn
<1>7. VersionInv'
  <2>1. CASE installed' = installed
    <3>1. ~Whole(Current)
        BY <1>1, Performed DEF Whole
    <3> QED BY <2>1, <3>1, Performed DEF IInv, VersionInv
  <2>2. CASE Current.verb = "selfUpdate" /\ Current.performed = 4
    <3>1. Len(Body("selfUpdate")) = 5
        BY Lengths DEF Body
    <3>2. Whole(Current')
      <4>1. Current'.verb = "selfUpdate" /\ Current'.performed = 5
          BY <2>2, Performed
      <4> QED BY <3>1, <4>1 DEF Whole
    <3> QED BY <2>2, <3>2, Performed DEF VersionInv
  <2> QED BY <2>1, <2>2
<1> QED BY <1>2, <1>4, <1>5, <1>6, <1>7 DEF IInv

\* Where in the operations the steps are that change what is relied on.
LEMMA Place ==
  ASSUME IInv, NEW step, Doing(step)
  PROVE  /\ helper.pc = "run" /\ Current.performed \in 0..8 /\ helper.copy \in Nat
         /\ step = "conf" <=> Current.verb = "p2p" /\ Current.performed = 2
         /\ step = "rules" <=> Current.verb = "p2p" /\ Current.performed = 3
         /\ Current.verb = "p2p" /\ Current.performed = 4 => step = "restartLND"
         /\ step = "publish" => Current.verb = "p2p" /\ Current.performed = 8
         /\ step = "install" => Current.verb = "selfUpdate" /\ Current.performed = 4
<1>1. helper.pc = "run" /\ step = Body(Current.verb)[Current.performed + 1]
    BY DEF Doing, Current
<1>2. /\ Serving /\ Current.verb \in AllVerbs /\ Current.performed \in 0..9
      /\ Len(Body(Current.verb)) \in 1..9
    BY <1>1, CurrentShape DEF Serving
<1>3. Current.performed < Len(Body(Current.verb))
    BY <1>1 DEF IInv, Turn
<1>4. \A p \in 0..9, l \in 1..9 : p < l => p \in 0..8
    OBVIOUS
<1>5. Current.performed \in 0..8
    BY <1>2, <1>3, <1>4, Zenon
<1>6. helper.copy \in Nat
    BY DEF IInv, HelperShape, Process
<1>7. /\ step = "conf" <=> Current.verb = "p2p" /\ Current.performed = 2
      /\ step = "rules" <=> Current.verb = "p2p" /\ Current.performed = 3
      /\ Current.verb = "p2p" /\ Current.performed = 4 => step = "restartLND"
      /\ step = "publish" => Current.verb = "p2p" /\ Current.performed = 8
      /\ step = "install" => Current.verb = "selfUpdate" /\ Current.performed = 4
    BY <1>1, <1>2, <1>3, Places, Zenon
<1> QED BY <1>1, <1>5, <1>6, <1>7

\* The invariant about the upgrade, after a step that succeeded.
LEMMA UpgradeGoesOn ==
  ASSUME IInv, helper.pc = "run", NEW STATE copy, copy \in Nat, Done(copy),
         lnd' = "hybrid" => conf' = "hybrid" /\ cert'.mode = "hybrid",
         PublishedIsServed',
         Current.verb = "p2p" =>
           /\ Current.performed >= 2 => conf' = "hybrid"
           /\ Current.performed >= 3 => rules'
           /\ Current.performed >= 4 => lnd' \in {"down", "hybrid"} /\ cert'.mode = "hybrid"
  PROVE  Upgraded'
<1>1. Current'.verb = Current.verb /\ Current'.performed = Current.performed + 1
    BY Performed
<1>2. Current.performed \in 0..8
    BY Performed
<1>3. /\ Current'.performed >= 3 => Current.performed >= 2
      /\ Current'.performed >= 4 => Current.performed >= 3
      /\ Current'.performed >= 5 => Current.performed >= 4
    BY <1>1, <1>2
<1> QED BY <1>1, <1>3 DEF Upgraded

LEMMA StepsKeep == IInv /\ Steps => IInv'
<1> SUFFICES ASSUME IInv, Steps PROVE IInv'
    OBVIOUS
<1>1. /\ lnd = "hybrid" => conf = "hybrid" /\ cert.mode = "hybrid"
      /\ config = "hybrid" => conf = "hybrid" /\ rules /\ lnd \in {"down", "hybrid"}
                              /\ cert.mode = "hybrid"
    BY DEF IInv, Upgraded, PublishedIsServed
<1>2. helper.pc = "run" /\ Current.verb = "p2p" =>
        /\ Current.performed >= 3 => conf = "hybrid"
        /\ Current.performed >= 4 => rules
        /\ Current.performed >= 5 => lnd \in {"down", "hybrid"} /\ cert.mode = "hybrid"
    BY DEF IInv, Upgraded
<1>3. ASSUME NEW step, Doing(step), NEW STATE copy, copy \in Nat, Done(copy),
             step \notin {"conf", "rules", "restartLND"},
             UNCHANGED <<conf, rules, lnd, cert>>,
             config' = config \/ (step = "publish" /\ config' = "hybrid"),
             installed' = installed \/ (step = "install" /\ installed' = "new")
      PROVE  IInv'
  <2>1. /\ helper.pc = "run" /\ Current.performed \in 0..8
        /\ Current.verb = "p2p" => Current.performed \notin {2, 3, 4}
      BY <1>3, Place
  <2>2. Current.verb = "p2p" =>
          /\ Current.performed >= 2 => Current.performed >= 3
          /\ Current.performed >= 3 => Current.performed >= 4
          /\ Current.performed >= 4 => Current.performed >= 5
      BY <2>1
  <2>3. step = "publish" => Current.verb = "p2p" /\ Current.performed = 8
      BY <1>3, Place
  <2>4. PublishedIsServed'
      BY <1>1, <1>2, <1>3, <2>1, <2>3 DEF PublishedIsServed
  <2>5. Upgraded'
      BY <1>1, <1>2, <1>3, <2>1, <2>2, <2>4, UpgradeGoesOn
  <2>6. NodeShape'
      BY <1>3 DEF Done, IInv, NodeShape
  <2>7. /\ installed' \in {"old", "new"}
        /\ \/ installed' = installed
           \/ Current.verb = "selfUpdate" /\ Current.performed = 4
      BY <1>3, Place DEF IInv, HelperShape
  <2> QED BY <1>3, <2>1, <2>5, <2>6, <2>7, DoingKeeps
<1>4. CASE Plain
  <2>1. PICK step \in {"ufw", "major", "fetch", "signature", "checksum",
                       "refresh", "upgrade", "audit", "read", "plan"} : Doing(step)
      BY <1>4 DEF Plain
  <2> QED BY <1>3, <1>4, <2>1, Place DEF Plain, nodeState
<1>5. CASE CheckMode
  <2>1. CASE config = "tor"
      BY <1>3, <1>5, <2>1, Place DEF CheckMode, nodeState
  <2>2. CASE config # "tor"
      BY <1>5, <2>2, FailingKeeps DEF CheckMode, Doing
  <2> QED BY <2>1, <2>2
<1>6. CASE VerifySAN
  <2>1. CASE cert.mode = "hybrid"
      BY <1>3, <1>6, <2>1, Place DEF VerifySAN, nodeState
  <2>2. CASE cert.mode # "hybrid"
      BY <1>6, <2>2, FailingKeeps DEF VerifySAN, Doing
  <2> QED BY <2>1, <2>2
<1>7. CASE CopyCert
  <2>1. cert.gen \in Nat
      BY DEF IInv, NodeShape
  <2> QED BY <1>3, <1>7, <2>1 DEF CopyCert, nodeState
<1>8. CASE StageCert
    BY <1>3, <1>8 DEF StageCert
<1>9. CASE Publish
    BY <1>3, <1>9, Place DEF Publish
<1>10. CASE InstallBinary
    BY <1>3, <1>10, Place DEF InstallBinary, nodeState
<1>11. CASE WriteConf
  <2>1. /\ helper.pc = "run" /\ helper.copy \in Nat /\ Done(helper.copy)
        /\ Current.verb = "p2p" /\ Current.performed = 2
      BY <1>11, Place DEF WriteConf
  <2>2. /\ conf' = "hybrid"
        /\ UNCHANGED <<installed, config, rules, lnd, cert>>
      BY <1>11 DEF WriteConf
  <2>3. PublishedIsServed'
      BY <1>1, <2>2 DEF PublishedIsServed
  <2>4. Upgraded'
      BY <1>1, <2>1, <2>2, <2>3, UpgradeGoesOn
  <2>5. NodeShape'
      BY <2>1, <2>2 DEF Done, IInv, NodeShape
  <2>6. installed' \in {"old", "new"}
      BY <2>2 DEF IInv, HelperShape
  <2> QED BY <2>1, <2>2, <2>4, <2>5, <2>6, DoingKeeps
<1>12. CASE AddRules
  <2>1. /\ helper.pc = "run" /\ helper.copy \in Nat /\ Done(helper.copy)
        /\ Current.verb = "p2p" /\ Current.performed = 3
      BY <1>12, Place DEF AddRules
  <2>2. rules' = TRUE /\ UNCHANGED <<installed, config, conf, lnd, cert>>
      BY <1>12 DEF AddRules
  <2>3. PublishedIsServed'
      BY <1>1, <2>2 DEF PublishedIsServed
  <2>4. Upgraded'
      BY <1>1, <1>2, <2>1, <2>2, <2>3, UpgradeGoesOn
  <2>5. NodeShape'
      BY <2>1, <2>2 DEF Done, IInv, NodeShape
  <2>6. installed' \in {"old", "new"}
      BY <2>2 DEF IInv, HelperShape
  <2> QED BY <2>1, <2>2, <2>4, <2>5, <2>6, DoingKeeps
<1>13. CASE RestartLND
  <2>1. /\ helper.pc = "run" /\ helper.copy \in Nat /\ Done(helper.copy)
        /\ Current.performed \in 0..8
        /\ Current.verb = "p2p" => Current.performed \notin {2, 3}
      BY <1>13, Place DEF RestartLND
  <2>2. /\ lnd' = conf /\ cert' \in [gen : Nat, mode : {"tor", "hybrid"}]
        /\ cert'.mode = conf /\ UNCHANGED <<config, conf, rules, installed>>
      BY <1>13, LNDStarts DEF RestartLND
  <2>3. PublishedIsServed'
      BY <1>1, <2>2 DEF PublishedIsServed
  <2>4. Current.verb = "p2p" =>
          /\ Current.performed >= 2 => Current.performed >= 3 /\ Current.performed >= 4
          /\ Current.performed >= 3 => Current.performed >= 4
      BY <2>1
  <2>5. Upgraded'
      BY <1>2, <2>1, <2>2, <2>3, <2>4, UpgradeGoesOn
  <2>6. NodeShape'
      BY <2>1, <2>2 DEF Done, IInv, NodeShape
  <2>7. installed' \in {"old", "new"}
      BY <2>2 DEF IInv, HelperShape
  <2> QED BY <2>1, <2>2, <2>5, <2>6, <2>7, DoingKeeps
<1> QED BY <1>4, <1>5, <1>6, <1>7, <1>8, <1>9, <1>10, <1>11, <1>12, <1>13 DEF Steps

LEMMA PowerKeeps == IInv /\ (PowerLoss \/ Reboot) => IInv'
<1> SUFFICES ASSUME IInv, PowerLoss \/ Reboot PROVE IInv'
    OBVIOUS
<1>1. CASE PowerCycle
  <2>1. /\ conns' = [k \in Slots |-> NoConn] /\ queue' = <<>> /\ helper' = NoHelper
        /\ lnd' = "down" /\ client' = NewClient
        /\ UNCHANGED <<installed, config, conf, rules, cert>>
      BY <1>1 DEF PowerCycle
  <2>2. ~Serving' /\ helper'.pc = "down" /\ helper'.conn = NoSlot
      BY <2>1, NewHelper DEF Serving
  <2>3. HelperShape'
      BY <2>1, NewRecords DEF IInv, HelperShape
  <2>4. NodeShape'
      BY <2>1 DEF IInv, NodeShape, NewClient
  <2>5. \A k \in Slots : ConnInv(k)'
      BY <2>1, <2>2, NewHelper DEF ConnInv
  <2>6. QueueInv'
      BY <2>1 DEF QueueInv
  <2>7. Turn' /\ VersionInv'
      BY <2>2, HelperAssumption DEF Turn, VersionInv, Serving
  <2>8. Upgraded'
      BY <2>1, <2>2 DEF IInv, Upgraded, PublishedIsServed
  <2> QED BY <2>3, <2>4, <2>5, <2>6, <2>7, <2>8 DEF IInv
<1>2. CASE /\ helper.pc = "after" /\ helper' = NextConn(TRUE)
           /\ UNCHANGED <<conns, queue, installed, nodeState, client>>
  <2>1. helper.version = installed
      BY <1>2 DEF IInv, VersionInv, Serving
  <2>2. helper' = [NoHelper EXCEPT !.pc = "accept", !.version = installed]
      BY <1>2, <2>1 DEF NextConn
  <2>3. /\ helper' \in Process /\ helper'.pc = "accept" /\ helper'.conn = NoSlot
        /\ ~helper'.failed /\ ~helper'.expired /\ helper'.version = installed
      BY <2>2, NewRecords, NewHelper DEF Process, IInv, HelperShape
  <2> QED BY <1>2, <2>3, RestingKeeps
<1> QED BY <1>1, <1>2 DEF PowerLoss, Reboot

LEMMA Inductive == IInv /\ [Next]_vars => IInv'
<1> SUFFICES ASSUME IInv, [Next]_vars PROVE IInv'
    OBVIOUS
<1>1. ASSUME NEW k \in Slots, NEW verb \in Verbs, Ask(k, verb) PROVE IInv'
  <2>1. PICK sent \in BOOLEAN : Connect(k, verb, sent)
      BY <1>1 DEF Ask
  <2>2. verb \in AllVerbs /\ client'.slot \in Slots \cup {NoSlot}
      BY <1>1 DEF Ask, AllVerbs, IInv, NodeShape
  <2> QED BY <1>1, <2>1, <2>2, Connects DEF Ask
<1>2. ASSUME NEW k \in Slots, WriteRequest(k) \/ Read(k) \/ Leave(k) PROVE IInv'
    BY <1>2, ClientsKeep
<1>3. CASE Serve
    BY <1>3, LoopKeeps, AcceptKeeps, StartingKeeps, StepsKeep, PowerKeeps DEF Serve
<1>4. CASE Surroundings \/ IntervalPasses \/ LNDCrashes
    BY <1>4, SurroundingsKeep DEF Surroundings
<1>5. CASE Reconnect \/ Repaired
    BY <1>5, RepairsKeep
<1>6. CASE DeadlinePasses \/ StepFails \/ RestartFails \/ HelperKilled \/ PowerLoss
    BY <1>6, StartingKeeps, FailingKeeps, LoopKeeps, PowerKeeps
<1>7. CASE UNCHANGED vars
  <2>1. UNCHANGED <<conns, queue, helper, installed, nodeState, client>>
      BY <1>7 DEF vars
  <2>2. NodeShape'
      BY <2>1 DEF IInv, NodeShape, nodeState
  <2>3. Upgraded'
      BY <2>1 DEF IInv, Upgraded, PublishedIsServed, Current, nodeState
  <2> QED BY <2>1, <2>2, <2>3, NodeMoves
<1> QED BY <1>1, <1>2, <1>3, <1>4, <1>5, <1>6, <1>7 DEF Next, Connecting

\* The invariant holds in every state of every behaviour.
THEOREM HelperInvariant == Spec => []IInv
<1>1. Init => IInv
    BY InitialState
<1>2. IInv /\ [Next]_vars => IInv'
    BY Inductive
<1> QED BY <1>1, <1>2, PTL DEF Spec

\* A helper that waits for a connection runs the installed binary, whatever was
\* killed during an update and whoever asked while it was going on.
THEOREM NewestBinaryServes == Spec => []NewestServes
<1>1. IInv => NewestServes
    BY DEF IInv, VersionInv, Serving, NewestServes
<1> QED BY <1>1, HelperInvariant, PTL

\* The published P2P mode is hybrid only on a node that is, whatever step of an
\* upgrade failed and whenever LND, the helper or the machine went down.
THEOREM PublishedModeIsServed == Spec => []PublishedIsServed
<1>1. IInv => PublishedIsServed
    BY DEF IInv, Upgraded
<1> QED BY <1>1, HelperInvariant, PTL

-----------------------------------------------------------------------------
(* The helper implements RequestService.                                   *)

RequestOf(c) ==
  IF c.stage = "idle" THEN "none"
  ELSE IF Whole(c) THEN "completed" ELSE IF c.performed = 0 THEN "asked" ELSE "begun"

AnswerOf(c) == IF c.stage = "closed" THEN Verdict(c) ELSE "none"

LEMMA Views ==
  /\ request = [k \in Slots |-> RequestOf(conns[k])]
  /\ answer = [k \in Slots |-> AnswerOf(conns[k])]
  /\ request' = [k \in Slots |-> RequestOf(conns'[k])]
  /\ answer' = [k \in Slots |-> AnswerOf(conns'[k])]
BY DEF request, answer, RequestOf, AnswerOf

\* One connection changes.
LEMMA OneChanges ==
  ASSUME conns \in [Slots -> Connection], NEW h \in Slots, NEW STATE c,
         conns' = [conns EXCEPT ![h] = c]
  PROVE  /\ request' = [request EXCEPT ![h] = RequestOf(c)]
         /\ answer' = [answer EXCEPT ![h] = AnswerOf(c)]
         /\ request[h] = RequestOf(conns[h]) /\ answer[h] = AnswerOf(conns[h])
<1>1. conns'[h] = c /\ \A k \in Slots \ {h} : conns'[k] = conns[k]
    OBVIOUS
<1>2. request' = [request EXCEPT ![h] = RequestOf(c)]
    BY <1>1, Views
<1>3. answer' = [answer EXCEPT ![h] = AnswerOf(c)]
    BY <1>1, Views
<1> QED BY <1>2, <1>3, Views

LEMMA SameViews ==
  ASSUME \A k \in Slots : /\ RequestOf(conns'[k]) = RequestOf(conns[k])
                         /\ AnswerOf(conns'[k]) = AnswerOf(conns[k])
  PROVE  UNCHANGED <<request, answer>>
BY Views

LEMMA Forgotten ==
  ASSUME conns \in [Slots -> Connection], NEW h \in Slots,
         conns' = [conns EXCEPT ![h] = NoConn]
  PROVE  Service!Next
<1>1. RequestOf(NoConn) = "none" /\ AnswerOf(NoConn) = "none"
    BY NewHelper DEF RequestOf, AnswerOf
<1>2. \A k \in Slots : conns'[k] = IF k = h THEN NoConn ELSE conns[k]
    OBVIOUS
<1>3. /\ request' = [k \in Slots |-> IF k \in {h} THEN "none" ELSE request[k]]
      /\ answer' = [k \in Slots |-> IF k \in {h} THEN "none" ELSE answer[k]]
    BY <1>1, <1>2, Views
<1>4. Service!Forget({h})
    BY <1>3 DEF Service!Forget
<1> QED BY <1>4 DEF Service!Next

\* A connection that is served or closed has a request; what was performed of a
\* served one decides what the service has seen.
LEMMA RequestsSeen ==
  ASSUME NEW c \in Connection, c.stage # "idle", c.verb \in AllVerbs
  PROVE  /\ RequestOf(c) \in {"asked", "begun", "completed"}
         /\ RequestOf(c) = "completed" <=> Whole(c)
         /\ RequestOf(c) = "asked" <=> c.performed = 0
<1>1. Len(Body(c.verb)) \in 1..9
    BY BodyLengths
<1>2. \A n \in 1..9 : n # 0
    OBVIOUS
<1>3. Len(Body(c.verb)) # 0
    BY <1>1, <1>2, Zenon
<1>4. Whole(c) => c.performed # 0
    BY <1>3 DEF Whole
<1> QED BY <1>4 DEF RequestOf

LEMMA AskingRefines ==
  ASSUME IInv, NEW k \in Slots, NEW verb \in AllVerbs, NEW sent \in BOOLEAN,
         Connect(k, verb, sent)
  PROVE  Service!Next
<1> DEFINE new == [NoConn EXCEPT !.stage = "queued", !.verb = verb, !.sent = sent]
<1>1. conns \in [Slots -> Connection] /\ conns[k].stage = "idle"
    BY DEF IInv, HelperShape, Connect, Vacant
<1>2. conns' = [conns EXCEPT ![k] = new]
    BY DEF Connect
<1>3. /\ new \in Connection /\ new.stage = "queued" /\ new.verb = verb
      /\ new.performed = 0
    BY NewRecords, NewHelper DEF Connection
<1> HIDE DEF new
<1>4. RequestOf(new) = "asked" /\ AnswerOf(new) = "none"
    BY <1>3, RequestsSeen DEF AnswerOf
<1>5. RequestOf(conns[k]) = "none" /\ AnswerOf(conns[k]) = "none"
    BY <1>1 DEF RequestOf, AnswerOf
<1>6. \A j \in Slots : conns'[j] = IF j = k THEN new ELSE conns[j]
    BY <1>1, <1>2
<1>7. request[k] = "none" /\ request' = [request EXCEPT ![k] = "asked"]
    BY <1>4, <1>5, <1>6, Views
<1>8. UNCHANGED answer
    BY <1>4, <1>5, <1>6, Views
<1> QED BY <1>7, <1>8 DEF Service!Ask, Service!Next

\* A step is performed while nothing else is between its start and its end.
LEMMA PerformingRefines ==
  ASSUME IInv, helper.pc = "run", NEW STATE copy, copy \in Nat, Done(copy)
  PROVE  Service!Next
<1> DEFINE h == helper.conn
           new == Current'
<1>1. /\ Serving /\ h \in Slots /\ Current = conns[h] /\ Current.stage = "served"
      /\ Current.verb \in AllVerbs /\ Current \in Connection
      /\ conns \in [Slots -> Connection]
    BY CurrentShape DEF Serving, Current, IInv, HelperShape
<1>2. /\ conns' = [conns EXCEPT ![h] = new] /\ new \in Connection
      /\ new.stage = "served" /\ new.verb = Current.verb
      /\ new.performed = Current.performed + 1
      /\ Current.performed < Len(Body(Current.verb)) /\ Current.performed \in 0..8
    BY <1>1, Performed
<1> HIDE DEF new
<1>3. RequestOf(Current) \in {"asked", "begun"} /\ AnswerOf(Current) = "none"
  <2>1. ~Whole(Current)
      BY <1>1, <1>2, CurrentShape DEF Whole
  <2> QED BY <1>1, <2>1, RequestsSeen DEF AnswerOf
<1>4. RequestOf(new) \in {"begun", "completed"} /\ AnswerOf(new) = "none"
    BY <1>1, <1>2, RequestsSeen DEF AnswerOf
<1>5. \A j \in Slots : conns'[j] = IF j = h THEN new ELSE conns[j]
    BY <1>1, <1>2
<1>6. ASSUME NEW j \in Slots \ {h}, request[j] \in {"begun", "completed"}
      PROVE  answer[j] # "none"
  <2>1. /\ RequestOf(conns[j]) \in {"begun", "completed"}
        /\ answer[j] = AnswerOf(conns[j]) /\ conns[j] \in Connection
      BY <1>1, <1>6, Views
  <2>2. conns[j].stage # "idle"
      BY <2>1 DEF RequestOf
  <2>3. conns[j].verb \in AllVerbs /\ conns[j].stage # "served"
      BY <1>1, <2>2 DEF IInv, ConnInv
  <2>4. conns[j].performed # 0
    <3>1. RequestOf(conns[j]) # "asked"
        BY <2>1
    <3> QED BY <2>1, <2>2, <2>3, <3>1, RequestsSeen
  <2>5. conns[j].stage = "closed"
      BY <2>1, <2>2, <2>3, <2>4 DEF IInv, ConnInv, Connection
  <2>6. Verdict(conns[j]) # "none"
      BY <2>1 DEF Verdict, Connection
  <2> QED BY <2>1, <2>5, <2>6 DEF AnswerOf
<1>7. request[h] \in {"asked", "begun"} /\ answer[h] = "none"
    BY <1>1, <1>3, Views
<1>8. request' = [request EXCEPT ![h] = RequestOf(new)]
    BY <1>5, Views
<1>9. UNCHANGED answer
    BY <1>1, <1>3, <1>4, <1>5, Views
<1>10. Service!Perform(h)
    BY <1>4, <1>6, <1>7, <1>8, <1>9 DEF Service!Perform
<1> QED BY <1>1, <1>10 DEF Service!Next

\* A connection ends: its client reads a true answer, or is gone.
LEMMA ClosingRefines ==
  ASSUME IInv, Serving, NEW end \in {"none", "ok", "error"},
         end = "ok" => Whole(Current) /\ Current.steps = Names(Current.verb),
         end = "error" => ~Whole(Current),
         conns' = [conns EXCEPT ![helper.conn] = Closed(helper.conn, end)]
  PROVE  Service!Next
<1> DEFINE h == helper.conn
           new == [conns[h] EXCEPT !.stage = "closed", !.end = end]
<1>1. /\ h \in Slots /\ Current = conns[h] /\ Current.stage = "served"
      /\ Current.verb \in AllVerbs /\ Current \in Connection
      /\ conns \in [Slots -> Connection]
    BY CurrentShape DEF Current, IInv, HelperShape
<1>2. CASE conns[h].gone
    BY <1>1, <1>2, Forgotten DEF Closed
<1>3. CASE ~conns[h].gone
  <2>1. conns' = [conns EXCEPT ![h] = new]
      BY <1>3 DEF Closed
  <2>2. /\ new \in Connection /\ new.stage = "closed" /\ new.end = end
        /\ new.verb = Current.verb /\ new.performed = Current.performed
        /\ new.steps = Current.steps
      BY <1>1 DEF Connection
  <2> HIDE DEF new
  <2>3. Whole(new) <=> Whole(Current)
      BY <2>2 DEF Whole
  <2>4. RequestOf(new) = RequestOf(Current)
      BY <1>1, <2>2, <2>3 DEF RequestOf
  <2>5. /\ AnswerOf(new) \in {"ok", "error", "lost"}
        /\ AnswerOf(new) = "ok" => Whole(Current)
        /\ AnswerOf(new) = "error" => ~Whole(Current)
      BY <2>2 DEF AnswerOf, Verdict
  <2>6. /\ RequestOf(Current) # "none" /\ AnswerOf(Current) = "none"
        /\ RequestOf(Current) = "completed" <=> Whole(Current)
      BY <1>1, RequestsSeen DEF AnswerOf
  <2>7. \A j \in Slots : conns'[j] = IF j = h THEN new ELSE conns[j]
      BY <1>1, <2>1
  <2>8. answer' = [answer EXCEPT ![h] = AnswerOf(new)] /\ UNCHANGED request
      BY <1>1, <2>4, <2>7, Views
  <2>9. Service!Answer(h)
      BY <1>1, <2>5, <2>6, <2>8, Views DEF Service!Answer
  <2> QED BY <1>1, <2>9 DEF Service!Next
<1> QED BY <1>2, <1>3

\* Steps that the clients of the service cannot see.
LEMMA Unseen ==
  ASSUME IInv,
         \/ UNCHANGED conns
         \/ Accept
         \/ \E k \in Slots : WriteRequest(k) \/ Leave(k)
  PROVE  UNCHANGED <<request, answer>>
<1>1. conns \in [Slots -> Connection]
    BY DEF IInv, HelperShape
<1>2. CASE UNCHANGED conns
    BY <1>2, SameViews
<1>3. CASE Accept
  <2> DEFINE h == Head(queue)
  <2>1. /\ queue \in Seq(Slots) /\ queue # <<>>
        /\ conns' = [conns EXCEPT ![h].stage = "served"]
      BY <1>3 DEF Accept, IInv, HelperShape
  <2>2. h = queue[1] /\ h \in Slots /\ 1 \in 1..Len(queue)
      BY <2>1
  <2>3. conns[h].stage = "queued"
      BY <2>2 DEF IInv, QueueInv
  <2> HIDE DEF h
  <2>4. ASSUME NEW k \in Slots
        PROVE  /\ RequestOf(conns'[k]) = RequestOf(conns[k])
               /\ AnswerOf(conns'[k]) = AnswerOf(conns[k])
    <3>1. CASE k = h
      <4>1. /\ conns'[k].stage = "served" /\ conns'[k].verb = conns[k].verb
            /\ conns'[k].performed = conns[k].performed
          BY <1>1, <2>1, <3>1 DEF Connection
      <4> QED BY <2>3, <3>1, <4>1 DEF RequestOf, AnswerOf, Whole
    <3>2. CASE k # h
        BY <1>1, <2>1, <3>2
    <3> QED BY <3>1, <3>2
  <2> QED BY <2>4, SameViews
<1>4. ASSUME NEW j \in Slots, WriteRequest(j) \/ Leave(j)
      PROVE  UNCHANGED <<request, answer>>
  <2>1. \/ conns' = [conns EXCEPT ![j].sent = TRUE]
        \/ conns' = [conns EXCEPT ![j].gone = TRUE]
      BY <1>4 DEF WriteRequest, Leave
  <2>2. conns[j].stage # "closed"
      BY <1>4 DEF WriteRequest, Leave
  <2>3. ASSUME NEW k \in Slots
        PROVE  /\ RequestOf(conns'[k]) = RequestOf(conns[k])
               /\ AnswerOf(conns'[k]) = AnswerOf(conns[k])
    <3>1. CASE k = j
      <4>1. /\ conns'[k].stage = conns[k].stage /\ conns'[k].verb = conns[k].verb
            /\ conns'[k].performed = conns[k].performed
          BY <1>1, <2>1, <3>1 DEF Connection
      <4> QED BY <2>2, <3>1, <4>1 DEF RequestOf, AnswerOf, Whole
    <3>2. CASE k # j
        BY <1>1, <2>1, <3>2
    <3> QED BY <3>1, <3>2
  <2> QED BY <2>3, SameViews
<1> QED BY <1>2, <1>3, <1>4

\* A machine that goes down forgets its requests.
LEMMA PowerRefines == PowerCycle => Service!Next
<1> SUFFICES ASSUME PowerCycle PROVE Service!Next
    OBVIOUS
<1>1. RequestOf(NoConn) = "none" /\ AnswerOf(NoConn) = "none"
    BY NewHelper DEF RequestOf, AnswerOf
<1>2. \A k \in Slots : conns'[k] = NoConn
    BY DEF PowerCycle
<1>3. Service!Forget(Slots)
    BY <1>1, <1>2, Views DEF Service!Forget
<1> QED BY <1>3 DEF Service!Next

LEMMA ServeRefines ==
  ASSUME IInv, Serve
  PROVE  Service!Next \/ UNCHANGED <<request, answer>>
<1>1. CASE Activate \/ IdleExit \/ Accept \/ ReadHeader
    BY <1>1, Unseen DEF Activate, IdleExit, ReadHeader
<1>2. CASE HeaderTimeout
  <2>1. Serving
      BY <1>2 DEF HeaderTimeout, Serving
  <2> QED BY <1>2, <2>1, ClosingRefines DEF HeaderTimeout
<1>3. CASE WriteEnd
  <2>1. Serving
      BY <1>3 DEF WriteEnd, Serving
  <2> QED BY <1>3, <2>1, TrueEnd, ClosingRefines
<1>4. CASE Steps
  <2>1. /\ helper.pc = "run"
        /\ \/ Failed
           \/ Done(helper.copy) \/ Done(cert.gen) \/ Done(0)
      BY <1>4 DEF Steps, Plain, CheckMode, WriteConf, AddRules, RestartLND, VerifySAN,
                 CopyCert, StageCert, Publish, InstallBinary, Doing
  <2>2. CASE Failed
      BY <2>2, Unseen DEF Failed
  <2>3. CASE Done(helper.copy)
    <3>1. helper.copy \in Nat
        BY DEF IInv, HelperShape, Process
    <3> QED BY <2>1, <2>3, <3>1, PerformingRefines
  <2>4. CASE Done(cert.gen)
    <3>1. cert.gen \in Nat
        BY DEF IInv, NodeShape
    <3> QED BY <2>1, <2>4, <3>1, PerformingRefines
  <2>5. CASE Done(0)
      BY <2>1, <2>5, PerformingRefines
  <2> QED BY <2>1, <2>2, <2>3, <2>4, <2>5
<1>5. CASE Reboot
    BY <1>5, PowerRefines, Unseen DEF Reboot
<1> QED BY <1>1, <1>2, <1>3, <1>4, <1>5 DEF Serve

LEMMA EveryStepRefines ==
  IInv /\ [Next]_vars => Service!Next \/ UNCHANGED <<request, answer>>
<1> SUFFICES ASSUME IInv, [Next]_vars
             PROVE  Service!Next \/ UNCHANGED <<request, answer>>
    OBVIOUS
<1>1. conns \in [Slots -> Connection] /\ client.slot \in Slots \cup {NoSlot}
    BY DEF IInv, HelperShape, NodeShape
<1>2. ASSUME NEW k \in Slots, NEW verb \in Verbs, Ask(k, verb) PROVE Service!Next
    BY <1>2, AskingRefines DEF Ask, AllVerbs
<1>3. ASSUME NEW k \in Slots, Read(k) PROVE Service!Next
    BY <1>1, <1>3, Forgotten DEF Read, Restore
<1>4. CASE \E k \in Slots : WriteRequest(k) \/ Leave(k)
    BY <1>4, Unseen
<1>5. CASE Repaired
    BY <1>1, <1>5, Forgotten DEF Repaired, Restore
<1>6. CASE Reconnect
  <2>1. CASE UNCHANGED conns
      BY <2>1, Unseen
  <2>2. CASE \E k \in Slots : Connect(k, "credentials", TRUE)
      BY <2>2, AskingRefines DEF AllVerbs
  <2> QED BY <1>6, <2>1, <2>2 DEF Reconnect
<1>7. CASE HelperKilled
  <2>1. CASE helper.conn = NoSlot
      BY <1>7, <2>1, Unseen DEF HelperKilled
  <2>2. CASE helper.conn # NoSlot
    <3>1. Serving
        BY <2>2 DEF IInv, HelperShape, Process, Turn
    <3> QED BY <1>7, <2>2, <3>1, ClosingRefines DEF HelperKilled
  <2> QED BY <2>1, <2>2
<1>8. CASE PowerLoss
    BY <1>8, PowerRefines DEF PowerLoss
<1>9. CASE Surroundings \/ IntervalPasses \/ LNDCrashes
    BY <1>9, Unseen DEF Surroundings, LNDRestarts, WatchCopies, WatchStages,
                       IntervalPasses, LNDCrashes
<1>10. CASE DeadlinePasses \/ StepFails \/ RestartFails
    BY <1>10, Unseen DEF DeadlinePasses, StepFails, RestartFails, Failed
<1>11. CASE UNCHANGED vars
    BY <1>11, Unseen DEF vars
<1>12. CASE Serve
    BY <1>12, ServeRefines
<1> QED BY <1>2, <1>3, <1>4, <1>5, <1>6, <1>7, <1>8, <1>9, <1>10, <1>11, <1>12
        DEF Next, Connecting

\* The helper performs operations one at a time and each request at most once, and
\* what a client reads as "ok" or "error" is the truth about its operation, however
\* many clients ask, leave or are too slow and whatever fails or is killed.
THEOREM HelperKeepsItsPromises == Spec => KeepsItsPromises
<1>1. Init => Service!Init
  <2> SUFFICES ASSUME Init PROVE Service!Init
      OBVIOUS
  <2>1. RequestOf(NoConn) = "none" /\ AnswerOf(NoConn) = "none"
      BY NewHelper DEF RequestOf, AnswerOf
  <2>2. \A k \in Slots : conns[k] = NoConn
      BY DEF Init
  <2> QED BY <2>1, <2>2, Views DEF Service!Init
<1>2. IInv /\ [Next]_vars => [Service!Next]_(Service!vars)
    BY EveryStepRefines DEF Service!vars
<1> QED BY <1>1, <1>2, HelperInvariant, PTL DEF Spec, KeepsItsPromises, Service!Spec

===============================================================================
