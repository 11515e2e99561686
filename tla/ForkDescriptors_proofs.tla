----------------------- MODULE ForkDescriptors_proofs -----------------------
(***************************************************************************)
(* Proofs about ForkDescriptors, for any number of concurrent handlers.    *)
(*                                                                         *)
(* The argument: a fork copies fds[0] of another handler only while that   *)
(* handler is between Socketpair and CloseOnExec (Unmarked), hence before  *)
(* that handler forks; the copy's holder is older than the child on the    *)
(* other end, and "older than" has no circles.                             *)
(***************************************************************************)
EXTENDS ForkDescriptors, TLAPS

\* Where a handler is tells whether its child was started.
Stages ==
    \A f \in Handlers :
        /\ pc[f] \in {"start", "paired", "marked", "noChild"} => child[f] = "unborn"
        /\ pc[f] \in {"forked", "parted", "connected"} => child[f] # "unborn"

BornInOrder == \A f \in Handlers : child[f] # "unborn" => born[f] < forked

OnlyTheBornHold == \A f \in Handlers : holds[f] # {} => child[f] # "unborn"

Unmarked ==
    \A f \in Forks :
        Fds0(f) \in holds[Parent] => pc[f] = "paired" \/ Fds0(f) \in cloexec

\* What the parent holds at each step of a handler.
ParentHolds ==
    \A f \in Forks :
        /\ Fds0(f) \in holds[Parent] <=> pc[f] \notin {"start", "returned"}
        /\ Fds1(f) \in holds[Parent] =>
              pc[f] \in {"paired", "marked", "forked", "noChild"}

Inv == /\ TypeOK
       /\ Stages
       /\ BornInOrder
       /\ OnlyTheBornHold
       /\ Unmarked
       /\ ParentHolds
       /\ InheritsOnlyFromLater

-----------------------------------------------------------------------------
\* The two ends of a pair are different, and so are those of different pairs.
LEMMA EndsDiffer ==
    ASSUME NEW f, NEW g
    PROVE  Fds0(f) # Fds1(g) /\ (Fds0(f) = Fds0(g) <=> f = g)
                             /\ (Fds1(f) = Fds1(g) <=> f = g)
  BY DEF Fds0, Fds1

\* Every descriptor is one of a handler's pair, and only a parent's end is marked.
THEOREM TypeCorrect == Spec => []TypeOK
  <1>1. Init => TypeOK
    BY DEF Init, TypeOK
  <1>2. TypeOK /\ [Next]_vars => TypeOK'
    <2> SUFFICES ASSUME TypeOK, [Next]_vars
                 PROVE  TypeOK'
      OBVIOUS
    <2> USE DEF TypeOK, Goto, Drop
    <2>1. \A f \in Forks : Fds0(f) \in ParentEnds /\ Fds0(f) \in Ends /\ Fds1(f) \in Ends
      BY DEF Fds0, Fds1, ParentEnds, ChildEnds, Ends
    <2>2. Parent \in Processes /\ Handlers \subseteq Processes /\ Forks \subseteq Handlers
      BY DEF Processes, Handlers
    <2>3. CASE UNCHANGED vars
      BY <2>3 DEF vars
    <2>4. ASSUME NEW f \in Handlers, NEW ends \in SUBSET Ends, Begets(f, ends),
                 NEW from, NEW to \in {"forked", "returned"}, Goto(f, from, to)
          PROVE  TypeOK'
      <3>1. pc' \in [Handlers -> {"start", "paired", "marked", "forked", "noChild",
                                  "parted", "connected", "returned"}]
        BY <2>4
      <3>2. ends \cup (holds[Parent] \ cloexec) \in SUBSET Ends
        BY <2>2
      <3>3. holds' \in [Processes -> SUBSET Ends]
        BY <2>2, <2>4, <3>2 DEF Begets
      <3>4. /\ child' \in [Handlers -> {"unborn", "serving", "dead"}]
            /\ born' \in [Handlers -> Nat] /\ forked' \in Nat
            /\ cloexec' \in SUBSET ParentEnds /\ doomed' \in SUBSET Forks
        BY <2>4 DEF Begets
      <3> QED BY <3>1, <3>3, <3>4
    <2>5. ASSUME NEW f \in Forks, Handler(f), f \notin Spawns PROVE TypeOK'
      <3>1. CASE Socketpair(f) \/ SocketpairFails(f) \/ CloseOnExec(f)
        BY <2>1, <2>2, <3>1 DEF Socketpair, SocketpairFails, CloseOnExec, Called
      <3>2. CASE ForkExec(f)
        <4>1. f \in Handlers /\ {Fds1(f)} \in SUBSET Ends
          BY <2>1, <2>2
        <4>2. Begets(f, {Fds1(f)}) /\ Goto(f, "marked", "forked")
          BY <3>2 DEF ForkExec
        <4> QED BY <2>4, <4>1, <4>2
      <3>3. CASE ForkExecFails(f) \/ CloseChildEnd(f)
        BY <2>1, <2>2, <3>3 DEF ForkExecFails, CloseChildEnd
      <3>4. CASE Connect(f) \/ ConnectFails(f)
        BY <2>1, <2>2, <3>4 DEF Connect, ConnectFails
      <3> QED BY <2>5, <3>1, <3>2, <3>3, <3>4 DEF Handler
    <2>6. ASSUME NEW f \in Spawns, Spawn(f) \/ SpawnFails(f)
          PROVE  TypeOK'
      <3>1. f \in Handlers
        BY DEF Handlers
      <3>2. CASE Spawn(f)
        <4>1. Begets(f, {}) /\ Goto(f, "start", "returned")
          BY <3>2 DEF Spawn, Called
        <4> QED BY <2>4, <3>1, <4>1
      <3>3. CASE SpawnFails(f)
        BY <3>1, <3>3 DEF SpawnFails, Called
      <3> QED BY <2>6, <3>2, <3>3
    <2>7. ASSUME NEW f \in Handlers, CloseConn(f) \/ StopCloses(f) \/ ChildExit(f) \/ ChildDies(f)
          PROVE  TypeOK'
      BY <2>2, <2>7 DEF CloseConn, StopCloses, Disconnect, ChildExit, ChildDies, EndOfChild
    <2> QED BY <2>3, <2>5, <2>6, <2>7, KindsAssumption DEF Next, Handler
  <1> QED BY <1>1, <1>2, PTL DEF Spec

\* A fork: the copies it makes are of ends whose handler has not forked yet, and every
\* copy of an end of its own is with a child that was born before.
LEMMA BirthKeepsInv ==
    ASSUME Inv, TypeOK', NEW f \in Handlers, NEW ends \in SUBSET {Fds1(f)}, Begets(f, ends),
           \/ f \in Forks /\ Goto(f, "marked", "forked")
           \/ f \in Spawns /\ Goto(f, "start", "returned")
    PROVE  Inv'
  <1> USE ParentAssumption, KindsAssumption, EndsDiffer DEF Inv, TypeOK, Processes
  <1>1. /\ pc[f] \in {"marked", "start"} /\ child[f] = "unborn"
        /\ \A g \in Handlers : g # f => pc'[g] = pc[g]
        /\ holds' = [holds EXCEPT ![f] = ends \cup (holds[Parent] \ cloexec)]
        /\ child' = [child EXCEPT ![f] = "serving"]
        /\ born' = [born EXCEPT ![f] = forked]
        /\ forked' = forked + 1
        /\ cloexec' = cloexec
    BY DEF Begets, Goto, Stages
  <1>2. f \in Forks => pc[f] = "marked" /\ pc'[f] = "forked"
    BY DEF Goto
  <1>3. f \notin Forks => pc'[f] = "returned"
    BY DEF Goto
  <1>4. Forks \subseteq Handlers /\ Parent \in Processes /\ Handlers \subseteq Processes
    BY DEF Handlers
  <1>5. ASSUME NEW g \in Forks, Fds0(g) \in holds'[f]
        PROVE  child'[g] = "unborn"
    <2>1. Fds0(g) \in holds[Parent] \ cloexec
      BY <1>1, <1>4, <1>5
    <2>2. pc[g] = "paired"
      BY <2>1 DEF Unmarked
    <2> QED BY <1>1, <1>4, <2>2 DEF Stages
  <1>6. ASSUME NEW g \in Handlers, f \in Forks, Fds0(f) \in holds'[g]
        PROVE  g # f /\ born'[g] < born'[f]
    <2>1. g # f
      BY <1>1, <1>5, <1>6
    <2>2. Fds0(f) \in holds[g]
      BY <1>1, <1>4, <1>6, <2>1
    <2> QED BY <1>1, <2>1, <2>2 DEF OnlyTheBornHold, BornInOrder
  <1>7. InheritsOnlyFromLater'
    <2> SUFFICES ASSUME NEW g \in Forks, NEW h \in Handlers, Fds0(g) \in holds'[h]
                 PROVE  child'[g] = "unborn" \/ born'[h] < born'[g]
      BY DEF InheritsOnlyFromLater
    <2>1. CASE h = f
      BY <1>5, <2>1
    <2>2. CASE g = f
      BY <1>6, <2>2
    <2>3. CASE h # f /\ g # f
      BY <1>1, <1>4, <2>3 DEF InheritsOnlyFromLater
    <2> QED BY <2>1, <2>2, <2>3
  <1>8. Stages'
    BY <1>1, <1>2, <1>3 DEF Stages
  <1>9. BornInOrder' /\ OnlyTheBornHold'
    BY <1>1, <1>4 DEF BornInOrder, OnlyTheBornHold
  <1>10. Unmarked' /\ ParentHolds'
    BY <1>1, <1>2, <1>4 DEF Unmarked, ParentHolds
  <1> QED BY <1>7, <1>8, <1>9, <1>10

\* The other steps of a handler move its own ends only.
LEMMA HandlerKeepsInv ==
    ASSUME Inv, TypeOK', NEW f \in Forks, f \notin Spawns, Handler(f) \/ CloseConn(f) \/ StopCloses(f)
    PROVE  Inv'
  <1> USE ParentAssumption, EndsDiffer DEF Inv, TypeOK, Processes, Handlers, Goto, Called, Drop
  <1>1. CASE ForkExec(f)
    BY <1>1, BirthKeepsInv DEF ForkExec
  <1>2. CASE Socketpair(f)
    <2>1. Stages' /\ BornInOrder' /\ OnlyTheBornHold' /\ InheritsOnlyFromLater'
      BY <1>2 DEF Socketpair, Stages, BornInOrder, OnlyTheBornHold, InheritsOnlyFromLater
    <2>2. Unmarked' /\ ParentHolds'
      BY <1>2 DEF Socketpair, Unmarked, ParentHolds
    <2> QED BY <2>1, <2>2
  <1>3. CASE SocketpairFails(f) \/ CloseOnExec(f) \/ ForkExecFails(f) \/ Connect(f)
    <2>1. Stages' /\ BornInOrder' /\ OnlyTheBornHold' /\ InheritsOnlyFromLater'
      BY <1>3 DEF SocketpairFails, CloseOnExec, ForkExecFails, Connect,
                  Stages, BornInOrder, OnlyTheBornHold, InheritsOnlyFromLater
    <2>2. Unmarked' /\ ParentHolds'
      BY <1>3 DEF SocketpairFails, CloseOnExec, ForkExecFails, Connect,
                  Unmarked, ParentHolds
    <2> QED BY <2>1, <2>2
  <1>4. CASE CloseChildEnd(f) \/ CloseConn(f) \/ StopCloses(f) \/ ConnectFails(f)
    <2>1. Stages' /\ BornInOrder' /\ OnlyTheBornHold' /\ InheritsOnlyFromLater'
      BY <1>4 DEF CloseChildEnd, CloseConn, StopCloses, Disconnect, ConnectFails,
                  Stages, BornInOrder, OnlyTheBornHold, InheritsOnlyFromLater
    <2>2. Unmarked' /\ ParentHolds'
      BY <1>4 DEF CloseChildEnd, CloseConn, StopCloses, Disconnect, ConnectFails, Unmarked, ParentHolds
    <2> QED BY <2>1, <2>2
  <1> QED BY <1>1, <1>2, <1>3, <1>4 DEF Handler

\* Spawn has a child that takes copies, and no pair of its own.
LEMMA SpawnKeepsInv ==
    ASSUME Inv, TypeOK', NEW f \in Spawns, Spawn(f) \/ SpawnFails(f)
    PROVE  Inv'
  <1> USE ParentAssumption, KindsAssumption, EndsDiffer DEF Inv, TypeOK, Processes, Handlers, Goto, Called
  <1>1. CASE Spawn(f)
    BY <1>1, BirthKeepsInv DEF Spawn
  <1>2. CASE SpawnFails(f)
    <2>1. Stages' /\ BornInOrder' /\ OnlyTheBornHold' /\ InheritsOnlyFromLater'
      BY <1>2 DEF SpawnFails, Stages, BornInOrder, OnlyTheBornHold, InheritsOnlyFromLater
    <2>2. Unmarked' /\ ParentHolds'
      BY <1>2 DEF SpawnFails, Unmarked, ParentHolds
    <2> QED BY <2>1, <2>2
  <1> QED BY <1>1, <1>2

\* A child that ends takes its copies with it.
LEMMA EndKeepsInv ==
    ASSUME Inv, TypeOK', NEW f \in Handlers, EndOfChild(f)
    PROVE  Inv'
  <1> USE ParentAssumption, EndsDiffer DEF Inv, TypeOK, Processes, Handlers
  <1>1. Stages' /\ BornInOrder' /\ OnlyTheBornHold' /\ InheritsOnlyFromLater'
    BY DEF EndOfChild, Stages, BornInOrder, OnlyTheBornHold, InheritsOnlyFromLater
  <1>2. Unmarked' /\ ParentHolds'
    BY DEF EndOfChild, Unmarked, ParentHolds
  <1> QED BY <1>1, <1>2

\* The invariant holds in every state of every behaviour.
LEMMA Invariance == Spec => []Inv
  <1>1. Init => Inv
    BY DEF Init, Inv, TypeOK, Stages, BornInOrder, OnlyTheBornHold, Unmarked, ParentHolds,
           InheritsOnlyFromLater, Processes, Handlers
  <1>2. Inv /\ TypeOK' /\ [Next]_vars => Inv'
    <2> SUFFICES ASSUME Inv, TypeOK', [Next]_vars
                 PROVE  Inv'
      OBVIOUS
    <2>1. CASE UNCHANGED vars
      BY <2>1 DEF vars, Inv, TypeOK, Stages, BornInOrder, OnlyTheBornHold, Unmarked,
                  ParentHolds, InheritsOnlyFromLater
    <2>2. CASE Next
      <3>1. PICK f \in Handlers :
                \/ Handler(f) \/ CloseConn(f) \/ StopCloses(f) \/ ChildExit(f) \/ ChildDies(f)
        BY <2>2 DEF Next
      <3>2. CASE ChildExit(f) \/ ChildDies(f)
        BY <3>2, EndKeepsInv DEF ChildExit, ChildDies
      <3>3. CASE f \in Spawns /\ Handler(f)
        BY <3>3, SpawnKeepsInv, KindsAssumption DEF Handler
      <3>4. CASE f \in Forks /\ (Handler(f) \/ CloseConn(f) \/ StopCloses(f))
        BY <3>4, HandlerKeepsInv, KindsAssumption
      <3> QED BY <3>1, <3>2, <3>3, <3>4 DEF Handler, CloseConn, StopCloses, Forks
    <2> QED BY <2>1, <2>2
  <1> QED BY <1>1, <1>2, TypeCorrect, PTL DEF Spec

\* A child holds the parent's end of another child's pair only if it is the older.
THEOREM NoCircleOfChildren == Spec => []InheritsOnlyFromLater
  <1>1. Inv => InheritsOnlyFromLater
    BY DEF Inv
  <1> QED BY <1>1, Invariance, PTL

\* No path out of a fork handler leaves the parent a descriptor of the pair.
THEOREM NoDescriptorLeak == Spec => []ParentLeaksNothing
  <1>1. Inv => ParentLeaksNothing
    BY DEF Inv, ParentHolds, ParentLeaksNothing
  <1> QED BY <1>1, Invariance, PTL
=============================================================================
