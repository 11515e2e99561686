--------------------------- MODULE Pipeline_proofs --------------------------
(***************************************************************************)
(* Proofs about Pipeline, for a chain of any depth, any number of values   *)
(* and any capacities.                                                     *)
(*                                                                         *)
(* The argument: count the items that have left each level, downwards in d *)
(* and upwards in u.  Each queue holds the items between two neighbouring  *)
(* counts, in order and raised by the levels they have passed (Flows), so  *)
(* the item a queue gives away is always the next one its taker expects.   *)
(* The counts are a witness the invariant asks for; no step computes them. *)
(***************************************************************************)
EXTENDS Pipeline, TLAPS

\* The queue holds the items a + 1, ..., b, in this order, each raised by c.
Carries(q, a, b, c) == /\ b = a + Len(q)
                       /\ \A i \in 1..Len(q) : q[i] = a + i + c

\* d[k] items have left stream k downwards, d[0] of them the root; u[k - 1] items have
\* left stream k upwards.
Flows(d, u) ==
    /\ d[0] = next /\ u[0] = Len(printed \o results) /\ u[Depth] = d[Depth]
    /\ \A k \in Levels : /\ Carries(down[k], d[k], d[k - 1], k - 1)
                         /\ Carries(up[k], u[k - 1], u[k], Depth)

InFlight == \E d, u \in [0..Depth -> 0..next] : Flows(d, u)

\* A level that has its config knows how many levels are below it.
Configured ==
    \A k \in Levels :
      /\ config[k] \in {Depth - k, None}
      /\ pc[k] \notin {"idle", "config", "early"} => depth[k] = Depth - k
      /\ pc[k] = "leaf" => k = Depth
      /\ pc[k] \in {"fork", "open", "relay", "drain", "reap"} => k < Depth

\* What a level's handler says of the process below it.
ChildState ==
    \A k \in Levels :
      /\ alive[k] = "exited" => pc[k] = "returned"
      /\ k < Depth =>
           /\ pc[k] \in {"idle", "config", "early", "fork"} => alive[k + 1] = "unborn"
           /\ pc[k] = "returned" => alive[k + 1] \in {"unborn", "exited"}

Inv == TypeOK /\ InFlight /\ Configured /\ ChildState

\* Appending to a queue.
LEMMA Enqueue ==
    ASSUME NEW S, NEW q \in Seq(S), NEW v \in S
    PROVE  /\ Append(q, v) \in Seq(S) /\ Len(Append(q, v)) = Len(q) + 1
           /\ \A i \in 1..Len(q) : Append(q, v)[i] = q[i]
           /\ Append(q, v)[Len(q) + 1] = v
  OBVIOUS

\* Taking the head off a queue.
LEMMA Dequeue ==
    ASSUME NEW S, NEW q \in Seq(S), q # <<>>
    PROVE  /\ Head(q) \in S /\ Head(q) = q[1]
           /\ Tail(q) \in Seq(S) /\ Len(q) \in Nat \ {0} /\ Len(Tail(q)) = Len(q) - 1
           /\ \A i \in 1..(Len(q) - 1) : Tail(q)[i] = q[i + 1]
  OBVIOUS

\* The next item arrives at the end of a queue.
LEMMA CarriesMore ==
    ASSUME NEW q \in Seq(Values), NEW a \in Nat, NEW b \in Nat, NEW c \in Nat,
           Carries(q, a, b, c), b + 1 + c \in Values
    PROVE  Carries(Append(q, b + 1 + c), a, b + 1, c)
  BY Enqueue DEF Carries

\* The first item leaves a queue.
LEMMA CarriesLess ==
    ASSUME NEW q \in Seq(Values), NEW a \in Nat, NEW b \in Nat, NEW c \in Nat,
           Carries(q, a, b, c), q # <<>>
    PROVE  a < b /\ Head(q) = a + 1 + c /\ Carries(Tail(q), a + 1, b, c)
  BY Dequeue DEF Carries

\* What moves from the head of one sequence to the end of the one before it.
LEMMA MoveOne ==
    ASSUME NEW S, NEW p \in Seq(S), NEW r \in Seq(S), r # <<>>
    PROVE  Append(p, Head(r)) \o Tail(r) = p \o r
  OBVIOUS

\* What is appended to the second of two sequences is appended to both.
LEMMA AppendEnd ==
    ASSUME NEW S, NEW p \in Seq(S), NEW r \in Seq(S), NEW v \in S
    PROVE  p \o Append(r, v) = Append(p \o r, v) /\ Len(p \o r) \in Nat /\ p \o r \in Seq(S)
  OBVIOUS

\* A level's queue grows and shrinks within its bound.
Bounded(q) == q \in [Levels -> Seq(Values)] /\ \A j \in Levels : Len(q[j]) <= FlowCap

\* A level's queue takes one more value.
LEMMA PutOn ==
    ASSUME NEW q, Bounded(q), NEW k \in Levels, NEW v \in Values, Len(q[k]) < FlowCap
    PROVE  Bounded([q EXCEPT ![k] = Append(@, v)])
  BY Enqueue, SizesAssumption DEF Bounded

\* A level's queue gives its first value away.
LEMMA TakeOff ==
    ASSUME NEW q, Bounded(q), NEW k \in Levels, q[k] # <<>>
    PROVE  Bounded([q EXCEPT ![k] = Tail(@)])
  BY Dequeue, SizesAssumption DEF Bounded

\* One level passes a value on to another.
LEMMA PassedOn ==
    ASSUME NEW q, Bounded(q), NEW i \in Levels, NEW j \in Levels, i # j, q[i] # <<>>,
           NEW v \in Values, Len(q[j]) < FlowCap
    PROVE  /\ Bounded([q EXCEPT ![i] = Tail(@), ![j] = Append(@, v)])
           /\ Bounded([q EXCEPT ![j] = Append(@, v), ![i] = Tail(@)])
  <1>1. Tail(q[i]) \in Seq(Values) /\ Len(Tail(q[i])) <= FlowCap
    BY Dequeue, SizesAssumption DEF Bounded
  <1>2. Append(q[j], v) \in Seq(Values) /\ Len(Append(q[j], v)) <= FlowCap
    BY Enqueue, SizesAssumption DEF Bounded
  <1> DEFINE t == Tail(q[i])  a == Append(q[j], v)
  <1> HIDE DEF t, a
  <1>3. Bounded([q EXCEPT ![i] = t, ![j] = a]) /\ Bounded([q EXCEPT ![j] = a, ![i] = t])
    BY <1>1, <1>2 DEF Bounded, t, a
  <1> QED
    BY <1>3 DEF t, a

\* The two parts of TypeOK: what controls the flow, and what flows.
ControlOK ==
    /\ method \in Methods
    /\ root \in {"fork", "open", "send", "print", "errc", "reap", "done", "dead"}
    /\ resultsOpen \in BOOLEAN
    /\ rootErrc \in {"empty", "nil", "error"}
    /\ alive \in [Levels -> {"unborn", "serving", "exited"}]
    /\ pc \in [Levels -> {"idle", "config", "early", "fork", "open", "relay", "drain",
                          "reap", "leaf", "returned"}]
    /\ depth \in [Levels -> 0..Depth]
    /\ perr \in [Levels -> {"nil", "error"}]
    /\ errc \in [Levels -> {"off", "empty", "nil", "error"}]
    /\ config \in [Levels -> 0..None]
    /\ sendClosed \in [Levels -> BOOLEAN] /\ cut \in [Levels -> BOOLEAN]
    /\ rpc \in [Levels -> {"none", "open", "nil", "error"}]

QueuesOK ==
    /\ next \in 0..NumValues
    /\ results \in Seq(Values) /\ Len(results) <= ResultsCap
    /\ printed \in Seq(Values)
    /\ Bounded(down) /\ Bounded(up)

\* The two parts make up TypeOK.
LEMMA TypeParts == TypeOK <=> ControlOK /\ QueuesOK
  BY DEF TypeOK, ControlOK, QueuesOK, Bounded

\* What Increment makes of a value under way is a value.
LEMMA Heads ==
    ASSUME TypeOK, InFlight, NEW k \in Levels
    PROVE  /\ next < NumValues => next + 1 \in Values
           /\ down[k] # <<>> => Increment(Head(down[k])) \in Values
           /\ up[k] # <<>> => Head(up[k]) \in Values
  <1> USE SizesAssumption
  <1>1. PICK d, u \in [0..Depth -> 0..next] : Flows(d, u)
    BY DEF InFlight
  <1>2. /\ k \in 0..Depth /\ k - 1 \in 0..Depth /\ next \in Nat /\ next <= NumValues
        /\ NumValues \in Nat /\ Depth \in Nat
    BY DEF Levels, TypeOK
  <1>3. d[k] \in Nat /\ d[k - 1] \in Nat /\ d[k - 1] <= next
    BY <1>1, <1>2
  <1>4. down[k] \in Seq(Values) /\ up[k] \in Seq(Values) /\ Carries(down[k], d[k], d[k - 1], k - 1)
    BY <1>1, <1>2 DEF Flows, TypeOK
  <1>5. ASSUME down[k] # <<>>
        PROVE  Increment(Head(down[k])) \in Values
    <2>1. k - 1 \in Nat /\ d[k] \in Nat /\ d[k - 1] \in Nat
      BY <1>3 DEF Levels
    <2>2. d[k] < d[k - 1] /\ Head(down[k]) = d[k] + 1 + (k - 1)
      <3> DEFINE q == down[k]  a == d[k]  b == d[k - 1]  c == k - 1
      <3>1. q \in Seq(Values) /\ q # <<>> /\ a \in Nat /\ b \in Nat /\ c \in Nat
            /\ Carries(q, a, b, c)
        BY <1>4, <1>5, <2>1
      <3> HIDE DEF q, a, b, c
      <3>2. a < b /\ Head(q) = a + 1 + c
        BY <3>1, CarriesLess
      <3> QED
        BY <3>2 DEF q, a, b, c
    <2>3. d[k] + 1 + (k - 1) + 1 \in Values
      BY SMTT(30), <1>2, <1>3, <2>1, <2>2 DEF Values, Levels
    <2> QED
      BY <2>2, <2>3 DEF Increment
  <1>7. up[k] # <<>> => Head(up[k]) \in Values
    BY <1>4, Dequeue
  <1> QED
    BY <1>2, <1>5, <1>7 DEF Values

\* The invariant holds at the start: nothing is under way.
LEMMA Start == Init => Inv
  <1> SUFFICES ASSUME Init PROVE Inv
    OBVIOUS
  <1> USE SizesAssumption DEF Init
  <1>1. TypeOK
    BY DEF TypeOK, None, Levels
  <1>2. InFlight
    <2> DEFINE z == [i \in 0..Depth |-> 0]
    <2>1. z \in [0..Depth -> 0..next]
      OBVIOUS
    <2>2. Flows(z, z)
      BY DEF Flows, Carries, Levels
    <2> QED
      BY <2>1, <2>2 DEF InFlight
  <1>3. Configured /\ ChildState
    BY DEF Configured, ChildState, None, Levels
  <1> QED
    BY <1>1, <1>2, <1>3 DEF Inv

\* No step leaves the program's control.
LEMMA Control == ControlOK /\ Configured /\ [Next]_vars => ControlOK'
  <1> SUFFICES ASSUME ControlOK, Configured, [Next]_vars
               PROVE  ControlOK'
    OBVIOUS
  <1> USE SizesAssumption DEF ControlOK, Goto
  <1>1. CASE UNCHANGED vars
    BY <1>1 DEF vars
  <1>2. CASE RootMain \/ RootReceiver \/ RootKilled
    <2> USE DEF levelVars, streamVars
    <2>1. 1 \in Levels /\ Depth - 1 \in 0..None
      BY DEF Levels, None
    <2>2. CASE RootForks \/ RootOpens
      BY <2>1, <2>2 DEF RootForks, RootOpens, Open
    <2>3. CASE RootSends \/ RootCloses \/ RootPrints \/ RootPrinted
      BY <2>3 DEF RootSends, RootCloses, RootPrints, RootPrinted
    <2>4. CASE RootEnds \/ RootReaps
      BY <2>4 DEF RootEnds, RootReaps
    <2>5. CASE RootFails \/ RootDies
      <3>1. root' = "dead" /\ UNCHANGED <<method, resultsOpen, rootErrc, levelVars, config, rpc>>
            /\ UNCHANGED <<sendClosed>> /\ cut' = [cut EXCEPT ![1] = TRUE]
        BY <2>5 DEF RootFails, RootDies
      <3> QED
        BY <3>1
    <2>6. CASE RootReceives \/ RootReceiverEnds
      BY <2>6 DEF RootReceives, RootReceiverEnds, Finished
    <2> QED
      BY <1>2, <2>2, <2>3, <2>4, <2>5, <2>6 DEF RootMain, RootReceiver, RootKilled
  <1>3. ASSUME NEW k \in Levels,
               StartHandler(k) \/ Handler(k) \/ ForkFails(k) \/ Relayer(k) \/ Spread(k)
               \/ Exits(k)
        PROVE  ControlOK'
    <2> USE DEF rootVars, levelVars, streamVars
    <2>0. k < Depth => k + 1 \in Levels
      BY DEF Levels
    <2>1. CASE StartHandler(k) \/ Exits(k) \/ ForkFails(k)
      <3>1. CASE StartHandler(k)
        BY <3>1 DEF StartHandler
      <3>2. CASE Exits(k)
        BY <3>2 DEF Exits
      <3>3. CASE ForkFails(k)
        BY <3>3 DEF ForkFails, Return
      <3> QED
        BY <2>1, <3>1, <3>2, <3>3
    <2>2. CASE Config(k)
      BY <2>2 DEF Config, None
    <2>3. CASE ConfigFails(k) \/ LeafEnds(k)
      <3>1. CASE ConfigFails(k)
        BY <3>1 DEF ConfigFails, Return
      <3>2. CASE LeafEnds(k)
        BY <3>2 DEF LeafEnds, Return
      <3> QED
        BY <2>3, <3>1, <3>2
    <2>4. CASE Leaf(k)
      BY <2>4 DEF Leaf
    <2>5. CASE k < Depth /\ ForkChild(k)
      BY <2>5, <2>0 DEF ForkChild
    <2>6. CASE k < Depth /\ OpenChild(k)
      <3>1. pc[k] = "open" /\ depth[k] = Depth - k
        BY <2>6 DEF OpenChild, Configured
      <3>2. depth[k] - 1 \in 0..None
        BY <3>1, <2>6 DEF None, Levels
      <3> QED
        BY <2>6, <2>0, <3>2 DEF OpenChild, Open
    <2>7. CASE k < Depth /\ OpenChildFails(k)
      BY <2>7, <2>0 DEF OpenChildFails, Cleanup
    <2>8. CASE k < Depth /\ (Relay(k) \/ RelayEnds(k))
      BY <2>8, <2>0 DEF Relay, RelayEnds
    <2>9. CASE k < Depth /\ RelayFails(k)
      BY <2>9, <2>0 DEF RelayFails, Cleanup
    <2>10. CASE k < Depth /\ Drain(k)
      BY <2>10, <2>0 DEF Drain, Cleanup
    <2>11. CASE k < Depth /\ Reap(k)
      BY <2>11, <2>0 DEF Reap, Return
    <2>12. CASE Relayer(k)
      <3>1. CASE RelayBack(k)
        BY <3>1 DEF RelayBack
      <3>2. CASE RelayBackEnds(k)
        <4>1. PICK e \in {"nil", "error"} : errc' = [errc EXCEPT ![k] = e]
          BY <3>2 DEF RelayBackEnds, Finished
        <4> QED
          BY <3>2, <4>1 DEF RelayBackEnds
      <3> QED
        BY <2>12, <3>1, <3>2 DEF Relayer
    <2>13. CASE Spread(k)
      BY <2>13, <2>0 DEF Spread, CancelSpreads
    <2> QED
      BY <1>3, <2>1, <2>2, <2>3, <2>4, <2>5, <2>6, <2>7, <2>8, <2>9, <2>10,
         <2>11, <2>12, <2>13 DEF Handler, Parent
  <1> QED
    BY <1>1, <1>2, <1>3 DEF Next

\* The levels know their depths, and only the last one is a leaf.
LEMMA Depths == ControlOK /\ Configured /\ [Next]_vars => Configured'
  <1> SUFFICES ASSUME ControlOK, Configured, [Next]_vars
               PROVE  Configured'
    OBVIOUS
  <1> USE SizesAssumption DEF ControlOK, Configured, Goto
  <1>0. 1 \in Levels /\ \A k \in Levels : k \in Nat /\ None # Depth - k
    BY DEF Levels, None
  <1>1. CASE UNCHANGED vars
    BY <1>1 DEF vars
  <1>2. CASE RootMain \/ RootReceiver \/ RootKilled
    <2>1. CASE RootOpens
      BY <1>0, <2>1 DEF RootOpens, Open, levelVars
    <2>2. CASE UNCHANGED <<config, pc, depth>>
      BY <2>2
    <2> QED
      BY <1>2, <2>1, <2>2 DEF RootMain, RootReceiver, RootKilled, RootForks, RootSends,
         RootCloses, RootPrints, RootPrinted, RootEnds, RootReaps, RootFails,
         RootDies, RootReceives, RootReceiverEnds, levelVars, streamVars
  <1>3. ASSUME NEW k \in Levels,
               StartHandler(k) \/ Handler(k) \/ ForkFails(k) \/ Relayer(k) \/ Spread(k)
               \/ Exits(k)
        PROVE  Configured'
    <2> USE DEF rootVars, levelVars, streamVars
    <2>0. k < Depth => k + 1 \in Levels
      BY DEF Levels
    <2>1. CASE StartHandler(k) \/ ForkFails(k)
      BY <2>1 DEF StartHandler, ForkFails, Return
    <2>2. CASE Config(k)
      BY <1>0, <2>2 DEF Config, None, Levels
    <2>3. CASE ConfigFails(k) \/ LeafEnds(k)
      BY <2>3 DEF ConfigFails, LeafEnds, Return
    <2>4. CASE k < Depth /\ ForkChild(k)
      BY <2>4 DEF ForkChild
    <2>5. CASE k < Depth /\ OpenChild(k)
      <3>1. depth[k] = Depth - k
        BY <2>5 DEF OpenChild
      <3>2. depth[k] - 1 = Depth - (k + 1)
        BY <1>0, <3>1
      <3> QED
        BY <2>5, <2>0, <3>2 DEF OpenChild, Open
    <2>6. CASE k < Depth /\ OpenChildFails(k)
      BY <2>6 DEF OpenChildFails, Cleanup
    <2>7. CASE k < Depth /\ (RelayEnds(k) \/ RelayFails(k))
      BY <2>7 DEF RelayEnds, RelayFails, Cleanup
    <2>8. CASE k < Depth /\ (Drain(k) \/ Reap(k))
      BY <2>8 DEF Drain, Cleanup, Reap, Return
    <2>9. CASE UNCHANGED <<config, pc, depth>>
      BY <2>9
    <2> QED
      BY <1>3, <2>1, <2>2, <2>3, <2>4, <2>5, <2>6, <2>7, <2>8, <2>9
         DEF Handler, Parent, Relay, Leaf, Relayer, RelayBack, RelayBackEnds, Spread,
             CancelSpreads, Exits
  <1> QED
    BY <1>1, <1>2, <1>3 DEF Next

\* A level waits for its child before it returns, and returns before it exits.
LEMMA Children == ControlOK /\ Configured /\ ChildState /\ [Next]_vars => ChildState'
  <1> SUFFICES ASSUME ControlOK, Configured, ChildState, [Next]_vars
               PROVE  ChildState'
    OBVIOUS
  <1> USE SizesAssumption DEF ControlOK, ChildState, Goto
  <1>0. 1 \in Levels /\ \A k \in Levels : k \in Nat /\ k + 1 # k /\ k + 1 # 1
                     /\ (k < Depth => k + 1 \in Levels)
    BY DEF Levels
  <1>1. CASE UNCHANGED vars
    BY <1>1 DEF vars
  <1>2. CASE RootMain \/ RootReceiver \/ RootKilled
    <2>1. CASE RootForks
      BY <1>0, <2>1 DEF RootForks
    <2>2. CASE UNCHANGED <<alive, pc>>
      BY <2>2
    <2> QED
      BY <1>2, <2>1, <2>2 DEF RootMain, RootReceiver, RootKilled, RootOpens, RootSends,
         RootCloses, RootPrints, RootPrinted, RootEnds, RootReaps, RootFails,
         RootDies, RootReceives, RootReceiverEnds, levelVars, streamVars
  <1>3. ASSUME NEW k \in Levels,
               StartHandler(k) \/ Handler(k) \/ ForkFails(k) \/ Relayer(k) \/ Spread(k)
               \/ Exits(k)
        PROVE  ChildState'
    <2> USE DEF rootVars, levelVars, streamVars
    <2>1. CASE StartHandler(k) \/ ForkFails(k)
      BY <1>0, <2>1 DEF StartHandler, ForkFails, Return
    <2>2. CASE Config(k) \/ ConfigFails(k)
      BY <1>0, <2>2 DEF Config, ConfigFails, Configured
    <2>3. CASE LeafEnds(k)
      BY <1>0, <2>3 DEF LeafEnds, Return, Configured
    <2>4. CASE k < Depth /\ ForkChild(k)
      BY <1>0, <2>4 DEF ForkChild
    <2>5. CASE k < Depth /\ (OpenChild(k) \/ OpenChildFails(k))
      BY <1>0, <2>5 DEF OpenChild, OpenChildFails, Cleanup
    <2>6. CASE k < Depth /\ (RelayEnds(k) \/ RelayFails(k))
      <3>1. CASE RelayEnds(k)
        BY <1>0, <2>6, <3>1 DEF RelayEnds
      <3>2. CASE RelayFails(k)
        BY <1>0, <2>6, <3>2 DEF RelayFails, Cleanup
      <3> QED
        BY <2>6, <3>1, <3>2
    <2>7. CASE k < Depth /\ (Drain(k) \/ Reap(k))
      BY <1>0, <2>7 DEF Drain, Cleanup, Reap, Return
    <2>8. CASE Exits(k)
      BY <1>0, <2>8 DEF Exits
    <2>9. CASE UNCHANGED <<alive, pc>>
      BY <2>9
    <2> QED
      BY <1>3, <2>1, <2>2, <2>3, <2>4, <2>5, <2>6, <2>7, <2>8, <2>9
         DEF Handler, Parent, Relay, Leaf, Relayer, RelayBack, RelayBackEnds, Spread,
             CancelSpreads
  <1> QED
    BY <1>1, <1>2, <1>3 DEF Next

-----------------------------------------------------------------------------
\* What the numbers of a flow say of the queues of one level.
LEMMA AtLevel ==
    ASSUME QueuesOK, NEW d \in [0..Depth -> 0..next], NEW u \in [0..Depth -> 0..next],
           Flows(d, u), NEW k \in Levels
    PROVE  /\ next \in Nat /\ k \in Nat /\ k - 1 \in Nat
           /\ k \in 0..Depth /\ k - 1 \in 0..Depth /\ Depth \in Nat
           /\ d[k] \in Nat /\ d[k - 1] \in Nat /\ u[k] \in Nat /\ u[k - 1] \in Nat
           /\ d[k - 1] <= next /\ u[k] <= next
           /\ down[k] \in Seq(Values) /\ up[k] \in Seq(Values)
           /\ Carries(down[k], d[k], d[k - 1], k - 1)
           /\ Carries(up[k], u[k - 1], u[k], Depth)
           /\ \A n \in 1..next : n + (k - 1) \in Values /\ n + k \in Values /\ n + Depth \in Values
  <1>1. /\ next \in Nat /\ next <= NumValues /\ NumValues \in Nat /\ Depth \in Nat
        /\ k \in 1..Depth /\ k \in 0..Depth /\ k - 1 \in 0..Depth
    BY SizesAssumption DEF QueuesOK, Levels
  <1>2. d[k] \in 0..next /\ d[k - 1] \in 0..next /\ u[k] \in 0..next /\ u[k - 1] \in 0..next
    BY <1>1
  <1>3. down[k] \in Seq(Values) /\ up[k] \in Seq(Values)
    BY DEF QueuesOK, Bounded
  <1>4. Carries(down[k], d[k], d[k - 1], k - 1) /\ Carries(up[k], u[k - 1], u[k], Depth)
    BY DEF Flows
  <1>5. \A n \in 1..next : n + (k - 1) \in Values /\ n + k \in Values /\ n + Depth \in Values
    BY <1>1 DEF Values
  <1> QED
    BY <1>1, <1>2, <1>3, <1>4, <1>5

\* The next item of a queue, going down.
LEMMA NextDown ==
    ASSUME QueuesOK, NEW d \in [0..Depth -> 0..next], NEW u \in [0..Depth -> 0..next],
           Flows(d, u), NEW k \in Levels, down[k] # <<>>
    PROVE  /\ d[k] + 1 \in 1..next
           /\ Head(down[k]) = d[k] + 1 + (k - 1)
           /\ Increment(Head(down[k])) = d[k] + 1 + k
           /\ Increment(Head(down[k])) \in Values
           /\ Carries(Tail(down[k]), d[k] + 1, d[k - 1], k - 1)
  <1> DEFINE q == down[k]  a == d[k]  b == d[k - 1]  c == k - 1
  <1>1. q \in Seq(Values) /\ q # <<>> /\ a \in Nat /\ b \in Nat /\ c \in Nat
        /\ Carries(q, a, b, c)
    BY AtLevel
  <1>2. /\ b <= next /\ next \in Nat /\ c = k - 1 /\ k \in Nat
        /\ \A n \in 1..next : n + k \in Values
    BY AtLevel
  <1> HIDE DEF q, a, b, c
  <1>3. a < b /\ Head(q) = a + 1 + c /\ Carries(Tail(q), a + 1, b, c)
    BY <1>1, CarriesLess
  <1>4. a + 1 \in 1..next /\ Head(q) + 1 = a + 1 + k
    BY <1>1, <1>2, <1>3
  <1> QED
    BY <1>2, <1>3, <1>4 DEF q, a, b, c, Increment

\* The same, going up.
LEMMA NextUp ==
    ASSUME QueuesOK, NEW d \in [0..Depth -> 0..next], NEW u \in [0..Depth -> 0..next],
           Flows(d, u), NEW k \in Levels, up[k] # <<>>
    PROVE  /\ u[k - 1] + 1 \in 1..next
           /\ Head(up[k]) = u[k - 1] + 1 + Depth
           /\ Head(up[k]) \in Values
           /\ Carries(Tail(up[k]), u[k - 1] + 1, u[k], Depth)
  <1> DEFINE q == up[k]  a == u[k - 1]  b == u[k]
  <1>1. q \in Seq(Values) /\ q # <<>> /\ a \in Nat /\ b \in Nat /\ Depth \in Nat
        /\ Carries(q, a, b, Depth)
    BY AtLevel
  <1>2. b <= next /\ next \in Nat /\ \A n \in 1..next : n + Depth \in Values
    BY AtLevel
  <1> HIDE DEF q, a, b
  <1>3. a < b /\ Head(q) = a + 1 + Depth /\ Carries(Tail(q), a + 1, b, Depth)
    BY <1>1, CarriesLess
  <1>4. a + 1 \in 1..next
    BY <1>1, <1>2, <1>3
  <1> QED
    BY <1>2, <1>3, <1>4 DEF q, a, b

\* The item that comes to the end of a queue, going down.
LEMMA LastDown ==
    ASSUME QueuesOK, NEW d \in [0..Depth -> 0..next], NEW u \in [0..Depth -> 0..next],
           Flows(d, u), NEW k \in Levels, d[k - 1] + 1 + (k - 1) \in Values
    PROVE  Carries(Append(down[k], d[k - 1] + 1 + (k - 1)), d[k], d[k - 1] + 1, k - 1)
  <1> DEFINE q == down[k]  a == d[k]  b == d[k - 1]  c == k - 1
  <1>1. q \in Seq(Values) /\ a \in Nat /\ b \in Nat /\ c \in Nat /\ Carries(q, a, b, c)
        /\ b + 1 + c \in Values
    BY AtLevel
  <1> HIDE DEF q, a, b, c
  <1>2. Carries(Append(q, b + 1 + c), a, b + 1, c)
    BY <1>1, CarriesMore
  <1> QED
    BY <1>2 DEF q, a, b, c

\* The same, going up.
LEMMA LastUp ==
    ASSUME QueuesOK, NEW d \in [0..Depth -> 0..next], NEW u \in [0..Depth -> 0..next],
           Flows(d, u), NEW k \in Levels, u[k] + 1 + Depth \in Values
    PROVE  Carries(Append(up[k], u[k] + 1 + Depth), u[k - 1], u[k] + 1, Depth)
  <1> DEFINE q == up[k]  a == u[k - 1]  b == u[k]
  <1>1. q \in Seq(Values) /\ a \in Nat /\ b \in Nat /\ Depth \in Nat
        /\ Carries(q, a, b, Depth) /\ b + 1 + Depth \in Values
    BY AtLevel
  <1> HIDE DEF q, a, b
  <1>2. Carries(Append(q, b + 1 + Depth), a, b + 1, Depth)
    BY <1>1, CarriesMore
  <1> QED
    BY <1>2 DEF q, a, b

\* The moves of an item, each of which is one of the promise's steps or none.
Sequel == /\ QueuesOK' /\ InFlight'
          /\ Promise!Next \/ UNCHANGED <<next, printed \o results>>

\* The root sends an input: the promise takes it in.
LEMMA Sending ==
    ASSUME QueuesOK, InFlight, RootSends
    PROVE  Sequel
  <1> USE SizesAssumption
  <1>0. 1 \in Levels /\ next \in Nat /\ next < NumValues /\ next' = next + 1 /\ NumValues \in Nat
        /\ UNCHANGED <<printed, results, up>> /\ Depth \in Nat
    BY DEF Levels, RootSends, QueuesOK
  <1>1. PICK d, u \in [0..Depth -> 0..next] : Flows(d, u)
    BY DEF InFlight
  <1>2. d[0] = next /\ next + 1 \in Values
    BY <1>0, <1>1 DEF Flows, Values
  <1>3. down' = [down EXCEPT ![1] = Append(@, next + 1)] /\ Len(down[1]) < FlowCap
    BY DEF RootSends
  <1>4. QueuesOK'
    <2>1. Bounded(down')
      BY <1>0, <1>2, <1>3, PutOn DEF QueuesOK
    <2> QED
      BY <1>0, <2>1 DEF QueuesOK, Bounded
  <1> DEFINE e == [d EXCEPT ![0] = @ + 1]
  <1>5. e \in [0..Depth -> 0..next'] /\ u \in [0..Depth -> 0..next'] /\ e[0] = next + 1
        /\ \A j \in 1..Depth : e[j] = d[j]
    BY <1>0, <1>2
  <1>6. Carries(down'[1], e[1], e[0], 0)
    <2>1. Carries(Append(down[1], d[1 - 1] + 1 + (1 - 1)), d[1], d[1 - 1] + 1, 1 - 1)
      <3>1. d[1 - 1] + 1 + (1 - 1) \in Values
        BY <1>0, <1>2
      <3> QED
        BY <1>0, <1>1, <3>1, LastDown
    <2>2. down'[1] = Append(down[1], next + 1) /\ d[1 - 1] + 1 + (1 - 1) = next + 1
      BY SMTT(30), <1>0, <1>2, <1>3 DEF QueuesOK, Bounded
    <2>3. e[1] = d[1] /\ e[0] = d[1 - 1] + 1
      BY <1>0, <1>2, <1>5 DEF Levels
    <2> QED
      BY <2>1, <2>2, <2>3
  <1>7. ASSUME NEW j \in Levels
        PROVE  Carries(down'[j], e[j], e[j - 1], j - 1) /\ Carries(up'[j], u[j - 1], u[j], Depth)
    <2>1. CASE j = 1
      BY <1>0, <1>1, <1>6, <2>1 DEF Flows
    <2>2. CASE j # 1
      <3>1. j \in 1..Depth /\ j - 1 \in 1..Depth
        BY <2>2 DEF Levels
      <3>2. down'[j] = down[j] /\ e[j] = d[j] /\ e[j - 1] = d[j - 1]
        BY <1>3, <1>5, <2>2, <3>1 DEF QueuesOK, Bounded
      <3> QED
        BY <1>0, <1>1, <3>2 DEF Flows
    <2> QED
      BY <2>1, <2>2
  <1>8. Flows(e, u)'
    <2>1. e[Depth] = u[Depth] /\ u[0] = Len(printed \o results)'
      BY <1>0, <1>1, <1>5 DEF Flows
    <2> QED
      BY <1>0, <1>5, <1>7, <2>1 DEF Flows
  <1>9. InFlight'
    BY <1>5, <1>8 DEF InFlight
  <1> QED
    BY <1>0, <1>4, <1>9 DEF Sequel, Promise!Next, Promise!Put

\* A level relays a value down, incremented.
LEMMA Relaying ==
    ASSUME QueuesOK, InFlight, NEW k \in Levels, k < Depth, Relay(k)
    PROVE  Sequel
  <1>1. PICK d, u \in [0..Depth -> 0..next] : Flows(d, u)
    BY DEF InFlight
  <1>2. k + 1 \in Levels /\ (k + 1) - 1 = k
    BY SizesAssumption DEF Levels
  <1>3. /\ down[k] # <<>> /\ Len(down[k + 1]) < FlowCap
        /\ down' = [down EXCEPT ![k] = Tail(@), ![k + 1] = Append(@, Increment(Head(down[k])))]
        /\ UNCHANGED <<next, results, printed, up>>
    BY DEF Relay, rootVars
  <1>4. /\ d[k] + 1 \in 1..next
        /\ Increment(Head(down[k])) = d[k] + 1 + k
        /\ Increment(Head(down[k])) \in Values
        /\ Carries(Tail(down[k]), d[k] + 1, d[k - 1], k - 1)
    BY <1>1, <1>3, NextDown
  <1>5. Carries(Append(down[k + 1], d[k] + 1 + k), d[k + 1], d[k] + 1, k)
    BY <1>1, <1>2, <1>4, LastDown
  <1>6. QueuesOK'
    <2>1. Bounded(down')
      <3>1. Bounded(down) /\ k # k + 1
        BY <1>2 DEF QueuesOK, Levels
      <3> QED
        BY <1>2, <1>3, <1>4, <3>1, PassedOn
    <2> QED
      BY <1>3, <2>1 DEF QueuesOK, Bounded
  <1> DEFINE e == [d EXCEPT ![k] = @ + 1]
  <1>7. /\ e \in [0..Depth -> 0..next] /\ e[k] = d[k] + 1
        /\ \A j \in 0..Depth : j # k => e[j] = d[j]
    BY <1>4 DEF Levels
  <1>8. ASSUME NEW j \in Levels
        PROVE  Carries(down'[j], e[j], e[j - 1], j - 1)
    <2>0. j \in 0..Depth /\ j - 1 \in 0..Depth /\ k \in Nat /\ j \in Nat
      BY SizesAssumption DEF Levels
    <2>1. CASE j = k
      <3>1. down'[k] = Tail(down[k]) /\ e[k - 1] = d[k - 1]
        BY <1>2, <1>3, <1>7, <2>0, <2>1 DEF QueuesOK, Bounded
      <3> QED
        BY <1>4, <1>7, <2>1, <3>1
    <2>2. CASE j = k + 1
      <3>1. down'[k + 1] = Append(down[k + 1], d[k] + 1 + k) /\ e[k + 1] = d[k + 1]
        BY <1>2, <1>3, <1>4, <1>7, <2>0, <2>2 DEF QueuesOK, Bounded
      <3> QED
        BY <1>2, <1>5, <1>7, <2>2, <3>1
    <2>3. CASE j # k /\ j # k + 1
      <3>1. down'[j] = down[j] /\ e[j] = d[j] /\ e[j - 1] = d[j - 1]
        BY <1>3, <1>7, <2>0, <2>3 DEF QueuesOK, Bounded
      <3> QED
        BY <1>1, <3>1 DEF Flows
    <2> QED
      BY <2>1, <2>2, <2>3
  <1>9. Flows(e, u)'
    <2>1. e[0] = d[0] /\ e[Depth] = d[Depth]
      BY SizesAssumption, <1>7 DEF Levels
    <2> QED
      BY <1>1, <1>3, <1>8, <2>1 DEF Flows
  <1> QED
    BY <1>3, <1>6, <1>7, <1>9 DEF Sequel, InFlight

\* The leaf answers.
LEMMA Answering ==
    ASSUME QueuesOK, InFlight, NEW k \in Levels, k = Depth, Leaf(k)
    PROVE  Sequel
  <1>1. PICK d, u \in [0..Depth -> 0..next] : Flows(d, u)
    BY DEF InFlight
  <1>2. k \in Nat /\ k # 0 /\ u[k] = d[k]
    BY <1>1, SizesAssumption DEF Flows, Levels
  <1>3. /\ down[k] # <<>> /\ Len(up[k]) < FlowCap
        /\ up' = [up EXCEPT ![k] = Append(@, Increment(Head(down[k])))]
        /\ down' = [down EXCEPT ![k] = Tail(@)]
        /\ UNCHANGED <<next, results, printed>>
    BY DEF Leaf, rootVars
  <1>4. /\ d[k] + 1 \in 1..next
        /\ Increment(Head(down[k])) = d[k] + 1 + k
        /\ Increment(Head(down[k])) \in Values
        /\ Carries(Tail(down[k]), d[k] + 1, d[k - 1], k - 1)
    BY <1>1, <1>3, NextDown
  <1>5. Carries(Append(up[k], u[k] + 1 + Depth), u[k - 1], u[k] + 1, Depth)
    BY <1>1, <1>2, <1>4, LastUp
  <1>6. QueuesOK'
    BY <1>3, <1>4, PutOn, TakeOff DEF QueuesOK, Bounded
  <1> DEFINE e == [d EXCEPT ![k] = @ + 1]
             w == [u EXCEPT ![k] = @ + 1]
  <1>7. /\ e \in [0..Depth -> 0..next] /\ e[k] = d[k] + 1
        /\ w \in [0..Depth -> 0..next] /\ w[k] = u[k] + 1
        /\ \A j \in 0..Depth : j # k => e[j] = d[j] /\ w[j] = u[j]
    BY <1>2, <1>4
  <1>8. ASSUME NEW j \in Levels
        PROVE  Carries(down'[j], e[j], e[j - 1], j - 1) /\ Carries(up'[j], w[j - 1], w[j], Depth)
    <2>0. j \in 0..Depth /\ j - 1 \in 0..Depth /\ j - 1 # k
      BY SizesAssumption DEF Levels
    <2>1. CASE j = k
      <3>1. down'[k] = Tail(down[k]) /\ up'[k] = Append(up[k], u[k] + 1 + Depth)
        BY <1>2, <1>3, <1>4 DEF QueuesOK, Bounded
      <3> QED
        BY <1>4, <1>5, <1>7, <2>0, <2>1, <3>1
    <2>2. CASE j # k
      <3>1. /\ down'[j] = down[j] /\ e[j] = d[j] /\ e[j - 1] = d[j - 1]
            /\ up'[j] = up[j] /\ w[j] = u[j] /\ w[j - 1] = u[j - 1]
        BY <1>3, <1>7, <2>0, <2>2 DEF QueuesOK, Bounded
      <3> QED
        BY <1>1, <3>1 DEF Flows
    <2> QED
      BY <2>1, <2>2
  <1>9. Flows(e, w)'
    <2>1. e[0] = d[0] /\ w[0] = u[0] /\ w[Depth] = e[Depth]
      BY SizesAssumption, <1>2, <1>7
    <2> QED
      BY <1>1, <1>3, <1>8, <2>1 DEF Flows
  <1> QED
    BY <1>3, <1>6, <1>7, <1>9 DEF Sequel, InFlight

\* A level relays a result up.
LEMMA RelayingBack ==
    ASSUME QueuesOK, InFlight, NEW k \in Levels, k < Depth, RelayBack(k)
    PROVE  Sequel
  <1>1. PICK d, u \in [0..Depth -> 0..next] : Flows(d, u)
    BY DEF InFlight
  <1>2. k + 1 \in Levels /\ (k + 1) - 1 = k /\ k \in Nat /\ k # 0
    BY SizesAssumption DEF Levels
  <1>3. /\ up[k + 1] # <<>> /\ Len(up[k]) < FlowCap
        /\ up' = [up EXCEPT ![k] = Append(@, Head(up[k + 1])), ![k + 1] = Tail(@)]
        /\ UNCHANGED <<next, results, printed, down>>
    BY DEF RelayBack, rootVars
  <1>4. /\ u[k] + 1 \in 1..next
        /\ Head(up[k + 1]) = u[k] + 1 + Depth
        /\ Head(up[k + 1]) \in Values
        /\ Carries(Tail(up[k + 1]), u[k] + 1, u[k + 1], Depth)
    BY <1>1, <1>2, <1>3, NextUp
  <1>5. Carries(Append(up[k], u[k] + 1 + Depth), u[k - 1], u[k] + 1, Depth)
    BY <1>1, <1>4, LastUp
  <1>6. QueuesOK'
    <2>1. Bounded(up')
      <3>1. Bounded(up) /\ k # k + 1
        BY <1>2 DEF QueuesOK
      <3> QED
        BY <1>2, <1>3, <1>4, <3>1, PassedOn
    <2> QED
      BY <1>3, <2>1 DEF QueuesOK, Bounded
  <1> DEFINE w == [u EXCEPT ![k] = @ + 1]
  <1>7. /\ w \in [0..Depth -> 0..next] /\ w[k] = u[k] + 1
        /\ \A j \in 0..Depth : j # k => w[j] = u[j]
    BY <1>4 DEF Levels
  <1>8. ASSUME NEW j \in Levels
        PROVE  Carries(up'[j], w[j - 1], w[j], Depth)
    <2>0. j \in 0..Depth /\ j - 1 \in 0..Depth /\ k \in Nat /\ j \in Nat
      BY SizesAssumption DEF Levels
    <2>1. CASE j = k
      <3>1. up'[k] = Append(up[k], u[k] + 1 + Depth) /\ w[k - 1] = u[k - 1]
        BY <1>2, <1>3, <1>4, <1>7, <2>0, <2>1 DEF QueuesOK, Bounded
      <3> QED
        BY <1>5, <1>7, <2>1, <3>1
    <2>2. CASE j = k + 1
      <3>1. up'[k + 1] = Tail(up[k + 1]) /\ w[k + 1] = u[k + 1]
        BY <1>2, <1>3, <1>7, <2>0, <2>2 DEF QueuesOK, Bounded
      <3> QED
        BY <1>2, <1>4, <1>7, <2>2, <3>1
    <2>3. CASE j # k /\ j # k + 1
      <3>1. up'[j] = up[j] /\ w[j] = u[j] /\ w[j - 1] = u[j - 1]
        BY <1>3, <1>7, <2>0, <2>3 DEF QueuesOK, Bounded
      <3> QED
        BY <1>1, <3>1 DEF Flows
    <2> QED
      BY <2>1, <2>2, <2>3
  <1>9. Flows(d, w)'
    <2>1. w[0] = u[0] /\ w[Depth] = u[Depth]
      BY SizesAssumption, <1>2, <1>7
    <2> QED
      BY <1>1, <1>3, <1>8, <2>1 DEF Flows
  <1> QED
    BY <1>3, <1>6, <1>7, <1>9 DEF Sequel, InFlight

\* A result reaches the root's channel: the promise emits it.
LEMMA Receiving ==
    ASSUME QueuesOK, InFlight, RootReceives
    PROVE  Sequel
  <1>1. PICK d, u \in [0..Depth -> 0..next] : Flows(d, u)
    BY DEF InFlight
  <1>2. 1 \in Levels /\ 1 - 1 = 0 /\ Depth \in Nat /\ Depth # 0
    BY SizesAssumption DEF Levels
  <1>3. /\ up[1] # <<>> /\ Len(results) < ResultsCap
        /\ results' = Append(results, Head(up[1]))
        /\ up' = [up EXCEPT ![1] = Tail(@)]
        /\ UNCHANGED <<next, printed, down>>
    BY DEF RootReceives
  <1>4. /\ u[0] + 1 \in 1..next
        /\ Head(up[1]) = u[0] + 1 + Depth
        /\ Head(up[1]) \in Values
        /\ Carries(Tail(up[1]), u[0] + 1, u[1], Depth)
    BY <1>1, <1>2, <1>3, NextUp
  <1>5. results \in Seq(Values) /\ printed \in Seq(Values) /\ next \in Nat
    BY DEF QueuesOK
  <1>6. QueuesOK'
    <2>1. Bounded(up')
      BY <1>2, <1>3, TakeOff DEF QueuesOK
    <2>2. results' \in Seq(Values) /\ Len(results') <= ResultsCap
      BY <1>3, <1>4, <1>5, Enqueue, SizesAssumption
    <2> QED
      BY <1>3, <2>1, <2>2 DEF QueuesOK, Bounded
  <1>7. /\ (printed \o results)' = Append(printed \o results, u[0] + 1 + Depth)
        /\ Len(printed \o results) \in Nat /\ printed \o results \in Seq(Values)
    BY SMTT(30), <1>3, <1>4, <1>5, AppendEnd
  <1>8. Len((printed \o results)') = Len(printed \o results) + 1
    BY <1>4, <1>7, Enqueue
  <1> DEFINE w == [u EXCEPT ![0] = @ + 1]
  <1>9. /\ w \in [0..Depth -> 0..next] /\ w[0] = u[0] + 1
        /\ \A j \in 1..Depth : w[j] = u[j]
    BY <1>2, <1>4
  <1>10. ASSUME NEW j \in Levels
         PROVE  Carries(up'[j], w[j - 1], w[j], Depth)
    <2>1. CASE j = 1
      <3>1. up'[1] = Tail(up[1]) /\ w[1] = u[1]
        BY <1>2, <1>3, <1>9 DEF QueuesOK, Bounded, Levels
      <3> QED
        BY <1>2, <1>4, <1>9, <2>1, <3>1
    <2>2. CASE j # 1
      <3>1. j \in 1..Depth /\ j - 1 \in 1..Depth
        BY <1>2, <2>2 DEF Levels
      <3>2. up'[j] = up[j] /\ w[j] = u[j] /\ w[j - 1] = u[j - 1]
        BY <1>3, <1>9, <2>2, <3>1 DEF QueuesOK, Bounded
      <3> QED
        BY <1>1, <3>2 DEF Flows
    <2> QED
      BY <2>1, <2>2
  <1>11. u[0] = Len(printed \o results)
    BY <1>1 DEF Flows
  <1>12. Flows(d, w)'
    <2>1. w[Depth] = d[Depth] /\ w[0] = Len((printed \o results)')
      BY <1>1, <1>2, <1>8, <1>9, <1>11 DEF Flows
    <2> QED
      BY <1>1, <1>3, <1>10, <2>1 DEF Flows
  <1>13. Promise!Next
    <2>1. Len(printed \o results) < next
      BY <1>4, <1>5, <1>7, <1>11
    <2>2. Len(printed \o results) + Depth + 1 = u[0] + 1 + Depth
      BY <1>2, <1>7, <1>11
    <2> QED
      BY <1>3, <1>7, <2>1, <2>2 DEF Promise!Next, Promise!Emit
  <1> QED
    BY <1>3, <1>6, <1>9, <1>12, <1>13 DEF Sequel, InFlight

\* The root prints what was in its channel.
LEMMA Printing ==
    ASSUME QueuesOK, InFlight, RootPrints
    PROVE  Sequel
  <1>1. /\ results # <<>> /\ printed' = Append(printed, Head(results))
        /\ results' = Tail(results) /\ UNCHANGED <<next, down, up>>
    BY DEF RootPrints, streamVars
  <1>2. results \in Seq(Values) /\ printed \in Seq(Values)
    BY DEF QueuesOK
  <1>3. (printed \o results)' = printed \o results
    BY <1>1, <1>2, MoveOne
  <1>4. results' \in Seq(Values) /\ Len(results') <= ResultsCap /\ printed' \in Seq(Values)
    BY <1>1, <1>2, Dequeue, Enqueue, SizesAssumption DEF QueuesOK
  <1>5. QueuesOK'
    BY <1>1, <1>4 DEF QueuesOK, Bounded
  <1>6. InFlight'
    <2>1. PICK d, u \in [0..Depth -> 0..next] : Flows(d, u)
      BY DEF InFlight
    <2>2. Flows(d, u)'
      BY <1>1, <1>3, <2>1 DEF Flows
    <2> QED
      BY <1>1, <2>1, <2>2 DEF InFlight
  <1> QED
    BY <1>1, <1>3, <1>5, <1>6 DEF Sequel

\* Every other step leaves the items where they are.
LEMMA Resting ==
    ASSUME QueuesOK, InFlight, UNCHANGED <<next, results, printed, down, up>>
    PROVE  Sequel
  <1>1. QueuesOK'
    BY DEF QueuesOK, Bounded
  <1>2. InFlight'
    BY DEF InFlight, Flows
  <1> QED
    BY <1>1, <1>2 DEF Sequel

\* Every step moves at most one item.
LEMMA Moves == QueuesOK /\ InFlight /\ Configured /\ [Next]_vars => Sequel
  <1> SUFFICES ASSUME QueuesOK, InFlight, Configured, [Next]_vars
               PROVE  Sequel
    OBVIOUS
  <1>1. CASE UNCHANGED vars
    BY <1>1, Resting DEF vars
  <1>2. CASE RootMain \/ RootReceiver \/ RootKilled
    <2>1. CASE UNCHANGED <<next, results, printed, down, up>>
      BY <2>1, Resting
    <2> QED
      BY <1>2, <2>1, Sending, Printing, Receiving
         DEF RootMain, RootReceiver, RootKilled, RootForks, RootOpens, RootCloses, RootPrinted,
             RootEnds, RootReaps, RootFails, RootDies, RootReceiverEnds, streamVars
  <1>3. ASSUME NEW k \in Levels,
               StartHandler(k) \/ Handler(k) \/ ForkFails(k) \/ Relayer(k) \/ Spread(k)
               \/ Exits(k)
        PROVE  Sequel
    <2>1. CASE UNCHANGED <<next, results, printed, down, up>>
      BY <2>1, Resting
    <2>2. CASE k < Depth /\ Relay(k)
      BY <2>2, Relaying
    <2>3. CASE k < Depth /\ RelayBack(k)
      BY <2>3, RelayingBack
    <2>4. CASE Leaf(k)
      BY <2>4, Answering DEF Configured, Leaf
    <2> QED
      BY <1>3, <2>1, <2>2, <2>3, <2>4
         DEF StartHandler, Handler, ForkFails, Relayer, Spread, Exits, Parent, Config,
             ConfigFails, LeafEnds, Return, Cleanup, ForkChild, OpenChild, OpenChildFails,
             RelayEnds, RelayFails, Drain, Reap, RelayBackEnds, CancelSpreads, rootVars,
             streamVars
  <1> QED
    BY <1>1, <1>2, <1>3 DEF Next

-----------------------------------------------------------------------------
\* The invariant is inductive, and each step is one of the promise or none.
LEMMA Step == Inv /\ [Next]_vars => Inv' /\ Sequel
  <1>1. ControlOK' /\ QueuesOK' => TypeOK'
    BY DEF TypeOK, ControlOK, QueuesOK, Bounded
  <1> QED
    BY <1>1, TypeParts, Control, Depths, Children, Moves DEF Inv, Sequel

\* Queues stay within their capacities and hold values the increments can produce;
\* depths, and the handlers' and processes' states, are those the code has.
THEOREM TypeCorrect == Spec => []TypeOK
  <1>1. Inv => TypeOK
    BY DEF Inv
  <1> QED
    BY Start, Step, <1>1, PTL DEF Spec

\* A level's process is gone only when the one below it is: a level returns after it
\* has waited for its child, or never had one, and it exits after it returned.
THEOREM ChainTakenDown == Spec => []TakenDownFromLeaf
  <1>1. Inv => TakenDownFromLeaf
    <2> SUFFICES ASSUME Inv, NEW k \in Levels, k > 1, alive[k - 1] = "exited"
                 PROVE  alive[k] \in {"unborn", "exited"}
      BY DEF TakenDownFromLeaf
    <2>1. k - 1 \in Levels /\ k - 1 < Depth /\ (k - 1) + 1 = k
      BY SizesAssumption DEF Levels
    <2> QED
      BY <2>1 DEF Inv, ChildState
  <1> QED
    BY Start, Step, <1>1, PTL DEF Spec

\* The pipeline implements its promise: whatever fails, the root's results are the
\* inputs in order, each once, each incremented Depth + 1 times.
THEOREM Refinement == Spec => KeepsPromise
  <1>1. Init => Promise!Init
    BY DEF Init, Promise!Init
  <1>2. Sequel => [Promise!Next]_<<next, printed \o results>>
    BY DEF Sequel
  <1> QED
    BY Start, Step, <1>1, <1>2, PTL DEF Spec, KeepsPromise, Promise!Spec

=============================================================================
