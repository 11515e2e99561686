------------------------------ MODULE Pipeline ------------------------------
(***************************************************************************)
(* The streaming increment pipeline: runner-cli/pipeline/main.go is the    *)
(* root, streamer/streamer.go the handler Pipeline of every forked level.  *)
(* Level k forks level k+1, opens a stream to it, sends it the config with *)
(* a smaller depth, and relays: values down, each incremented once, and    *)
(* results up, in a goroutine of their own.  The last level answers.       *)
(*                                                                         *)
(* Level 0 is the root.  Stream k is the one between levels k-1 and k.  A  *)
(* message somebody has received and not yet passed on counts as still in  *)
(* the stream it came from: receiving and passing on is one step.          *)
(***************************************************************************)
EXTENDS Naturals, Sequences

CONSTANTS Depth,       \* the root's const depth: the number of forked levels
          NumValues,   \* the inputs the root sends (10)
          ResultsCap,  \* the capacity of the root's channel of results (10)
          FlowCap,     \* the messages a stream holds in each direction
          Methods,     \* the methods a config may name
          Faults       \* what may go wrong: "fork", "root"

ASSUME SizesAssumption == /\ Depth \in Nat \ {0} /\ NumValues \in Nat
                          /\ ResultsCap \in Nat \ {0} /\ FlowCap \in Nat \ {0}
ASSUME FaultsAssumption == /\ Methods \subseteq {"Increment", "Unknown"}
                           /\ Faults \subseteq {"fork", "root"}

Levels == 1..Depth

VARIABLES
    method,      \* the method of the config
    \* the root
    root,        \* its main goroutine
    next,        \* the inputs sent so far
    results,     \* its channel of results
    resultsOpen,
    printed,     \* what it has taken out of the channel
    rootErrc,    \* the error its receiving goroutine reported
    \* the levels
    alive,       \* the process
    pc,          \* its Pipeline handler
    depth,       \* config.Depth
    perr,        \* the error the handler will return
    errc,        \* what its relay goroutine reported
    \* the streams
    down, up,    \* values under way in each direction
    config,      \* the depth in the config message under way, or None
    sendClosed,  \* the caller has called CloseSend
    rpc,         \* what the caller knows of the call
    cut          \* the caller has closed the connection or cancelled the call

rootVars   == <<root, next, results, resultsOpen, printed, rootErrc>>
levelVars  == <<alive, pc, depth, perr, errc>>
streamVars == <<down, up, config, sendClosed, rpc, cut>>
vars == <<method, root, next, results, resultsOpen, printed, rootErrc, alive, pc, depth,
          perr, errc, down, up, config, sendClosed, rpc, cut>>

None   == Depth + 1     \* no config has this depth
Values == 0..(NumValues + Depth)

TypeOK ==
    /\ method \in Methods
    /\ root \in {"fork", "open", "send", "print", "errc", "reap", "done", "dead"}
    /\ next \in 0..NumValues
    /\ results \in Seq(Values) /\ Len(results) <= ResultsCap
    /\ printed \in Seq(Values)
    /\ resultsOpen \in BOOLEAN
    /\ rootErrc \in {"empty", "nil", "error"}
    /\ alive \in [Levels -> {"unborn", "serving", "exited"}]
    /\ pc \in [Levels -> {"idle", "config", "early", "fork", "open", "relay", "drain",
                          "reap", "leaf", "returned"}]
    /\ depth \in [Levels -> 0..Depth]
    /\ perr \in [Levels -> {"nil", "error"}]
    /\ errc \in [Levels -> {"off", "empty", "nil", "error"}]
    /\ down \in [Levels -> Seq(Values)] /\ up \in [Levels -> Seq(Values)]
    /\ \A k \in Levels : Len(down[k]) <= FlowCap /\ Len(up[k]) <= FlowCap
    /\ config \in [Levels -> 0..None]
    /\ sendClosed \in [Levels -> BOOLEAN] /\ cut \in [Levels -> BOOLEAN]
    /\ rpc \in [Levels -> {"none", "open", "nil", "error"}]

Init ==
    /\ method \in Methods
    /\ root = "fork" /\ next = 0 /\ results = <<>> /\ resultsOpen = TRUE
    /\ printed = <<>> /\ rootErrc = "empty"
    /\ alive = [k \in Levels |-> "unborn"]
    /\ pc = [k \in Levels |-> "idle"]
    /\ depth = [k \in Levels |-> 0]
    /\ perr = [k \in Levels |-> "nil"]
    /\ errc = [k \in Levels |-> "off"]
    /\ down = [k \in Levels |-> <<>>] /\ up = [k \in Levels |-> <<>>]
    /\ config = [k \in Levels |-> None]
    /\ sendClosed = [k \in Levels |-> FALSE] /\ cut = [k \in Levels |-> FALSE]
    /\ rpc = [k \in Levels |-> "none"]

Finished(k) == rpc[k] \in {"nil", "error"}

\* invokeMethod finds the method among the registered services, and knows how to call it.
Registered == method = "Increment"

\* Mutant: the method is applied to no value.
NoIncrement(v) == v
Increment(v)   == v + 1

\* Passing a message on, from the head of one queue to the tail of another.
Open(k, d) ==
    /\ rpc' = [rpc EXCEPT ![k] = "open"]
    /\ config' = [config EXCEPT ![k] = d]

-----------------------------------------------------------------------------
(* The root.                                                               *)

RootForks ==
    /\ root = "fork" /\ root' = "open"
    /\ alive' = [alive EXCEPT ![1] = "serving"]
    /\ UNCHANGED <<method, next, results, resultsOpen, printed, rootErrc, pc, depth,
                   perr, errc, streamVars>>

RootOpens ==
    /\ root = "open" /\ root' = "send"
    /\ Open(1, Depth - 1)
    /\ UNCHANGED <<method, next, results, resultsOpen, printed, rootErrc, levelVars,
                   down, up, sendClosed, cut>>

\* Mutant: the loop runs once too often.
RootSendsOneMore ==
    /\ root = "send" /\ next <= NumValues
    /\ ~Finished(1) /\ Len(down[1]) < FlowCap
    /\ down' = [down EXCEPT ![1] = Append(@, next + 1)]
    /\ next' = next + 1
    /\ UNCHANGED <<method, root, results, resultsOpen, printed, rootErrc, levelVars,
                   up, config, sendClosed, rpc, cut>>

\* "Root applies Increment first (root is a pipeline stage too)."
RootSends ==
    /\ root = "send" /\ next < NumValues
    /\ ~Finished(1) /\ Len(down[1]) < FlowCap
    /\ down' = [down EXCEPT ![1] = Append(@, next + 1)]
    /\ next' = next + 1
    /\ UNCHANGED <<method, root, results, resultsOpen, printed, rootErrc, levelVars,
                   up, config, sendClosed, rpc, cut>>

RootCloses ==
    /\ root = "send" /\ next = NumValues
    /\ root' = "print"
    /\ sendClosed' = [sendClosed EXCEPT ![1] = TRUE]
    /\ UNCHANGED <<method, next, results, resultsOpen, printed, rootErrc, levelVars,
                   down, up, config, rpc, cut>>

RootPrints ==
    /\ root = "print" /\ Len(printed) < NumValues /\ results # <<>>
    /\ printed' = Append(printed, Head(results))
    /\ results' = Tail(results)
    /\ UNCHANGED <<method, root, next, resultsOpen, rootErrc, levelVars, streamVars>>

\* All values are printed, or the channel was closed before.
RootPrinted ==
    /\ root = "print"
    /\ Len(printed) = NumValues \/ (results = <<>> /\ ~resultsOpen)
    /\ root' = "errc"
    /\ UNCHANGED <<method, next, results, resultsOpen, printed, rootErrc, levelVars,
                   streamVars>>

\* main returns, and its deferred cleanup closes the connection and waits.
RootEnds ==
    /\ root = "errc" /\ rootErrc = "nil" /\ root' = "reap"
    /\ cut' = [cut EXCEPT ![1] = TRUE]
    /\ UNCHANGED <<method, next, results, resultsOpen, printed, rootErrc, levelVars,
                   down, up, config, sendClosed, rpc>>

RootReaps ==
    /\ root = "reap" /\ alive[1] = "exited" /\ root' = "done"
    /\ UNCHANGED <<method, next, results, resultsOpen, printed, rootErrc, levelVars,
                   streamVars>>

\* log.Fatalf: the process ends, without its deferred calls.
RootDies ==
    /\ root' = "dead"
    /\ cut' = [cut EXCEPT ![1] = TRUE]
    /\ UNCHANGED <<method, next, results, resultsOpen, printed, rootErrc, levelVars,
                   down, up, config, sendClosed, rpc>>

RootFails ==
    /\ \/ root = "send" /\ next < NumValues /\ Finished(1)
       \/ root = "errc" /\ rootErrc = "error"
    /\ RootDies

RootKilled ==
    /\ "root" \in Faults
    /\ root \in {"open", "send", "print", "errc", "reap"}
    /\ RootDies

\* The root's receiving goroutine.
RootReceives ==
    /\ root # "dead" /\ rootErrc = "empty" /\ up[1] # <<>>
    /\ Len(results) < ResultsCap
    /\ results' = Append(results, Head(up[1]))
    /\ up' = [up EXCEPT ![1] = Tail(@)]
    /\ UNCHANGED <<method, root, next, resultsOpen, printed, rootErrc, levelVars,
                   down, config, sendClosed, rpc, cut>>

RootReceiverEnds ==
    /\ root # "dead" /\ rootErrc = "empty" /\ up[1] = <<>> /\ Finished(1)
    /\ rootErrc' = rpc[1]
    /\ resultsOpen' = FALSE
    /\ UNCHANGED <<method, root, next, results, printed, levelVars, streamVars>>

-----------------------------------------------------------------------------
(* The handler of level k, up to the relay.                                *)

Goto(k, from, to) == pc[k] = from /\ pc' = [pc EXCEPT ![k] = to]

StartHandler(k) ==
    /\ alive[k] = "serving" /\ rpc[k] = "open"
    /\ Goto(k, "idle", "config")
    /\ UNCHANGED <<method, rootVars, alive, depth, perr, errc, streamVars>>

Config(k) ==
    /\ config[k] # None
    /\ Goto(k, "config", IF config[k] = 0 THEN "leaf" ELSE "fork")
    /\ depth' = [depth EXCEPT ![k] = config[k]]
    /\ config' = [config EXCEPT ![k] = None]
    /\ UNCHANGED <<method, rootVars, alive, perr, errc, down, up, sendClosed, rpc, cut>>

\* The first Recv fails: the handler returns, and the server goes on serving.
ConfigFails(k) ==
    /\ cut[k]
    /\ Goto(k, "config", "early")
    /\ UNCHANGED <<method, rootVars, alive, depth, perr, errc, streamVars>>

\* The handler returns, having started GracefulStop.
Return(k, from, e) ==
    /\ Goto(k, from, "returned")
    /\ rpc' = [rpc EXCEPT ![k] = e]
    /\ UNCHANGED <<method, rootVars, alive, depth, perr, errc>>

\* pipelineRelay returns: its deferred cleanup closes the connection to the child.
Cleanup(k, from, e) ==
    /\ Goto(k, from, "reap")
    /\ perr' = [perr EXCEPT ![k] = e]
    /\ cut' = [cut EXCEPT ![k + 1] = TRUE]
    /\ UNCHANGED <<method, rootVars, alive, depth, down, up, config, sendClosed>>

ForkChild(k) ==
    /\ Goto(k, "fork", "open")
    /\ alive' = [alive EXCEPT ![k + 1] = "serving"]
    /\ UNCHANGED <<method, rootVars, depth, perr, errc, streamVars>>

ForkFails(k) ==
    /\ "fork" \in Faults
    /\ Return(k, "fork", "error")
    /\ UNCHANGED <<down, up, config, sendClosed, cut>>

\* child.Pipeline, the config, and the relay goroutine.
OpenChild(k) ==
    /\ Goto(k, "open", "relay")
    /\ Open(k + 1, depth[k] - 1)
    /\ errc' = [errc EXCEPT ![k] = "empty"]
    /\ UNCHANGED <<method, rootVars, alive, depth, perr, down, up, sendClosed, cut>>

\* The call or its first Send fails: the context they run under is done.
OpenChildFails(k) ==
    /\ cut[k]
    /\ Cleanup(k, "open", "error")
    /\ \E r \in {"none", "open"} : rpc' = [rpc EXCEPT ![k + 1] = r]
    /\ UNCHANGED errc

-----------------------------------------------------------------------------
(* Relay and leaf.                                                         *)

Relay(k) ==
    /\ pc[k] = "relay" /\ down[k] # <<>> /\ Registered
    /\ ~Finished(k + 1) /\ Len(down[k + 1]) < FlowCap
    /\ down' = [down EXCEPT ![k] = Tail(@), ![k + 1] = Append(@, Increment(Head(down[k])))]
    /\ UNCHANGED <<method, rootVars, levelVars, up, config, sendClosed, rpc, cut>>

\* EOF from above: CloseSend below.
RelayEnds(k) ==
    /\ down[k] = <<>> /\ sendClosed[k]
    /\ Goto(k, "relay", "drain")
    /\ sendClosed' = [sendClosed EXCEPT ![k + 1] = TRUE]
    /\ UNCHANGED <<method, rootVars, alive, depth, perr, errc, down, up, config, rpc, cut>>

\* Recv, the method, or Send fails.
RelayFails(k) ==
    /\ cut[k] \/ (down[k] # <<>> /\ (~Registered \/ Finished(k + 1)))
    /\ Cleanup(k, "relay", "error")
    /\ UNCHANGED <<rpc, errc>>

\* Mutant: the error of the relay goroutine is dropped, and not waited for.
DrainSkipped(k) ==
    /\ pc[k] = "drain" /\ Cleanup(k, "drain", "nil")
    /\ UNCHANGED <<rpc, errc>>

\* <-errc
Drain(k) ==
    /\ errc[k] \in {"nil", "error"}
    /\ Cleanup(k, "drain", errc[k])
    /\ UNCHANGED <<rpc, errc>>

\* Mutant: cleanup does not wait for the child.
ReapSkipped(k) ==
    /\ Return(k, "reap", perr[k])
    /\ UNCHANGED <<down, up, config, sendClosed, cut>>

\* Wait4, at the end of cleanup.
Reap(k) ==
    /\ k < Depth /\ alive[k + 1] = "exited"
    /\ Return(k, "reap", perr[k])
    /\ UNCHANGED <<down, up, config, sendClosed, cut>>

Leaf(k) ==
    /\ pc[k] = "leaf" /\ down[k] # <<>> /\ Registered
    /\ Len(up[k]) < FlowCap
    /\ up' = [up EXCEPT ![k] = Append(@, Increment(Head(down[k])))]
    /\ down' = [down EXCEPT ![k] = Tail(@)]
    /\ UNCHANGED <<method, rootVars, levelVars, config, sendClosed, rpc, cut>>

LeafEnds(k) ==
    /\ \/ down[k] = <<>> /\ sendClosed[k] /\ Return(k, "leaf", "nil")
       \/ cut[k] /\ Return(k, "leaf", "error")
       \/ down[k] # <<>> /\ ~Registered /\ Return(k, "leaf", "error")
    /\ UNCHANGED <<down, up, config, sendClosed, cut>>

\* The goroutine that relays results up.  It may outlive the handler's loop, and
\* nothing is sent on a stream whose handler has returned.
RelayBack(k) ==
    /\ errc[k] = "empty" /\ pc[k] # "returned"
    /\ up[k + 1] # <<>> /\ Len(up[k]) < FlowCap
    /\ up' = [up EXCEPT ![k] = Append(@, Head(up[k + 1])), ![k + 1] = Tail(@)]
    /\ UNCHANGED <<method, rootVars, levelVars, down, config, sendClosed, rpc, cut>>

RelayBackEnds(k) ==
    /\ errc[k] = "empty"
    /\ \/ /\ up[k + 1] = <<>> /\ Finished(k + 1)
          /\ errc' = [errc EXCEPT ![k] = rpc[k + 1]]
       \/ /\ cut[k + 1] \/ cut[k] \/ pc[k] = "returned"
          /\ errc' = [errc EXCEPT ![k] = "error"]
    /\ UNCHANGED <<method, rootVars, alive, pc, depth, perr, streamVars>>

\* The call below runs under the context of the call above.
CancelSpreads(k) ==
    /\ cut[k] /\ rpc[k + 1] = "open" /\ ~cut[k + 1]
    /\ cut' = [cut EXCEPT ![k + 1] = TRUE]
    /\ UNCHANGED <<method, rootVars, levelVars, down, up, config, sendClosed, rpc>>

\* Mutant: the server is not told to stop.
ExitNever(k) == FALSE /\ UNCHANGED vars

\* GracefulStop is done, Serve returns, and so does main.
Exits(k) ==
    /\ alive[k] = "serving" /\ pc[k] = "returned"
    /\ alive' = [alive EXCEPT ![k] = "exited"]
    /\ UNCHANGED <<method, rootVars, pc, depth, perr, errc, streamVars>>

-----------------------------------------------------------------------------
RootMain     == \/ RootForks \/ RootOpens \/ RootSends \/ RootCloses \/ RootPrints
                \/ RootPrinted \/ RootEnds \/ RootReaps \/ RootFails
RootReceiver == RootReceives \/ RootReceiverEnds

Parent(k)  == \/ ForkChild(k) \/ OpenChild(k) \/ OpenChildFails(k) \/ Relay(k)
              \/ RelayEnds(k) \/ RelayFails(k) \/ Drain(k) \/ Reap(k)
Handler(k) == \/ Config(k) \/ ConfigFails(k) \/ Leaf(k) \/ LeafEnds(k)
              \/ k < Depth /\ Parent(k)
Relayer(k) == k < Depth /\ (RelayBack(k) \/ RelayBackEnds(k))
Spread(k)  == k < Depth /\ CancelSpreads(k)

Next == \/ RootMain \/ RootReceiver \/ RootKilled
        \/ \E k \in Levels : \/ StartHandler(k) \/ Handler(k) \/ ForkFails(k)
                             \/ Relayer(k) \/ Spread(k) \/ Exits(k)

\* Goroutines run and gRPC delivers.
Fairness ==
    /\ WF_vars(RootMain) /\ WF_vars(RootReceiver)
    /\ \A k \in Levels : /\ WF_vars(StartHandler(k)) /\ WF_vars(Handler(k))
                         /\ WF_vars(Relayer(k)) /\ WF_vars(Spread(k)) /\ WF_vars(Exits(k))

Spec == Init /\ [][Next]_vars /\ Fairness

-----------------------------------------------------------------------------
(* Properties.                                                             *)

\* Whatever fails, the root's results are those of the promise: in order, each once,
\* each incremented at every level.  What is in its channel counts as out.
Promise == INSTANCE IncrementPromise WITH in <- next, out <- printed \o results
KeepsPromise == Promise!Spec

\* A level's process ends only after that of the level below: the chain is taken
\* down from its leaf, and no level becomes an orphan of a level that returned.
TakenDownFromLeaf ==
    \A k \in Levels : k > 1 /\ alive[k - 1] = "exited" => alive[k] \in {"unborn", "exited"}

\* A pipeline of a known method whose root is not killed prints every result, with
\* any capacity of the streams, and its whole chain exits.
Failed == root = "dead" \/ method = "Unknown" \/ \E k \in Levels : rpc[k] = "error"
Completes == root = "open" ~> Failed \/ (root = "done" /\ Len(printed) = NumValues)

\* After a failure every level exits too, unless one was cut off before it had read
\* its config.
CutBeforeConfig == \E k \in Levels : /\ alive[k] = "serving" /\ cut[k]
                                     /\ pc[k] \in {"idle", "config", "early"}
ChainExits == root = "open" ~> \/ \A k \in Levels : alive[k] \in {"unborn", "exited"}
                               \/ CutBeforeConfig

\* "Shut down this server so the process can exit and the parent's Wait4 returns"
\* (streamer/streamer.go:69): every level that was forked exits in the end.  Does not
\* hold of a level whose handler fails before it has its config, or never starts.
EveryLevelExits == root = "open" ~> \A k \in Levels : alive[k] \in {"unborn", "exited"}
=============================================================================
