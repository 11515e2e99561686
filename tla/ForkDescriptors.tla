-------------------------- MODULE ForkDescriptors --------------------------
(***************************************************************************)
(* The descriptors of the socketpair by which a process talks to a child   *)
(* it forked: runnerServer.Fork (runner/runner.go), forkAndDial            *)
(* (runner/batch.go) and ForkAndDial (streamer/streamer.go) run the same   *)
(* steps.  Handlers run concurrently, and the steps are not under a lock:  *)
(* a fork copies every descriptor of the parent that is not marked         *)
(* close-on-exec, those of other handlers' half-made pairs included.  So   *)
(* does Spawn, which makes no pair of its own.  A child serves until it    *)
(* reads EOF on its end, which needs every copy of the parent's end to be  *)
(* closed.                                                                 *)
(*                                                                         *)
(* Batch and the streamer close their connection and wait for the child.   *)
(* Fork leaves its connection in the table, for a Stop that may never      *)
(* come, and a spawned program may run for ever.                           *)
(***************************************************************************)
EXTENDS Naturals, FiniteSets

CONSTANTS Closers,  \* the handlers of Batch and of the streamer that fork
          Keepers,  \* those of Fork
          Spawns,   \* those of Spawn; each handler starts at most one child
          Parent,   \* the process the handlers run in
          MaxCalls  \* bound: how many of the handlers are called

Forks    == Closers \cup Keepers
Handlers == Forks \cup Spawns

ASSUME ParentAssumption == Parent \notin Handlers
ASSUME KindsAssumption  == /\ Closers \cap Keepers = {}
                           /\ Forks \cap Spawns = {}

Processes  == Handlers \cup {Parent}
ParentEnds == Forks \X {"fds0"}
ChildEnds  == Forks \X {"fds1"}
Ends       == ParentEnds \cup ChildEnds

VARIABLES
    pc,       \* where each handler is
    holds,    \* the ends each process has a descriptor of
    cloexec,  \* the ends whose descriptor in Parent is close-on-exec
    child,    \* unborn, serving or dead
    doomed,   \* children sent a SIGKILL
    born,     \* history: the place of the child in the order of the forks
    forked    \* history: how many forks there were

vars == <<pc, holds, cloexec, child, doomed, born, forked>>

Fds0(f) == <<f, "fds0">>
Fds1(f) == <<f, "fds1">>

TypeOK ==
    /\ pc \in [Handlers -> {"start", "paired", "marked", "forked", "noChild",
                         "parted", "connected", "returned"}]
    /\ holds \in [Processes -> SUBSET Ends]
    /\ cloexec \in SUBSET ParentEnds
    /\ child \in [Handlers -> {"unborn", "serving", "dead"}]
    /\ doomed \in SUBSET Forks
    /\ born \in [Handlers -> Nat]
    /\ forked \in Nat

Init ==
    /\ pc = [f \in Handlers |-> "start"]
    /\ holds = [p \in Processes |-> {}]
    /\ cloexec = {}
    /\ child = [f \in Handlers |-> "unborn"]
    /\ doomed = {}
    /\ born = [f \in Handlers |-> 0]
    /\ forked = 0

Goto(f, from, to) ==
    /\ pc[f] = from
    /\ pc' = [pc EXCEPT ![f] = to]

\* A call reaches its handler.
Called(f, to) == Goto(f, "start", to) /\ Cardinality({g \in Handlers : pc[g] # "start"}) < MaxCalls

Drop(S) == holds' = [holds EXCEPT ![Parent] = @ \ S]

-----------------------------------------------------------------------------
Socketpair(f) ==
    /\ Called(f, "paired")
    /\ holds' = [holds EXCEPT ![Parent] = @ \cup {Fds0(f), Fds1(f)}]
    /\ UNCHANGED <<cloexec, child, doomed, born, forked>>

\* socketpair(2) fails: nothing was made.
SocketpairFails(f) ==
    /\ Called(f, "returned")
    /\ UNCHANGED <<holds, cloexec, child, doomed, born, forked>>

\* Mutant: the pair is used as it came, with no close-on-exec.
CloseOnExecSkipped(f) ==
    /\ Goto(f, "paired", "marked")
    /\ UNCHANGED <<holds, cloexec, child, doomed, born, forked>>

\* Mutant: the wrong end of the pair is marked.
CloseOnExecWrongEnd(f) ==
    /\ Goto(f, "paired", "marked")
    /\ cloexec' = cloexec \cup {Fds1(f)}
    /\ UNCHANGED <<holds, child, doomed, born, forked>>

CloseOnExec(f) ==
    /\ Goto(f, "paired", "marked")
    /\ cloexec' = cloexec \cup {Fds0(f)}
    /\ UNCHANGED <<holds, child, doomed, born, forked>>

\* A child of f, with these descriptors and whatever else is not close-on-exec.
Begets(f, ends) ==
    /\ holds' = [holds EXCEPT ![f] = ends \cup (holds[Parent] \ cloexec)]
    /\ child' = [child EXCEPT ![f] = "serving"]
    /\ born' = [born EXCEPT ![f] = forked]
    /\ forked' = forked + 1
    /\ UNCHANGED <<cloexec, doomed>>

\* The child gets fds[1] as its fd 3.  ForkExec calls exclude each other
\* (syscall.ForkLock); Socketpair does not.
ForkExec(f) == Goto(f, "marked", "forked") /\ Begets(f, {Fds1(f)})

ForkExecFails(f) ==
    /\ Goto(f, "marked", "noChild")
    /\ UNCHANGED <<holds, cloexec, child, doomed, born, forked>>

\* Mutant: fds[1] stays open in the parent.
CloseChildEndSkipped(f) ==
    /\ \/ Goto(f, "forked", "parted")
       \/ Goto(f, "noChild", "returned")
    /\ UNCHANGED <<holds, cloexec, child, doomed, born, forked>>

\* "Close the child's end in the parent regardless", and fds[0] if there is no child.
CloseChildEnd(f) ==
    /\ \/ /\ Goto(f, "forked", "parted")
          /\ Drop({Fds1(f)})
          /\ UNCHANGED cloexec
       \/ /\ Goto(f, "noChild", "returned")
          /\ Drop({Fds0(f), Fds1(f)})
          /\ cloexec' = cloexec \ {Fds0(f)}
    /\ UNCHANGED <<child, doomed, born, forked>>

\* net.FileConn and grpc.NewClient: the conn is another descriptor of the same end,
\* close-on-exec too, and the first is closed.
Connect(f) ==
    /\ Goto(f, "parted", "connected")
    /\ UNCHANGED <<holds, cloexec, child, doomed, born, forked>>

Disconnect(f) ==
    /\ Goto(f, "connected", "returned")
    /\ Drop({Fds0(f)})
    /\ cloexec' = cloexec \ {Fds0(f)}
    /\ UNCHANGED <<child, doomed, born, forked>>

\* The handler is done with the conn: cleanup, and Batch before waitForPid.
CloseConn(f) == f \in Closers /\ Disconnect(f)

\* Fork has returned, with the conn in the table: a Stop of its pid takes it out.
StopCloses(f) == f \in Keepers /\ Disconnect(f)

\* FileConn or NewClient fails: the end is closed, the child killed.
ConnectFails(f) ==
    /\ Goto(f, "parted", "returned")
    /\ Drop({Fds0(f)})
    /\ cloexec' = cloexec \ {Fds0(f)}
    /\ doomed' = doomed \cup {f}
    /\ UNCHANGED <<child, born, forked>>

\* cmd.Start, and the handler returns; so does any other exec.Command of the process.
Spawn(s) == Called(s, "returned") /\ Begets(s, {})

\* An empty path, or Start fails: no child.
SpawnFails(s) ==
    /\ Called(s, "returned")
    /\ UNCHANGED <<holds, cloexec, child, doomed, born, forked>>

-----------------------------------------------------------------------------
(* The child: it serves fd 3 until exitOnClose.Read returns an error.      *)
(* A spawned program knows nothing of the descriptors it has inherited.    *)

Eof(f) == \A p \in Processes : Fds0(f) \notin holds[p]

\* The kernel closes every descriptor of a process that ends.
EndOfChild(f) ==
    /\ child[f] = "serving"
    /\ child' = [child EXCEPT ![f] = "dead"]
    /\ holds' = [holds EXCEPT ![f] = {}]
    /\ UNCHANGED <<pc, cloexec, doomed, born, forked>>

ChildExit(f)  == f \in Forks /\ (Eof(f) \/ f \in doomed) /\ EndOfChild(f)

\* It crashes, is stopped, or comes to its end.
ChildDies(f) == EndOfChild(f)

-----------------------------------------------------------------------------
Handler(f) == \/ /\ f \in Forks
                 /\ \/ Socketpair(f) \/ SocketpairFails(f) \/ CloseOnExec(f)
                    \/ ForkExec(f) \/ ForkExecFails(f) \/ CloseChildEnd(f)
                    \/ Connect(f) \/ ConnectFails(f)
              \/ f \in Spawns /\ (Spawn(f) \/ SpawnFails(f))

Next == \E f \in Handlers :
            Handler(f) \/ CloseConn(f) \/ StopCloses(f) \/ ChildExit(f) \/ ChildDies(f)

\* Handlers are goroutines the scheduler runs, and a Batch or a level of a pipeline is
\* done in the end (modules Batch and Pipeline say when); nobody has to stop what Fork
\* or Spawn has started.  A child that reads EOF, or was killed, exits.
Fairness == /\ \A f \in Handlers : WF_vars(Handler(f)) /\ WF_vars(ChildExit(f))
            /\ \A f \in Closers : WF_vars(CloseConn(f))

Spec == Init /\ [][Next]_vars /\ Fairness

-----------------------------------------------------------------------------
(* Properties.  A pair is not private to parent and child: a handler that  *)
(* forks while another is half-way gives its child copies of that pair.    *)

\* A child that inherited the parent's end of another child's pair was forked before
\* that child.  So the children never wait for each other's exit in a circle: the
\* mark comes after Socketpair, outside ForkLock, but before the handler's own fork.
InheritsOnlyFromLater ==
    \A f \in Forks, g \in Handlers :
        Fds0(f) \in holds[g] => child[f] = "unborn" \/ born[g] < born[f]

\* Every path out of a fork handler, errors included, leaves the parent no
\* descriptor of the pair; a handler that holds a conn holds fds[0] alone.
ParentLeaksNothing ==
    \A f \in Forks :
        /\ pc[f] = "returned" => {Fds0(f), Fds1(f)} \cap holds[Parent] = {}
        /\ pc[f] = "connected" => {Fds0(f), Fds1(f)} \cap holds[Parent] = {Fds0(f)}

Holders(f) == {p \in Processes : Fds0(f) \in holds[p]}

\* No child of Fork or Spawn is among those that hold f's end, those that hold theirs,
\* and so on: it would hold them back for as long as it lives.
Freed(f) == \E S \in SUBSET Closers : f \in S /\ \A g \in S : Holders(g) \subseteq S \cup {Parent}

\* When a Batch or a level has closed its conn the child exits, even if siblings hold
\* copies of that end for a while: cleanup and waitForPid do not block for ever.  The
\* exception is in the code: a Fork or Spawn between Socketpair and CloseOnExec
\* (batch.go:168-172), whose child keeps the copy, so that its owner blocks for longer
\* than "until the parent closes the socketpair" (runner-cli/main.go:30).
ChildExits == \A f \in Closers : pc[f] = "returned" /\ Freed(f) ~> child[f] # "serving"
=============================================================================
