---------------------------- MODULE RunnerTable ----------------------------
(***************************************************************************)
(* The process table of runner/runner.go: Fork and Spawn start a process,  *)
(* track it under its pid and start a goroutine that waits for it; Stop    *)
(* looks a pid up, signals the process, waits for its `done' channel and   *)
(* removes the entry.  The table is keyed by the pid, and the kernel may   *)
(* hand a pid out again as soon as the process that had it was reaped, so  *)
(* every Stop races the kernel as well as the other Stops.                 *)
(*                                                                         *)
(* A process is a member of Procs and is never reused; its pid may be.     *)
(* The kernel's part (which pid a new process gets, when a process exits)  *)
(* is external: it is modelled from what the code relies on.               *)
(***************************************************************************)
EXTENDS Naturals, FiniteSets

CONSTANTS Procs,  \* the processes the runner starts in its life
          Pids,   \* the pids the kernel hands out
          Calls,  \* the executions of the Stop handler
          None    \* Go's nil, and the empty process_id

ASSUME NoneAssumption == None \notin Procs \cup Pids

VARIABLES
    os,      \* kernel: unborn, running, zombie or reaped
    pid,     \* kernel: the pid the process was given
    killed,  \* kernel: processes with a SIGKILL pending
    kind,    \* tp.cmd: "spawn" when it is set, "fork" when it is nil
    conn,    \* tp.conn: the parent's end of the socketpair
    waiter,  \* the goroutine that waits for the process, and tp.done
    procs,   \* runnerServer.procs
    pc, req, force, tp, reply,  \* the Stop handler's locals
    hit      \* the processes a Stop's signals were delivered to

osVars   == <<os, pid, killed>>
procVars == <<kind, conn, waiter>>
stopVars == <<pc, req, force, tp, reply, hit>>
vars     == <<os, pid, killed, kind, conn, waiter, procs,
              pc, req, force, tp, reply, hit>>

Replies == {"notfound", "invalid", "internal", "exitcode", "minusone"}
Succeeded(c) == pc[c] = "returned" /\ reply[c] \in {"exitcode", "minusone"}

TypeOK ==
    /\ os \in [Procs -> {"unborn", "running", "zombie", "reaped"}]
    /\ pid \in [Procs -> Pids \cup {None}]
    /\ killed \in SUBSET Procs
    /\ kind \in [Procs -> {"fork", "spawn", "unset"}]
    /\ conn \in [Procs -> {"none", "open", "closed"}]
    /\ waiter \in [Procs -> {"idle", "untracked", "abandoned",
                             "waiting", "woken", "done"}]
    /\ procs \in [Pids -> Procs \cup {None}]
    /\ pc \in [Calls -> {"idle", "check", "signal", "wait", "kill",
                         "drain", "remove", "returned"}]
    /\ req \in [Calls -> Pids \cup {None}]
    /\ force \in [Calls -> BOOLEAN]
    /\ tp \in [Calls -> Procs \cup {None}]
    /\ reply \in [Calls -> Replies \cup {None}]
    /\ hit \in [Calls -> SUBSET Procs]

Init ==
    /\ os = [p \in Procs |-> "unborn"]
    /\ pid = [p \in Procs |-> None]
    /\ killed = {}
    /\ kind = [p \in Procs |-> "unset"]
    /\ conn = [p \in Procs |-> "none"]
    /\ waiter = [p \in Procs |-> "idle"]
    /\ procs = [i \in Pids |-> None]
    /\ pc = [c \in Calls |-> "idle"]
    /\ req = [c \in Calls |-> None]
    /\ force = [c \in Calls |-> FALSE]
    /\ tp = [c \in Calls |-> None]
    /\ reply = [c \in Calls |-> None]
    /\ hit = [c \in Calls |-> {}]

-----------------------------------------------------------------------------
(* The kernel.                                                             *)

\* A pid belongs to a process until the process is reaped, not until it exits.
Holds(p, i) == os[p] \in {"running", "zombie"} /\ pid[p] = i

Exit(p) ==
    /\ os[p] = "running"
    /\ os' = [os EXCEPT ![p] = "zombie"]
    /\ UNCHANGED <<pid, killed, procVars, procs, stopVars>>

\* SIGTERM may be caught or ignored: it forces nothing, so only SIGKILL is kept.
Deliver(sig, targets) ==
    killed' = IF sig = "KILL"
              THEN killed \cup {p \in targets : os[p] = "running"}
              ELSE killed

-----------------------------------------------------------------------------
(* Fork and Spawn.                                                         *)

\* ForkExec, or exec.Cmd.Start: from here on the process can exit, but nobody
\* waits for it before it is tracked.
Start(p, k) ==
    /\ os[p] = "unborn"
    /\ \E i \in Pids :
          /\ \A q \in Procs : ~Holds(q, i)
          /\ pid' = [pid EXCEPT ![p] = i]
    /\ os' = [os EXCEPT ![p] = "running"]
    /\ kind' = [kind EXCEPT ![p] = k]
    /\ waiter' = [waiter EXCEPT ![p] = "untracked"]
    /\ UNCHANGED <<killed, conn, procs, stopVars>>

\* net.FileConn fails: the child is killed, and neither tracked nor waited for.
AbandonFork(p) ==
    /\ waiter[p] = "untracked"
    /\ kind[p] = "fork"
    /\ waiter' = [waiter EXCEPT ![p] = "abandoned"]
    /\ Deliver("KILL", {p})
    /\ UNCHANGED <<os, pid, kind, conn, procs, stopVars>>

\* Mutant: track keeps the entry it finds under the pid.
TrackKeepsOld(p) ==
    /\ waiter[p] = "untracked"
    /\ waiter' = [waiter EXCEPT ![p] = "waiting"]
    /\ procs' = IF procs[pid[p]] = None
                THEN [procs EXCEPT ![pid[p]] = p] ELSE procs
    /\ conn' = [conn EXCEPT ![p] = IF kind[p] = "fork" THEN "open" ELSE "none"]
    /\ UNCHANGED <<osVars, kind, stopVars>>

\* track, and the go statement after it.  An entry with this pid is overwritten.
Track(p) ==
    /\ waiter[p] = "untracked"
    /\ waiter' = [waiter EXCEPT ![p] = "waiting"]
    /\ procs' = [procs EXCEPT ![pid[p]] = p]
    /\ conn' = [conn EXCEPT ![p] = IF kind[p] = "fork" THEN "open" ELSE "none"]
    /\ UNCHANGED <<osVars, kind, stopVars>>

-----------------------------------------------------------------------------
(* The goroutine that waits for a process: waitPid for a forked one, the   *)
(* function literal in Spawn for a spawned one.                            *)

Reap(p) ==
    /\ waiter[p] = "waiting"
    /\ os[p] = "zombie"
    /\ os' = [os EXCEPT ![p] = "reaped"]
    /\ waiter' = [waiter EXCEPT ![p] = "woken"]
    /\ UNCHANGED <<pid, killed, kind, conn, procs, stopVars>>

CloseDone(p) ==
    /\ waiter[p] = "woken"
    /\ waiter' = [waiter EXCEPT ![p] = "done"]
    /\ UNCHANGED <<osVars, kind, conn, procs, stopVars>>

Done(p) == waiter[p] = "done"

-----------------------------------------------------------------------------
(* Stop.                                                                   *)

\* Mutant: spawned processes are signalled by pid too.
SignalTargetsByPid(p) == {q \in Procs : Holds(q, pid[p])}

\* exec.Cmd knows its child even after the pid went to somebody else; a forked
\* process is signalled by pid, whoever holds that pid now.
SignalTargets(p) ==
    {q \in Procs : Holds(q, pid[p]) /\ (kind[p] = "spawn" => q = p)}

\* -1 unless ProcessState is set.  cmd.Wait stores it between reaping the child
\* and the close of done; a Stop that did not wait for done may read it early.
ExitCodes(p) ==
    {x \in {"exitcode", "minusone"} :
        /\ x = "exitcode" => kind[p] = "spawn" /\ os[p] = "reaped"
        /\ x = "minusone" => ~(kind[p] = "spawn" /\ Done(p))}

\* The checks of the request and the look-up under mu.  A refused request leaves
\* no locals behind.
StopRefuse(c, id) ==
    /\ pc[c] = "idle"
    /\ \/ id = None /\ reply' = [reply EXCEPT ![c] = "invalid"]
       \/ id # None /\ procs[id] = None /\ reply' = [reply EXCEPT ![c] = "notfound"]
    /\ pc' = [pc EXCEPT ![c] = "returned"]
    /\ UNCHANGED <<osVars, procVars, procs, req, force, tp, hit>>

StopLookup(c, id, f) ==
    /\ pc[c] = "idle"
    /\ id # None
    /\ procs[id] # None
    /\ req' = [req EXCEPT ![c] = id]
    /\ force' = [force EXCEPT ![c] = f]
    /\ tp' = [tp EXCEPT ![c] = procs[id]]
    /\ pc' = [pc EXCEPT ![c] = "check"]
    /\ UNCHANGED <<osVars, procVars, procs, reply, hit>>

\* done is closed, so the handler leaves its select and reads the exit code.
FinishWhen(c, cond) ==
    /\ cond
    /\ pc' = [pc EXCEPT ![c] = "remove"]
    /\ \E x \in ExitCodes(tp[c]) : reply' = [reply EXCEPT ![c] = x]
    /\ UNCHANGED <<osVars, procVars, procs, req, force, tp, hit>>

Goto(c, label) ==
    /\ pc' = [pc EXCEPT ![c] = label]
    /\ UNCHANGED <<osVars, procVars, procs, req, force, tp, reply, hit>>

\* "Already exited?"
StopCheck(c) ==
    /\ pc[c] = "check"
    /\ \/ FinishWhen(c, Done(tp[c]))
       \/ ~Done(tp[c]) /\ Goto(c, "signal")

StopSignal(c) ==
    LET targets == SignalTargets(tp[c]) IN
    /\ pc[c] = "signal"
    /\ Deliver(IF force[c] THEN "KILL" ELSE "TERM", targets)
    /\ hit' = [hit EXCEPT ![c] = @ \cup targets]
    /\ \/ /\ targets = {}      \* ESRCH, or os.ErrProcessDone
          /\ pc' = [pc EXCEPT ![c] = "returned"]
          /\ reply' = [reply EXCEPT ![c] = "internal"]
       \/ /\ targets # {}
          /\ pc' = [pc EXCEPT ![c] = "wait"]
          /\ UNCHANGED reply
    /\ UNCHANGED <<os, pid, procVars, procs, req, force, tp>>

\* Mutant: no Stop escalates.
StopTimeoutAlwaysGivesUp(c) ==
    /\ pc[c] = "wait"
    /\ FinishWhen(c, TRUE)

\* The timer fires first.  A forced Stop gives up waiting, another escalates.
StopTimeout(c) ==
    /\ pc[c] = "wait"
    /\ \/ FinishWhen(c, force[c])
       \/ ~force[c] /\ Goto(c, "kill")

\* Mutant: waits on after the timeout without the SIGKILL.
StopKillSkipped(c) ==
    /\ pc[c] = "kill"
    /\ Goto(c, "drain")

StopKill(c) ==
    LET targets == SignalTargets(tp[c]) IN
    /\ pc[c] = "kill"
    /\ Deliver("KILL", targets)
    /\ hit' = [hit EXCEPT ![c] = @ \cup targets]
    /\ pc' = [pc EXCEPT ![c] = "drain"]
    /\ UNCHANGED <<os, pid, procVars, procs, req, force, tp, reply>>

StopAwaitDone(c) ==
    /\ pc[c] \in {"wait", "drain"}
    /\ FinishWhen(c, Done(tp[c]))

\* Mutant: the entry goes, its conn stays open.
StopRemoveKeepsConn(c) ==
    /\ pc[c] = "remove"
    /\ procs' = [procs EXCEPT ![req[c]] = None]
    /\ pc' = [pc EXCEPT ![c] = "returned"]
    /\ UNCHANGED <<osVars, procVars, req, force, tp, reply, hit>>

\* remove(id): whatever the table holds under the pid by now goes, its conn too.
StopRemove(c) ==
    LET entry == procs[req[c]] IN
    /\ pc[c] = "remove"
    /\ procs' = [procs EXCEPT ![req[c]] = None]
    /\ conn' = [p \in Procs |->
                   IF p = entry /\ conn[p] = "open" THEN "closed" ELSE conn[p]]
    /\ pc' = [pc EXCEPT ![c] = "returned"]
    /\ UNCHANGED <<osVars, kind, waiter, req, force, tp, reply, hit>>

-----------------------------------------------------------------------------
\* ConnForPid, for a caller that has the pid from Fork: the process whose conn it is
\* handed, or None.
ConnForPid(i) ==
    IF procs[i] # None /\ conn[procs[i]] # "none" THEN procs[i] ELSE None

StartAny(p)   == \E k \in {"fork", "spawn"} : Start(p, k)
StopAny(c)    == \E id \in Pids \cup {None} :
                    StopRefuse(c, id) \/ \E f \in BOOLEAN : StopLookup(c, id, f)
StopStep(c)   == \/ StopCheck(c) \/ StopSignal(c) \/ StopTimeout(c)
                 \/ StopKill(c) \/ StopAwaitDone(c) \/ StopRemove(c)
ProcStep(p)   == StartAny(p) \/ AbandonFork(p) \/ Track(p)
                 \/ Exit(p) \/ Reap(p) \/ CloseDone(p)

Next == \/ \E p \in Procs : ProcStep(p)
        \/ \E c \in Calls : StopAny(c) \/ StopStep(c)

\* Handlers and waiters are goroutines the Go scheduler runs; a timer fires; a
\* killed process dies.  A process that was only asked to exit may never exit,
\* and nobody has to call Stop.
Fairness ==
    /\ \A p \in Procs : /\ WF_vars(Exit(p) /\ p \in killed)
                        /\ WF_vars(Track(p))
                        /\ WF_vars(Reap(p))
                        /\ WF_vars(CloseDone(p))
    /\ \A c \in Calls : WF_vars(StopStep(c))

Spec == Init /\ [][Next]_vars /\ Fairness

-----------------------------------------------------------------------------
(* Properties.                                                             *)

\* A Stop that was not forced reports success only once the process it looked
\* up is dead and reaped, however the exit, the timer and other Stops interleave.
GracefulStopMeansReaped ==
    \A c \in Calls : Succeeded(c) /\ ~force[c] => os[tp[c]] = "reaped"

\* The parent's end of a live child's socketpair is never dropped: an open
\* conn the table no longer leads to belongs to a process that was reaped.
NoLiveConnLeaked ==
    \A p \in Procs : conn[p] = "open" /\ procs[pid[p]] # p => os[p] = "reaped"

\* A tracked process that still holds its pid is in the table, unless a Stop of
\* that pid took it out: a forced one, or one that had looked up an earlier
\* process with the same pid.  Overwriting an entry never loses a live process.
LostOnlyToStop ==
    \A p \in Procs :
        waiter[p] = "waiting" /\ procs[pid[p]] # p =>
            \E c \in Calls : /\ Succeeded(c) /\ req[c] = pid[p]
                             /\ force[c] \/ tp[c] # p

\* A signal reaches a process other than the one Stop looked up only if that one
\* was forked and its waiter has already reaped it (the pid was recycled).
MisdirectedOnlyAfterReap ==
    \A c \in Calls : \A p \in hit[c] \ {tp[c]} :
        kind[tp[c]] = "fork" /\ os[tp[c]] = "reaped"

\* ConnForPid never hands out a conn that remove has closed, and as long as a process is
\* waited for, its pid leads to no other process's conn (runner/runner.go:111-121).
ConnIsOwn ==
    \A i \in Pids : LET q == ConnForPid(i) IN
        q # None => /\ conn[q] = "open"
                    /\ \A p \in Procs : waiter[p] = "waiting" /\ pid[p] = i => q = p

\* Every Stop returns, whatever the process does with its SIGTERM: the timer
\* and the SIGKILL see to it.
StopReturns == \A c \in Calls : pc[c] = "check" ~> pc[c] = "returned"
=============================================================================
