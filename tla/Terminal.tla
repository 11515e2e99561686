------------------------------ MODULE Terminal ------------------------------
(***************************************************************************)
(* A program on a pseudo-terminal (pty/pty.go, pty/pty_linux.go): Start,   *)
(* the goroutine that reaps the child, Proxy with its two copies and its   *)
(* SIGWINCH goroutine, and Close and Resize, which others may call at any  *)
(* time.  (Signal only passes a signal on to the child.)                   *)
(*                                                                         *)
(* The calls of Fd() in Open put the master into blocking mode: Close does *)
(* not interrupt a read, and the descriptor stays until the read returns.  *)
(* A copy's read and write are one step.                                   *)
(***************************************************************************)
EXTENDS Naturals

CONSTANTS MaxOutput,  \* bound: what the child writes, in chunks
          MaxKeys,    \* bound: the keys pressed
          MaxSizes    \* bound: the sizes the outer terminal takes

ASSUME TerminalAssumption == {MaxOutput, MaxKeys, MaxSizes} \subseteq Nat

VARIABLES
    proxy,     \* Start and Proxy: idle, open, slave, fork, started, nudge, show, await,
               \* returned, failed (Start), refused (Proxy)
    master,    \* its descriptor: none, open, closing (a read still has it), closed
    slave,     \* whether Start has the slave open
    child,     \* none, running, zombie, reaped
    deaf,      \* the child ignores SIGHUP
    hup,       \* it has been sent one
    heir,      \* a process the child left behind has the terminal open
    waiter,    \* the goroutine wait: none, waiting, reaped, done
    written, shown,        \* chunks of output
    outCopy,   \* master to stdout: none, enter, read, ended
    outBroken, \* history: stdout has refused a write
    keys, typed, eaten,    \* keys that wait, that went through, that got lost
    keyCopy,   \* stdin to master: none, read, ended
    outer, size,           \* the outer terminal's size, and the pty's
    sigCh,     \* the signals in sigCh, of capacity 1
    held,      \* the size the SIGWINCH goroutine is about to set, or NoSize
    resized    \* somebody called Resize

startVars == <<proxy, master, slave>>
childVars == <<child, deaf, hup, heir, waiter>>
copyVars  == <<written, shown, outCopy, outBroken, keys, typed, eaten, keyCopy>>
sizeVars  == <<outer, size, sigCh, held, resized>>
terminalVars == <<proxy, master, slave, child, deaf, hup, heir, waiter,
                  written, shown, outCopy, outBroken, keys, typed, eaten, keyCopy,
                  outer, size, sigCh, held, resized>>

NoSize == MaxSizes + 1

TerminalTypeOK ==
    /\ proxy \in {"idle", "open", "slave", "fork", "started", "nudge", "show", "await",
                  "returned", "failed", "refused"}
    /\ master \in {"none", "open", "closing", "closed"}
    /\ {slave, deaf, hup, heir, outBroken, resized} \subseteq BOOLEAN
    /\ child \in {"none", "running", "zombie", "reaped"}
    /\ waiter \in {"none", "waiting", "reaped", "done"}
    /\ written \in 0..MaxOutput /\ shown \in 0..written
    /\ outCopy \in {"none", "enter", "read", "ended"} /\ keyCopy \in {"none", "read", "ended"}
    /\ keys + typed + eaten \in 0..MaxKeys
    /\ {outer, size} \subseteq 0..MaxSizes /\ sigCh \in 0..1 /\ held \in 0..NoSize

TerminalBegins(at) ==
    /\ proxy = at /\ master = "none" /\ slave = FALSE
    /\ child = "none" /\ hup = FALSE /\ heir = FALSE /\ waiter = "none"
    /\ written = 0 /\ shown = 0 /\ outCopy = "none" /\ outBroken = FALSE
    /\ keys = 0 /\ typed = 0 /\ eaten = 0 /\ keyCopy = "none"
    /\ outer = 0 /\ size = 0 /\ sigCh = 0 /\ held = NoSize /\ resized = FALSE

TerminalInit == TerminalBegins("open") /\ deaf \in BOOLEAN
TerminalIdle == TerminalBegins("idle") /\ deaf = FALSE

-----------------------------------------------------------------------------
(* Start and StartWithFd, which only passes more descriptors on.           *)

\* TIOCGWINSZ on stdin, and TIOCSWINSZ: it works for as long as there is a descriptor.
GetSize == outer
SetSize(ws) == size' = IF master \in {"open", "closing"} THEN ws ELSE size

\* Open: /dev/ptmx, its lock, its name; it closes what it has opened when one fails.
Open == /\ proxy = "open"
        /\ \/ proxy' = "slave" /\ master' = "open"
           \/ proxy' = "failed" /\ UNCHANGED master
        /\ UNCHANGED <<slave, childVars, copyVars, sizeVars>>

\* The slave, and the outer terminal's size on it.
OpenSlave == /\ proxy = "slave"
             /\ \/ proxy' = "fork" /\ slave' = TRUE /\ SetSize(GetSize) /\ UNCHANGED master
                \/ proxy' = "failed" /\ master' = "closed" /\ UNCHANGED <<slave, size>>
             /\ UNCHANGED <<childVars, copyVars, outer, sigCh, held, resized>>

\* Mutant: the parent keeps the slave.
ForkExecKeepingSlave ==
    /\ proxy = "fork" /\ slave' = slave
    /\ \/ proxy' = "started" /\ child' = "running" /\ waiter' = "waiting" /\ UNCHANGED master
       \/ proxy' = "failed" /\ master' = "closed" /\ UNCHANGED <<child, waiter>>
    /\ UNCHANGED <<deaf, hup, heir, copyVars, sizeVars>>

\* The child has the slave as descriptors 0 to 2; "parent must close slave or EOF won't
\* work", and it does on both ways out.
ForkExec ==
    /\ proxy = "fork" /\ slave' = FALSE
    /\ \/ proxy' = "started" /\ child' = "running" /\ waiter' = "waiting" /\ UNCHANGED master
       \/ proxy' = "failed" /\ master' = "closed" /\ UNCHANGED <<child, waiter>>
    /\ UNCHANGED <<deaf, hup, heir, copyVars, sizeVars>>

-----------------------------------------------------------------------------
(* The child (external), and wait.                                         *)

OnTerminal == child = "running" \/ heir \/ slave

ChildWrites == /\ child = "running" \/ heir
               /\ master \in {"open", "closing"} /\ written < MaxOutput
               /\ written' = written + 1
               /\ UNCHANGED <<startVars, childVars, shown, outCopy, outBroken, keys, typed, eaten,
                              keyCopy, sizeVars>>

ChildEnds == /\ child = "running" /\ child' = "zombie" /\ heir' \in BOOLEAN
             /\ UNCHANGED <<startVars, deaf, hup, waiter, copyVars,
                            sizeVars>>

\* Hung up: by Close, or by the kernel when the master is gone.
HungUp == (hup \/ master = "closed") /\ ~deaf /\ ChildEnds

HeirEnds == /\ heir /\ heir' = FALSE
            /\ UNCHANGED <<startVars, child, deaf, hup, waiter, copyVars,
                           sizeVars>>

\* Wait4, and close(p.done).
Wait == /\ \/ waiter = "waiting" /\ child = "zombie" /\ child' = "reaped" /\ waiter' = "reaped"
           \/ waiter = "reaped" /\ waiter' = "done" /\ UNCHANGED child
        /\ UNCHANGED <<startVars, deaf, hup, heir, copyVars, sizeVars>>

-----------------------------------------------------------------------------
(* Close and Resize.                                                       *)

Started == proxy \in {"started", "nudge", "show", "await", "returned", "refused"}

\* Once: SIGHUP, to whoever has the pid, and the master; a read under way keeps the
\* descriptor.
Close ==
    /\ Started /\ master = "open"
    /\ hup' = (child = "running")
    /\ master' = IF outCopy = "read" THEN "closing" ELSE "closed"
    /\ UNCHANGED <<proxy, slave, child, deaf, heir, waiter, copyVars, sizeVars>>

\* A size of the caller's own (here 0; bound: once).
Resize == /\ Started /\ ~resized /\ resized' = TRUE /\ SetSize(0)
          /\ UNCHANGED <<startVars, childVars, copyVars, outer, sigCh, held>>

-----------------------------------------------------------------------------
(* Proxy.                                                                  *)

\* Raw mode, signal.Notify, the SIGWINCH goroutine.  No terminal: no Proxy.
ProxyBegins ==
    /\ proxy = "started"
    /\ proxy' \in {"nudge", "refused"}
    /\ UNCHANGED <<master, slave, childVars, copyVars, sizeVars>>

\* Mutant: the size is left to the next SIGWINCH.
NudgeNothing == /\ proxy = "nudge" /\ proxy' = "show"
                /\ outCopy' = "enter" /\ keyCopy' = "read"
                /\ UNCHANGED <<master, slave, childVars, written, shown, outBroken, keys, typed, eaten,
                               sizeVars>>

\* sigCh <- SIGWINCH, which waits for room, and the two copies.
Nudge == /\ proxy = "nudge" /\ sigCh = 0 /\ proxy' = "show" /\ sigCh' = 1
         /\ outCopy' = "enter" /\ keyCopy' = "read"
         /\ UNCHANGED <<master, slave, childVars, written, shown, outBroken, keys, typed, eaten,
                        outer, size, held, resized>>

\* What happens on the outer terminal after Proxy is nobody's concern here.
UsesTerminal == proxy \in {"started", "nudge", "show", "await"}
Notified == proxy \in {"nudge", "show", "await"}

\* Mutant: sigCh has no bound.
OuterResizedUnbounded ==
    /\ UsesTerminal /\ outer < MaxSizes /\ outer' = outer + 1
    /\ sigCh' = IF Notified THEN sigCh + 1 ELSE sigCh
    /\ UNCHANGED <<startVars, childVars, copyVars, size, held, resized>>

\* A signal that finds sigCh full is dropped.
OuterResized == /\ UsesTerminal /\ outer < MaxSizes /\ outer' = outer + 1
                /\ sigCh' = IF Notified THEN 1 ELSE sigCh
                /\ UNCHANGED <<startVars, childVars, copyVars, size, held, resized>>

\* The goroutine reads the outer size and sets the pty's; it outlives Proxy.
Winch == /\ \/ sigCh = 1 /\ held = NoSize /\ sigCh' = 0 /\ held' = GetSize /\ UNCHANGED size
            \/ /\ held # NoSize /\ held' = NoSize
               /\ SetSize(held)
               /\ UNCHANGED sigCh
         /\ UNCHANGED <<startVars, childVars, copyVars, outer, resized>>

LeavesMaster == master' = IF master = "closing" THEN "closed" ELSE master

\* master to stdout: a closed file is refused at the next read.
EnterRead == /\ outCopy = "enter"
             /\ outCopy' = IF master = "open" THEN "read" ELSE "ended"
             /\ UNCHANGED <<startVars, childVars, written, shown, outBroken, keys, typed, eaten, keyCopy,
                            sizeVars>>

Show == /\ outCopy = "read" /\ shown < written
        /\ shown' = shown + 1 /\ outCopy' = "enter" /\ LeavesMaster
        /\ UNCHANGED <<proxy, slave, childVars, written, outBroken, keys, typed, eaten, keyCopy,
                       sizeVars>>

\* Mutant: the copy stops when the child is done.
ShowEndsAtDone == /\ outCopy = "read" /\ waiter = "done"
                  /\ outCopy' = "ended" /\ LeavesMaster
                  /\ UNCHANGED <<proxy, slave, childVars, written, shown, outBroken, keys, typed,
                                 eaten, keyCopy, sizeVars>>

\* EIO: nobody has the terminal open, and its output is read.
ShowEnds == /\ outCopy = "read" /\ ~OnTerminal /\ shown = written
            /\ outCopy' = "ended" /\ LeavesMaster
            /\ UNCHANGED <<proxy, slave, childVars, written, shown, outBroken, keys, typed, eaten,
                           keyCopy, sizeVars>>

\* io.Copy ends as well when stdout refuses what it has read, and Proxy ignores its error:
\* the chunk is lost, and the child goes on.
ShowFails == /\ outCopy = "read" /\ shown < written
             /\ outCopy' = "ended" /\ outBroken' = TRUE /\ LeavesMaster
             /\ UNCHANGED <<proxy, slave, childVars, written, shown, keys, typed, eaten,
                            keyCopy, sizeVars>>

Press == /\ UsesTerminal /\ keys + typed + eaten < MaxKeys /\ keys' = keys + 1
         /\ UNCHANGED <<startVars, childVars, written, shown, outCopy, outBroken, typed, eaten, keyCopy,
                        sizeVars>>

\* stdin to master: one read takes the keys there are; without a terminal to write them
\* to they are lost, and only then the copy ends.
CopyKeys == /\ keyCopy = "read" /\ keys > 0 /\ keys' = 0
            /\ IF master = "open" /\ OnTerminal
               THEN typed' = typed + keys /\ UNCHANGED <<eaten, keyCopy>>
               ELSE eaten' = eaten + keys /\ keyCopy' = "ended" /\ UNCHANGED typed
            /\ UNCHANGED <<startVars, childVars, written, shown, outCopy, outBroken, sizeVars>>

\* The copy to stdout is over: wg.Wait; then the deferred Stop and Restore.
ProxyAwaits == /\ proxy = "show" /\ outCopy = "ended" /\ proxy' = "await"
               /\ UNCHANGED <<master, slave, childVars, copyVars, sizeVars>>

ProxyReturn == /\ proxy = "await" /\ keyCopy = "ended"
               /\ proxy' = "returned"
               /\ UNCHANGED <<master, slave, childVars, copyVars, sizeVars>>

-----------------------------------------------------------------------------
ProxyRuns == Open \/ OpenSlave \/ ForkExec \/ Nudge \/ EnterRead \/ Show \/ ShowEnds
             \/ ShowFails \/ ProxyAwaits \/ ProxyReturn
Callers   == ProxyBegins \/ Close \/ Resize \/ Press \/ OuterResized
Others    == ChildWrites \/ ChildEnds \/ HeirEnds

TerminalNext == ProxyRuns \/ Callers \/ Others \/ HungUp \/ Wait \/ Winch \/ CopyKeys

\* Goroutines go on, and a child that heeds a hang-up ends; users and other programs
\* do what they like.
TerminalFairness == /\ WF_terminalVars(ProxyRuns) /\ WF_terminalVars(HungUp)
                    /\ WF_terminalVars(Wait) /\ WF_terminalVars(Winch)
                    /\ WF_terminalVars(CopyKeys)

TerminalSpec == TerminalInit /\ [][TerminalNext]_terminalVars /\ TerminalFairness

-----------------------------------------------------------------------------
Deserted == child \in {"zombie", "reaped"} /\ ~heir

\* Proxy "blocks until the child exits" (pty.go:193-194).  It returns once nobody is
\* left on the terminal, or the child has been hung up by Close and heeds it, and a key
\* has been pressed for the copy from stdin to lose: that copy waits for one.
ProxyReturns ==
    []<>~(/\ proxy \in {"show", "await"} /\ keys + eaten > 0
          /\ Deserted \/ (hup /\ ~deaf /\ ~heir))

\* When Proxy has stopped showing output, it has shown all there will be, unless Close
\* was called or stdout has refused a write (pty.go:227); and a Start that has failed
\* leaves no descriptor behind (pty.go:50-82).
NothingLost ==
    /\ proxy \in {"await", "returned"} /\ master = "open" /\ ~outBroken
          => shown = written /\ ~OnTerminal
    /\ proxy = "failed" => master # "open" /\ ~slave

\* The pty takes the last size of the outer terminal, however signals coalesce and
\* wherever the change falls between Start and the copies (pty.go:203-215).
SizeFollows == []<>(proxy = "show" /\ master = "open" /\ ~resized => size = outer)
=============================================================================
