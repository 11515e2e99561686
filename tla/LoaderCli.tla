----------------------------- MODULE LoaderCli -----------------------------
(***************************************************************************)
(* loader-cli (loader-cli/main.go, boot.go, socket_cli.go) and its client. *)
(* The loader serves gRPC on its stdin and stdout: a socketpair joins its  *)
(* server to two goroutines, one that copies stdin into the client's end   *)
(* and one that copies the client's end to stdout.  The client is either a *)
(* gRPC client on two pipes or pty-cli (pty-cli/main.go), which starts the *)
(* loader on one socket and makes a Shell call per line its user types.    *)
(* A process that the runner has started shares the loader's stdout, and   *)
(* if it was forked its stdin: whoever reads first gets the bytes.         *)
(*                                                                         *)
(* Copying is read and write in one step: a copy in hand is one more place *)
(* in the queue before it.                                                 *)
(***************************************************************************)
EXTENDS Services

CONSTANTS Scripts,   \* the calls a behaviour may make
          PipeRoom   \* what stdin, stdout and the pair's way in hold

ASSUME LoaderAssumption ==
    /\ PipeRoom \in Nat \ {0}
    /\ \A s \in Scripts : \A c \in DOMAIN s : s[c].method \in Methods /\ s[c].n \in Nat

VARIABLES
    \* the client
    user,      \* pipe; or pty-cli: play, spawn, prompt, recv, quit, signal, wait, done, fatal
    sent,      \* how much of each call's request it has written
    status,    \* per call: open, ok, failed
    got,       \* the messages received for it
    stdin, stdinOpen,   \* the loader's stdin, and whether the client keeps it open
    stdout, stdoutOpen, \* its stdout, and whether the client still reads it
    \* the loader
    launch,    \* how it was started: args, listen, terminal, stdio
    pid1,      \* whether it is process 1
    main,      \* its main goroutine: boot, first, serve, stdin, stop, listen
    copyIn,    \* stdin's goroutine: first, copy, ended
    firstRead, \* firstReadDone: none, data, nothing
    copyOut,   \* stdout's goroutine: copy, ended
    bridge,    \* whether the client's end of the socketpair is open
    up         \* what is on its way to the server

clientVars == <<user, sent, status, got, stdin, stdinOpen, stdout, stdoutOpen>>
mainVars   == <<launch, pid1, main>>
bridgeVars == <<copyIn, firstRead, copyOut, bridge, up>>
loaderVars == <<script, process, server, arrived, handler, down, temps, kin, procs, stolen, shared,
                user, sent, status, got, stdin, stdinOpen, stdout, stdoutOpen,
                launch, pid1, main, copyIn, firstRead, copyOut, bridge, up>>

LoaderTypeOK ==
    /\ ServicesTypeOK
    /\ user \in {"pipe", "play", "spawn", "prompt", "recv", "quit", "signal", "wait", "done", "fatal"}
    /\ \A c \in Calls : /\ sent[c] \in 0..Parts(script[c]) /\ arrived[c] <= sent[c]
                        /\ status[c] \in {"open", "ok", "failed"}
    /\ Len(stdin) <= PipeRoom /\ Len(up) <= PipeRoom /\ Len(stdout) <= PipeRoom
    /\ {stdinOpen, stdoutOpen, pid1, bridge} \subseteq BOOLEAN
    /\ launch \in {"args", "listen", "terminal", "stdio"}
    /\ main \in {"boot", "first", "serve", "stdin", "stop", "listen"}
    /\ copyIn \in {"first", "copy", "ended"} /\ copyOut \in {"copy", "ended"}
    /\ firstRead \in {"none", "data", "nothing"}

QuietInit ==
    /\ sent = [c \in Calls |-> 0] /\ status = [c \in Calls |-> "open"]
    /\ got = [c \in Calls |-> <<>>]
    /\ stdin = <<>> /\ stdinOpen = TRUE /\ stdout = <<>> /\ stdoutOpen = TRUE
    /\ main = "boot" /\ copyIn = "first" /\ firstRead = "none" /\ copyOut = "copy"
    /\ bridge = TRUE /\ up = <<>>

LoaderInit ==
    /\ \/ /\ user = "pipe" /\ ServicesInit(Scripts, "running")
          /\ launch \in {"args", "listen", "terminal", "stdio"}
          /\ pid1 \in IF launch = "stdio" THEN BOOLEAN ELSE {FALSE}
       \/ /\ user = "play" /\ ServicesInit(Scripts, "none")
          /\ \A c \in Calls : script[c].method = "Shell"
          /\ launch = "stdio" /\ pid1 = FALSE
    /\ QuietInit

\* No loader and no client.
LoaderIdle == /\ user = "done" /\ ServicesInit({<<>>}, "none")
              /\ launch = "stdio" /\ pid1 = FALSE /\ QuietInit

-----------------------------------------------------------------------------
(* A gRPC client on two pipes.                                             *)

Write(c) == /\ stdinOpen /\ Len(stdin) < PipeRoom /\ sent[c] < Parts(script[c])
            /\ stdin' = Append(stdin, <<c, sent[c] + 1>>)
            /\ sent' = [sent EXCEPT ![c] = @ + 1]

\* A call that is made, with the earlier ones under way, or another part of its request.
Put(c) ==
    /\ user = "pipe" /\ process = "running" /\ launch = "stdio" /\ status[c] = "open"
    /\ \A b \in 1..(c - 1) : sent[b] > 0
    /\ Write(c)
    /\ UNCHANGED <<serviceVars, mainVars, bridgeVars, user, status, got, stdinOpen, stdout, stdoutOpen>>

CloseStdin ==
    /\ user = "pipe" /\ stdinOpen /\ launch = "stdio"
    /\ stdinOpen' = FALSE
    /\ UNCHANGED <<serviceVars, mainVars, bridgeVars, user, sent, status, got, stdin, stdout, stdoutOpen>>

StopReading ==
    /\ user = "pipe" /\ stdoutOpen /\ launch = "stdio"
    /\ stdoutOpen' = FALSE /\ stdout' = <<>>
    /\ UNCHANGED <<serviceVars, mainVars, bridgeVars, user, sent, status, got, stdin, stdinOpen>>

\* pty-cli goes back to its prompt when the stream of its line has ended.
Prompt(ended) == user' = IF user = "recv" /\ ended THEN "prompt" ELSE user

\* The client reads a message of a call, or how the call ended.
Take ==
    /\ stdoutOpen /\ stdout # <<>>
    /\ LET m == Head(stdout)
       IN  /\ got' = IF m.kind = "msg" THEN [got EXCEPT ![m.call] = Append(@, m.body)] ELSE got
           /\ status' = CASE m.kind = "msg" -> status
                          [] m.kind = "ok" -> [status EXCEPT ![m.call] = "ok"]
                          [] m.kind = "error" -> [status EXCEPT ![m.call] = "failed"]
           /\ Prompt(m.kind # "msg")
    /\ stdout' = Tail(stdout)
    /\ UNCHANGED <<serviceVars, mainVars, bridgeVars, sent, stdin, stdinOpen, stdoutOpen>>

\* The end of stdout: nobody has it open any more.
Ends == process \in {"exited", "dead"} /\ kin = {} /\ stdout = <<>>

\* Its connection is gone, and with it every call it has made.
ConnLost(c) ==
    /\ status[c] = "open" /\ sent[c] > 0 /\ (~stdoutOpen \/ Ends)
    /\ status' = [status EXCEPT ![c] = "failed"] /\ Prompt(TRUE)
    /\ UNCHANGED <<serviceVars, mainVars, bridgeVars, sent, got, stdin, stdinOpen, stdout, stdoutOpen>>

-----------------------------------------------------------------------------
(* pty-cli: a prompt, a call per line, and the cleanup.                    *)

\* The animation is shown once; an error is logged.
Play ==
    /\ user = "play" /\ user' = "spawn"
    /\ UNCHANGED <<serviceVars, mainVars, bridgeVars, sent, status, got, stdin, stdinOpen, stdout, stdoutOpen>>

Spawn ==
    /\ user = "spawn" /\ user' = "prompt" /\ process' = "running"
    /\ UNCHANGED <<script, server, arrived, handler, down, temps, kinVars, mainVars, bridgeVars,
                   sent, status, got, stdin, stdinOpen, stdout, stdoutOpen>>

\* No loader-cli here nor on the PATH.
NoLoader ==
    /\ user = "spawn" /\ user' = "fatal"
    /\ UNCHANGED <<serviceVars, mainVars, bridgeVars, sent, status, got, stdin, stdinOpen, stdout, stdoutOpen>>

\* No socketpair or no fork; or, after the fork, no connection: then the loader is
\* killed and not waited for.
SpawnFails ==
    /\ user = "spawn" /\ user' = "fatal" /\ process' \in {"none", "dead"}
    /\ UNCHANGED <<script, server, arrived, handler, down, temps, kinVars, mainVars, bridgeVars,
                   sent, status, got, stdin, stdinOpen, stdout, stdoutOpen>>

\* The next line is sent to Commander.Shell; blank lines and cd stay here.
TypeLine ==
    /\ user = "prompt"
    /\ \E c \in Calls : /\ sent[c] = 0 /\ (\A b \in 1..(c - 1) : sent[b] > 0)
                        /\ Write(c)
    /\ user' = "recv"
    /\ UNCHANGED <<serviceVars, mainVars, bridgeVars, status, got, stdinOpen, stdout, stdoutOpen>>

\* exit, quit or the end of its own stdin.
Quit ==
    /\ user = "prompt" /\ user' = "quit"
    /\ UNCHANGED <<serviceVars, mainVars, bridgeVars, sent, status, got, stdin, stdinOpen, stdout, stdoutOpen>>

HangUp == stdinOpen' = FALSE /\ stdoutOpen' = FALSE /\ stdout' = <<>>

CleanupClose ==
    /\ user = "quit" /\ user' = "signal" /\ HangUp
    /\ UNCHANGED <<serviceVars, mainVars, bridgeVars, sent, status, got, stdin>>

\* pty-cli is killed: the kernel closes its end.
Killed ==
    /\ user \in {"prompt", "recv"} /\ user' = "fatal" /\ HangUp
    /\ UNCHANGED <<serviceVars, mainVars, bridgeVars, sent, status, got, stdin>>

CleanupSignal ==
    /\ user = "signal" /\ user' = "wait"
    /\ process' = IF process = "running" THEN "dead" ELSE process
    /\ UNCHANGED <<script, server, arrived, handler, down, temps, kinVars, mainVars, bridgeVars,
                   sent, status, got, stdin, stdinOpen, stdout, stdoutOpen>>

CleanupWait ==
    /\ user = "wait" /\ process # "running" /\ user' = "done"
    /\ UNCHANGED <<serviceVars, mainVars, bridgeVars, sent, status, got, stdin, stdinOpen, stdout, stdoutOpen>>

-----------------------------------------------------------------------------
(* loader-cli: main.                                                       *)

Bridging == process = "running" /\ main \notin {"boot", "listen"}

MainStep(next) == main' = next /\ UNCHANGED <<serviceVars, clientVars, bridgeVars, launch, pid1>>
Exit(how) == /\ process' = how
             /\ UNCHANGED <<script, server, arrived, handler, down, temps, kinVars, clientVars, mainVars, bridgeVars>>

\* Flags, arguments and isatty(0) decide how main goes on.
Starting == process = "running" /\ main = "boot"

\* Exec of the arguments, in place of the loader.
ExecLoader == Starting /\ launch = "args" /\ Exit("replaced")

\* A TCP server of the same services, without a bridge, until it is killed.
Listen == Starting /\ launch = "listen" /\ MainStep("listen")

\* The services' names on stdout, and the end.
ShowReflectionServices == Starting /\ launch = "terminal" /\ Exit("exited")

Serve == Starting /\ launch = "stdio" /\ MainStep("first")

\* Bad flags, no such command, no port, no socketpair: log.Fatalf.
Fatal == Starting /\ Exit("exited")

\* hadData := <-firstReadDone.  Nothing to serve: list the services and leave, but
\* process 1 serves on, for good: nobody closes its listener.
FirstReadDone ==
    /\ Bridging /\ main = "first" /\ firstRead # "none"
    /\ IF firstRead = "nothing" /\ ~pid1 THEN Exit("exited")
       ELSE MainStep(IF pid1 THEN "serve" ELSE "stdin")

StdinClosed == Bridging /\ main = "stdin" /\ copyIn = "ended" /\ MainStep("stop")

\* Every handler that was started has returned.
HandlersDone == \A c \in Calls : Begun(c) => handler[c].at = "returned"

\* Mutant: Stop in place of GracefulStop.
GracefulStopHurried == Bridging /\ main = "stop" /\ server = "gone" /\ Exit("exited")

\* GracefulStop waits for the connection and for the handlers; then main returns.
GracefulStop ==
    /\ Bridging /\ main = "stop" /\ server = "gone" /\ HandlersDone
    /\ Exit("exited")

-----------------------------------------------------------------------------
(* The bridge: two copies, and the server's connection.                    *)

\* Mutant: what the first read brought is not passed on.
CopyFirstDropping ==
    /\ Bridging /\ copyIn = "first"
    /\ \/ /\ stdin # <<>> /\ firstRead' = "data" /\ copyIn' = "copy"
          /\ stdin' = Tail(stdin) /\ UNCHANGED <<up, bridge>>
       \/ /\ stdin = <<>> /\ ~stdinOpen
          /\ firstRead' = "nothing" /\ copyIn' = "ended" /\ bridge' = FALSE /\ UNCHANGED <<stdin, up>>
    /\ UNCHANGED <<serviceVars, mainVars, user, sent, status, got, stdinOpen, stdout, stdoutOpen, copyOut>>

\* The first read tells main whether there is a client; the goroutine's deferred calls
\* close the pair's client end, and both directions with it, before stdinClosed.
CopyFirst ==
    /\ Bridging /\ copyIn = "first"
    /\ \/ /\ stdin # <<>> /\ firstRead' = "data" /\ copyIn' = "copy"
          /\ stdin' = Tail(stdin) /\ up' = <<Head(stdin)>> /\ UNCHANGED bridge
       \/ /\ stdin = <<>> /\ ~stdinOpen
          /\ firstRead' = "nothing" /\ copyIn' = "ended" /\ bridge' = FALSE /\ UNCHANGED <<stdin, up>>
    /\ UNCHANGED <<serviceVars, mainVars, user, sent, status, got, stdinOpen, stdout, stdoutOpen, copyOut>>

CopyIn ==
    /\ Bridging /\ copyIn = "copy" /\ stdin # <<>> /\ server # "gone" /\ Len(up) < PipeRoom
    /\ up' = Append(up, Head(stdin)) /\ stdin' = Tail(stdin)
    /\ UNCHANGED <<serviceVars, mainVars, user, sent, status, got, stdinOpen, stdout, stdoutOpen,
                   copyIn, firstRead, copyOut, bridge>>

\* The end of stdin, or a write to a connection the server has closed.
CopyInEnds ==
    /\ Bridging /\ copyIn = "copy"
    /\ (stdin = <<>> /\ ~stdinOpen) \/ (stdin # <<>> /\ server = "gone")
    /\ copyIn' = "ended" /\ bridge' = FALSE
    /\ UNCHANGED <<serviceVars, mainVars, clientVars, firstRead, copyOut, up>>

CopyOut ==
    /\ Bridging /\ copyOut = "copy" /\ bridge /\ down # <<>> /\ stdoutOpen /\ Len(stdout) < PipeRoom
    /\ stdout' = Append(stdout, Head(down)) /\ down' = Tail(down)
    /\ UNCHANGED <<script, process, server, arrived, handler, temps, kinVars, mainVars, bridgeVars,
                   user, sent, status, got, stdin, stdinOpen, stdoutOpen>>

\* Nobody reads stdout: a write to it ends the process (SIGPIPE on descriptor 1), a
\* splice into it only ends the copy.
CopyOutBreaks ==
    /\ Bridging /\ copyOut = "copy" /\ bridge /\ down # <<>> /\ ~stdoutOpen
    /\ \/ Exit("dead")
       \/ /\ copyOut' = "ended" /\ UNCHANGED <<serviceVars, mainVars, clientVars, copyIn, firstRead, bridge, up>>

CopyOutEnds ==
    /\ Bridging /\ copyOut = "copy" /\ (~bridge \/ (server = "gone" /\ down = <<>>))
    /\ copyOut' = "ended"
    /\ UNCHANGED <<serviceVars, mainVars, clientVars, copyIn, firstRead, bridge, up>>

ServerIs(state) == /\ server' = state
                   /\ UNCHANGED <<script, process, handler, temps, kinVars, mainVars, clientVars,
                                  copyIn, firstRead, copyOut, bridge>>

\* The listener hands out its one connection; a server that has been stopped closes it.
Accept == /\ Bridging /\ server = "waiting"
          /\ ServerIs(IF main = "stop" THEN "gone" ELSE "serving")
          /\ UNCHANGED <<arrived, down, up>>

\* A part of a request reaches its handler.
Deliver ==
    /\ Bridging /\ server = "serving" /\ up # <<>> /\ script[Head(up)[1]].method # "Garbage"
    /\ arrived' = [arrived EXCEPT ![Head(up)[1]] = Head(up)[2]]
    /\ up' = Tail(up) /\ ServerIs("serving") /\ UNCHANGED down

\* Not HTTP/2, or a stream with a hole that the server may notice: it closes the connection.
Garbled ==
    /\ Bridging /\ server = "serving" /\ up # <<>>
    /\ script[Head(up)[1]].method = "Garbage" \/ stolen # {}
    /\ up' = <<>> /\ ServerIs("gone") /\ UNCHANGED <<arrived, down>>

\* The server reads the end, or fails to write: what it had sent is lost.
ServerSeesEnd ==
    /\ Bridging /\ server = "serving" /\ ~bridge
    /\ up' = <<>> /\ down' = <<>> /\ ServerIs("gone") /\ UNCHANGED arrived

Handle(c) == Bridging /\ HandlerStep(c) /\ UNCHANGED <<mainVars, clientVars, bridgeVars>>

-----------------------------------------------------------------------------
(* The processes the runner has started (external).                        *)

\* A forked loader reads stdin: to the server of its own the bytes are nothing.
Steal(k) ==
    /\ k \in kin /\ script[k].method # "Spawn" /\ stdin # <<>>
    /\ stolen' = stolen \cup {Head(stdin)} /\ stdin' = Tail(stdin)
    /\ UNCHANGED <<script, process, server, arrived, handler, down, temps, kin, procs, shared,
                   mainVars, bridgeVars, user, sent, status, got, stdinOpen, stdout, stdoutOpen>>

\* What a program prints, or a forked loader, goes into the client's stream: the client
\* may give its connection up.
Scribble(k) ==
    /\ k \in kin /\ user = "pipe" /\ stdoutOpen /\ stdout = <<>> /\ HangUp
    /\ UNCHANGED <<serviceVars, mainVars, bridgeVars, user, sent, status, got, stdin>>

KinEnds(k) ==
    /\ k \in kin /\ kin' = kin \ {k}
    /\ UNCHANGED <<script, process, server, arrived, handler, down, temps, procs, stolen, shared,
                   clientVars, mainVars, bridgeVars>>

\* A forked loader goes on reading, and leaves when stdin has ended.
SiblingRuns(k) == \/ Steal(k)
                  \/ script[k].method # "Spawn" /\ stdin = <<>> /\ ~stdinOpen /\ KinEnds(k)

-----------------------------------------------------------------------------
MainRuns   == ExecLoader \/ Listen \/ ShowReflectionServices \/ Serve \/ Fatal
              \/ FirstReadDone \/ StdinClosed \/ GracefulStop
StdinRuns  == CopyFirst \/ CopyIn \/ CopyInEnds
StdoutRuns == CopyOut \/ CopyOutBreaks \/ CopyOutEnds
ServerRuns == Accept \/ Deliver \/ Garbled \/ ServerSeesEnd
PtyCliRuns == Play \/ Spawn \/ NoLoader \/ SpawnFails \/ CleanupClose \/ CleanupSignal \/ CleanupWait
Reads      == Take \/ \E c \in Calls : ConnLost(c)

LoaderNext ==
    \/ \E c \in Calls : Put(c) \/ Handle(c)
    \/ CloseStdin \/ StopReading \/ Reads
    \/ PtyCliRuns \/ TypeLine \/ Quit \/ Killed
    \/ MainRuns \/ StdinRuns \/ StdoutRuns \/ ServerRuns
    \/ \E k \in Calls : Steal(k) \/ Scribble(k) \/ KinEnds(k)

CallNumbers == UNION {DOMAIN s : s \in Scripts}

\* Every goroutine goes on, pty-cli does, and a forked loader; users do what they like,
\* and so do spawned programs.
LoaderFairness ==
    /\ WF_loaderVars(MainRuns) /\ WF_loaderVars(StdinRuns) /\ WF_loaderVars(StdoutRuns)
    /\ WF_loaderVars(ServerRuns) /\ WF_loaderVars(PtyCliRuns) /\ WF_loaderVars(Reads)
    /\ \A c \in CallNumbers : /\ WF_loaderVars(c \in Calls /\ Handle(c))
                             /\ WF_loaderVars(c \in Calls /\ SiblingRuns(c))

LoaderSpec == LoaderInit /\ [][LoaderNext]_loaderVars /\ LoaderFairness

-----------------------------------------------------------------------------
Promise == INSTANCE CallPromise WITH promised <- [c \in Calls |-> Answer(script[c])]

\* Through both copies, the pair and the handlers, a client gets each call's answer in
\* order and once, and success only after all of it: the services' contract, on
\* loader-cli's bridge (loader-cli/main.go:68-91).  It ends with the first process the
\* runner starts, which shares stdin or stdout (runner/runner.go:67-71, 155), and it
\* fails for movies whose frames outgrow the digits of their names.
KeepsCallContract ==
    /\ Promise!Init
    /\ [][Promise!Next \/ shared']_<<[c \in Calls |-> Answer(script[c])], got, status>>

Hung(c) == handler[c].at = "hung"
\* A command that hangs is killed with the connection, nothing else is.
Stuck(c) == Hung(c) /\ script[c].method # "Shell"
AnyStuck == \E c \in Calls : Stuck(c)
GarbageSent == \E c \in Calls : script[c].method = "Garbage" /\ sent[c] > 0

Waits(c) == status[c] = "open" /\ sent[c] = Parts(script[c])
Excused(c) == \/ Hung(c) \/ process = "replaced"
              \/ ~stdinOpen /\ (pid1 \/ AnyStuck)
              \/ stdinOpen /\ (GarbageSent \/ stolen # {})
              \/ handler[c].at = "await" /\ c \in kin
              \/ process # "running" /\ kin # {}

\* A call whose request has been written is answered or fails in the end, also when
\* the client closes stdin behind it.  The exceptions are in the code: a command without
\* a timeout, a program of the imager or an open of a FIFO hangs; process 1 keeps stdout
\* open after stdin has ended (main.go:101-104); Exec has put another program there;
\* bytes that are not HTTP/2, or are missing because a forked loader took them, stop the
\* server, not the bridge; a Batch that fails waits for the loader it has forked; and
\* what Spawn has started keeps stdout open after the loader.  (Each call is made once,
\* so that no call waits for ever if again and again no call waits.)
AnsweredWhileOpen == []<>(\A c \in Calls : Waits(c) => Excused(c))

\* Once stdin has ended the loader ends, and leaves no temporary file if it ended by
\* itself (main.go:106-107), unless a handler hangs that no end of the connection stops:
\* the imager's, or a Batch in open(2).  pty-cli's cleanup comes to its end
\* (pty-cli/main.go:171-177).  None of the states it excludes is left but towards one of
\* those it allows.
LoaderEnds ==
    []<>(/\ process = "running" /\ launch = "stdio" /\ ~stdinOpen => pid1 \/ AnyStuck
         /\ process = "exited" => temps = {}
         /\ user \notin {"quit", "signal", "wait"})
=============================================================================
