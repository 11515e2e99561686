------------------------------ MODULE Services ------------------------------
(***************************************************************************)
(* The handlers loader-cli serves on its one connection                    *)
(* (registerServices): the runner (runner/strings.go, runner.go,           *)
(* batch.go), the imager (images/imager.go), the loader                    *)
(* (loader/loader.go), Authority (identifier/identifier.go) and Shell      *)
(* (commander/commander.go).  Shell's output is one chunk here, a Stop is  *)
(* one step, and the plumbing of a fork is left to its modules (Shell,     *)
(* RunnerTable, ForkDescriptors, Batch).                                   *)
(*                                                                         *)
(* A call is a record of its method and a number: the messages of a client *)
(* stream, the frames of a movie (0: a still image), the methods of a      *)
(* Batch, the call whose process is to be stopped, whether there are words *)
(* to permute or a timeout.  Messages are told apart by what they were     *)
(* made from.                                                              *)
(***************************************************************************)
EXTENDS FrameOrder

CONSTANTS Copies,     \* the permutations Babble sends (50)
          ReplyRoom   \* what the server may send before somebody reads on

ASSUME ReplyAssumption == Copies \in Nat \ {0} /\ ReplyRoom \in Nat \ {0}

VARIABLES
    script,   \* the calls of this behaviour, in the order they are made
    process,  \* the loader: none, running, exited (by itself), dead, replaced
    server,   \* its transport: waiting (in the listener), serving, gone
    arrived,  \* how much of each call's request has reached its handler
    handler,  \* per call, the place in its handler and what it has handled
    down,     \* what the server has sent and the bridge has not read
    temps,    \* the temporary files: of which call, and of which kind
    kin,      \* the calls whose process lives: it has the loader's stdout, and one that
              \* was forked its stdin
    procs,    \* those whose process is in the runner's table
    stolen,   \* the parts of requests that a forked loader has read from stdin
    shared    \* history: a process has shared stdin or stdout

kinVars     == <<kin, procs, stolen, shared>>
serviceVars == <<script, process, server, arrived, handler, down, temps, kin, procs, stolen, shared>>

Calls     == DOMAIN script
Streaming == {"AppendAndPrint", "AddNewLine"}
Rendering == {"Render", "RenderBytes"}
Methods   == Streaming \cup Rendering
             \cup {"Authority", "Babble", "Shell", "Exec", "Garbage"}
             \cup {"Fork", "Spawn", "Stop", "Batch"}
             \cup {"Link", "Load", "Identify", "Authenticate"}

\* What a client sends for a call: its messages, and the end of a client stream.
\* The one message of the other calls carries that end.
Parts(call) == IF call.method \in Streaming THEN call.n + 1 ELSE 1

FrameCount(call) == IF call.n = 0 THEN 1 ELSE call.n
OneReply == <<<<1>>>>

\* The right answer.  Nothing answers to a method without an implementation, and a
\* successful Exec never returns; frames come in the order of the movie.
Answer(call) ==
    CASE call.method \in {"Authority", "Shell", "Fork", "Spawn", "Stop", "Batch"} -> OneReply
      [] call.method = "Babble"         -> [i \in 1..(IF call.n = 0 THEN 0 ELSE Copies) |-> <<1>>]
      [] call.method = "AppendAndPrint" -> [i \in 1..call.n |-> <<i>>]
      [] call.method = "AddNewLine"     -> <<[i \in 1..call.n |-> i]>>
      [] call.method \in Rendering      -> [i \in 1..FrameCount(call) |->
                                              <<i, i - 1, FrameCount(call)>>]
      [] OTHER                          -> <<<<0>>>>

ServicesTypeOK ==
    /\ \A c \in Calls : script[c].method \in Methods /\ script[c].n \in Nat
    /\ process \in {"none", "running", "exited", "dead", "replaced"}
    /\ server \in {"waiting", "serving", "gone"}
    /\ arrived \in [Calls -> Nat] /\ \A c \in Calls : arrived[c] <= Parts(script[c])
    /\ \A c \in Calls : /\ handler[c].n \in Nat
                        /\ handler[c].at \in {"serve", "command", "wrap", "open", "await",
                                              "reply", "fetch", "save", "render", "extract",
                                              "frames", "hung", "returned"}
    /\ \A i \in DOMAIN down : down[i].call \in Calls /\ down[i].kind \in {"msg", "ok", "error"}
    /\ temps \subseteq Calls \X {"fifo", "download", "bytes", "frames"}
    /\ kin \subseteq Calls /\ procs \subseteq Calls /\ stolen \subseteq Calls \X Nat
    /\ shared \in BOOLEAN

ServicesInit(scripts, started) ==
    /\ script \in scripts /\ process = started /\ server = "waiting"
    /\ arrived = [c \in Calls |-> 0]
    /\ handler = [c \in Calls |-> [at |-> "serve", n |-> 0]]
    /\ down = <<>> /\ temps = {}
    /\ kin = {} /\ procs = {} /\ stolen = {} /\ shared = FALSE

-----------------------------------------------------------------------------
Message(c, body) == [call |-> c, kind |-> "msg", body |-> body]
Trailer(c, kind) == [call |-> c, kind |-> kind, body |-> <<>>]

\* A handler runs from its request's first message on, while its process does.
Begun(c)    == arrived[c] > 0 /\ <<c, 1>> \notin stolen
Runs(c, at) == process = "running" /\ Begun(c) /\ handler[c].at = at
At(c, at)   == handler' = [handler EXCEPT ![c].at = at]
Room        == server = "serving" /\ Len(down) < ReplyRoom

\* stream.Send: blocks on flow control while the transport lives.
Send(c, body) == Room /\ down' = Append(down, Message(c, body))

\* A handler returns: its deferred removals, and its status if there is a transport
\* to carry it.  Trailers do not wait for flow control.
Return(c, kind) ==
    /\ At(c, "returned")
    /\ temps' = {t \in temps : t[1] # c}
    /\ down' = IF server = "serving" THEN Append(down, Trailer(c, kind)) ELSE down

Alone == UNCHANGED <<script, process, server, arrived, stolen>>
Stay  == Alone /\ UNCHANGED <<kin, procs, shared>>
Pause == UNCHANGED <<down, temps>>

\* One message and the return: a unary handler, SendAndClose, a still image.
ReplyFrom(c, at, body) ==
    /\ Runs(c, at) /\ Room /\ At(c, "returned")
    /\ down' = down \o <<Message(c, body), Trailer(c, "ok")>>
    /\ temps' = {t \in temps : t[1] # c}
    /\ Stay

Reply(c, body) == ReplyFrom(c, "serve", body)

Refuse(c) == Runs(c, "serve") /\ Return(c, "error") /\ Stay

Authority(c) == script[c].method = "Authority" /\ Reply(c, <<1>>)
\* Link, Load and Identify; and Authenticate, as loader-cli configures no handler.
Unimplemented(c) == script[c].method \in {"Link", "Load", "Identify", "Authenticate"} /\ Refuse(c)

\* An empty path, no such command, or execve has failed.
ExecFails(c) == script[c].method = "Exec" /\ Refuse(c)

\* syscall.Exec: every goroutine is gone, and with it every deferred removal.  The
\* new program has the old one's stdin and stdout; the socketpair closes on exec.
Exec(c) ==
    /\ script[c].method = "Exec" /\ Runs(c, "serve")
    /\ process' = "replaced" /\ server' = "gone" /\ down' = <<>>
    /\ UNCHANGED <<script, arrived, handler, temps, kinVars>>

\* A stream's next message is in the handler's hands, unless it got lost.
HasNext(c) == handler[c].n < script[c].n /\ handler[c].n < arrived[c]
Lost(c, i) == <<c, i>> \in stolen
Ended(c) == handler[c].n = script[c].n /\ arrived[c] = Parts(script[c])
Count(c) == handler' = [handler EXCEPT ![c].n = @ + 1]

AppendAndPrint(c) ==
    /\ script[c].method = "AppendAndPrint" /\ Runs(c, "serve") /\ Stay
    /\ \/ /\ HasNext(c) /\ Count(c) /\ UNCHANGED temps
          /\ IF Lost(c, handler[c].n + 1) THEN UNCHANGED down ELSE Send(c, <<handler[c].n + 1>>)
       \/ Ended(c) /\ Return(c, "ok")

\* The messages joined; 0 stands for one that got lost.
AddNewLine(c) ==
    /\ script[c].method = "AddNewLine"
    /\ \/ Runs(c, "serve") /\ HasNext(c) /\ Count(c) /\ Stay /\ Pause
       \/ Ended(c) /\ Reply(c, [i \in 1..script[c].n |-> IF Lost(c, i) THEN 0 ELSE i])

Babble(c) ==
    /\ script[c].method = "Babble" /\ Runs(c, "serve") /\ Stay
    /\ IF script[c].n # 0 /\ handler[c].n < Copies
       THEN Count(c) /\ Send(c, <<1>>) /\ UNCHANGED temps
       ELSE Return(c, "ok")

-----------------------------------------------------------------------------
(* Shell, and the runner's methods that start processes.  loader-cli never *)
(* looks at its fd 3 (runner.InheritedConn): a child the runner forks is   *)
(* another loader on the same stdin and stdout.                            *)

\* No command, no directory, no pipes, no start; no path, no such process, no pipeline,
\* no directory for the FIFO, no socketpair, no fork.
Refused(c) == script[c].method \in {"Shell", "Fork", "Spawn", "Stop", "Batch"} /\ Refuse(c)

Shell(c) == script[c].method = "Shell" /\ Runs(c, "serve") /\ At(c, "command") /\ Stay /\ Pause

\* The command's output, or its stream's or Wait's error.
ShellEnds(c) == \/ ReplyFrom(c, "command", <<1>>)
                \/ Runs(c, "command") /\ Return(c, "error") /\ Stay

Starts(c) == kin' = kin \cup {c} /\ shared' = TRUE

\* ForkExec, with descriptors 0 to 2: Fork's, and that of a Batch with more than one
\* method, which has made its FIFO.
ForkLoader(c) ==
    /\ Runs(c, "serve") /\ At(c, "wrap") /\ Starts(c) /\ Alone /\ UNCHANGED <<procs, down>>
    /\ \/ script[c].method = "Fork" /\ UNCHANGED temps
       \/ script[c].method = "Batch" /\ script[c].n > 1 /\ temps' = temps \cup {<<c, "fifo">>}

\* FileConn, and the table or a client of the child; the child is killed when one fails.
WrapSocket(c) ==
    /\ Runs(c, "wrap") /\ Alone /\ UNCHANGED shared
    /\ \/ script[c].method = "Fork" /\ At(c, "reply") /\ procs' = procs \cup {c} /\ UNCHANGED kin /\ Pause
       \/ script[c].method = "Batch" /\ At(c, "open") /\ UNCHANGED <<procs, kin>> /\ Pause
       \/ Return(c, "error") /\ kin' = kin \ {c} /\ UNCHANGED procs

\* The program has descriptors 1 and 2.
SpawnProgram(c) ==
    /\ script[c].method = "Spawn" /\ Runs(c, "serve") /\ At(c, "reply")
    /\ Starts(c) /\ procs' = procs \cup {c} /\ Alone /\ Pause

StopProcess(c) ==
    /\ script[c].method = "Stop" /\ script[c].n \in procs /\ Runs(c, "serve") /\ At(c, "reply")
    /\ procs' = procs \ {script[c].n} /\ kin' = kin \ {script[c].n}
    /\ Alone /\ UNCHANGED shared /\ Pause

ProcessReply(c) == ReplyFrom(c, "reply", <<1>>)

\* One method: no FIFO and no child.
BatchAlone(c) ==
    /\ script[c].method = "Batch" /\ script[c].n = 1
    /\ Runs(c, "serve") /\ At(c, "open") /\ Stay /\ Pause

\* applyMethodToFile, from file to file.
BatchApplies(c) ==
    /\ script[c].n = 1
    /\ \/ ReplyFrom(c, "open", <<1>>)
       \/ Runs(c, "open") /\ Return(c, "error") /\ Stay

\* From file to FIFO: the child never opens the other end, so the handler stays in open(2)
\* (Hang); without an input it waits for the child instead.
BatchWaits(c) == Runs(c, "open") /\ script[c].n > 1 /\ At(c, "await") /\ Stay /\ Pause

\* waitForPid.
BatchFails(c) == Runs(c, "await") /\ c \notin kin /\ Return(c, "error") /\ Stay

-----------------------------------------------------------------------------
(* The imager.  It runs ffmpeg and image2ascii and fetches URLs without a  *)
(* context or a timeout: each may hang for good, and no end of the call    *)
(* stops it.                                                               *)

Keep(c, kind) == temps' = temps \cup {<<c, kind>>}

\* Render: a URL is fetched first, a file has to be there.
Render(c) ==
    /\ script[c].method = "Render" /\ Runs(c, "serve") /\ Stay
    /\ \/ \E at \in {"fetch", "render"} : At(c, at) /\ Pause
       \/ Return(c, "error")

\* downloadToTemp, until there is a file to copy the body into.
Fetch(c) == /\ Runs(c, "fetch") /\ Stay
            /\ \/ At(c, "save") /\ Keep(c, "download") /\ UNCHANGED down
               \/ Return(c, "error")

\* The body, and Render's stat of the file; a failed copy removes the file.
Save(c) == /\ Runs(c, "save") /\ Stay
           /\ \/ At(c, "render") /\ Pause
              \/ Return(c, "error")

\* CreateTemp and the write of the bytes: the removal is deferred before the write.
RenderBytes(c) ==
    /\ script[c].method = "RenderBytes" /\ Runs(c, "serve") /\ Stay
    /\ \/ At(c, "render") /\ Keep(c, "bytes") /\ UNCHANGED down
       \/ Return(c, "error")

\* renderFile: one frame of a still image, or a directory for those of a movie.
RenderFile(c) ==
    \/ script[c].n = 0 /\ ReplyFrom(c, "render", <<1, 0, 1>>)
    \/ /\ Runs(c, "render") /\ script[c].n > 0 /\ Stay
       /\ At(c, "extract") /\ Keep(c, "frames") /\ UNCHANGED down
    \/ Runs(c, "render") /\ Return(c, "error") /\ Stay

\* ffmpeg writes the frames; its names are sorted as strings.
Extract(c) == /\ Runs(c, "extract") /\ Stay
              /\ \/ At(c, "frames") /\ Pause
                 \/ Return(c, "error")

SendFrame(c) ==
    LET i == handler[c].n + 1  n == script[c].n
    IN  /\ Runs(c, "frames") /\ i <= n
        /\ Count(c) /\ Send(c, <<SortedFrames(n)[i], i - 1, n>>)
        /\ Stay /\ UNCHANGED temps

FramesSent(c) == /\ Runs(c, "frames") /\ handler[c].n = script[c].n
                 /\ Return(c, "ok") /\ Stay

\* Mutant: a frame that cannot be converted ends the movie as if it were its last.
ConvertFailsQuietly(c) ==
    Runs(c, "frames") /\ handler[c].n < script[c].n /\ Return(c, "ok") /\ Stay

\* The first frame that cannot be converted ends the call.
ConvertFails(c) == Runs(c, "frames") /\ handler[c].n < script[c].n /\ Return(c, "error") /\ Stay

-----------------------------------------------------------------------------
(* The end of a handler that does not come, and the end of the transport.  *)

\* Commands without a timeout, the imager's programs and downloads, and an open of a FIFO
\* that nobody opens at its other end may take for ever.
Hang(c) == /\ \/ \E at \in {"open", "fetch", "save", "render", "extract", "frames"} : Runs(c, at)
              \/ Runs(c, "command") /\ script[c].n = 0
           /\ At(c, "hung") /\ Stay /\ Pause

\* Without a transport, Send and Recv fail and the handler returns their error; a
\* command is killed with the stream's context.
Abandon(c) == /\ server = "gone"
              /\ \/ \E at \in {"serve", "reply", "render", "frames"} : Runs(c, at)
                 \/ Runs(c, "hung") /\ script[c].method = "Shell"
              /\ Return(c, "error") /\ Stay

-----------------------------------------------------------------------------
StringMethods(c) == AppendAndPrint(c) \/ AddNewLine(c) \/ Babble(c)
Processes(c)     == \/ Shell(c) \/ ShellEnds(c) \/ Refused(c) \/ ForkLoader(c) \/ WrapSocket(c)
                    \/ SpawnProgram(c) \/ StopProcess(c) \/ ProcessReply(c)
                    \/ BatchAlone(c) \/ BatchApplies(c) \/ BatchWaits(c) \/ BatchFails(c)
Imager(c)        == \/ Render(c) \/ Fetch(c) \/ Save(c) \/ RenderBytes(c) \/ RenderFile(c)
                    \/ Extract(c) \/ SendFrame(c) \/ FramesSent(c) \/ ConvertFails(c)

HandlerStep(c) ==
    \/ Authority(c) \/ Unimplemented(c) \/ ExecFails(c) \/ Exec(c)
    \/ StringMethods(c) \/ Processes(c) \/ Imager(c) \/ Hang(c) \/ Abandon(c)
=============================================================================
