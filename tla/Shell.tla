------------------------------- MODULE Shell -------------------------------
(***************************************************************************)
(* commanderServer.Shell and streamOutput (commander/commander.go): run a  *)
(* command and stream what it writes.  Two goroutines read the command's   *)
(* pipes into a channel, one drains the channel into the gRPC stream, and  *)
(* the handler itself calls cmd.Wait, which reaps the command and closes   *)
(* the pipes the readers read (os/exec: StdoutPipe, Wait).                 *)
(*                                                                         *)
(* The i-th chunk the command writes to a pipe is <<pipe, i>>.             *)
(***************************************************************************)
EXTENDS Naturals, Sequences, SequencesExt

CONSTANTS MaxWrites,  \* bound: what the command writes to each pipe, in chunks
          PipeCap,    \* what a pipe holds (64 KB)
          ChanCap,    \* the capacity of ch (16)
          Window      \* what the stream takes before the client reads on

ASSUME BoundsAssumption ==
    /\ MaxWrites \in Nat
    /\ PipeCap \in Nat \ {0} /\ ChanCap \in Nat \ {0} /\ Window \in Nat \ {0}

Pipes  == {"stdout", "stderr"}
Chunks == Pipes \X (1..MaxWrites)
Exit   == <<"exit", 0>>   \* the final chunk, "exit status N"
Nil    == <<"nil", 0>>

VARIABLES
    command,    \* running, or how it ended: zero, nonzero, killed
    written,    \* chunks written to each pipe so far
    inherited,  \* whether a grandchild outlives the command with its pipes open
    taken,      \* chunks read from each pipe so far
    pipesOpen,  \* whether the parent's read ends are open
    reader,     \* the goroutine readPipe of each pipe
    ch, chOpen, \* the channel of chunks, and whether it is open
    sender,     \* the goroutine that sends
    item,       \* the chunk it has in hand
    sendDone,   \* its result
    stream,     \* the messages sent on the gRPC stream
    consumed,   \* how many of them the client has read
    streamDead, \* the client cancelled, or the connection is gone
    ctxDone,    \* the command's context: that, or the timeout
    signalled,  \* whether watchCtx has killed the command
    main,       \* the handler
    waitErr,    \* what cmd.Wait returned
    result      \* what the handler returned

procVars == <<command, written, inherited, signalled>>
pipeVars == <<taken, pipesOpen, reader>>
sendVars == <<sender, item, sendDone>>
netVars  == <<stream, consumed, streamDead, ctxDone>>
mainVars == <<main, waitErr, result>>
vars == <<command, written, inherited, signalled, taken, pipesOpen, reader, ch, chOpen,
          sender, item, sendDone, stream, consumed, streamDead, ctxDone,
          main, waitErr, result>>

TypeOK ==
    /\ command \in {"running", "zero", "nonzero", "killed"}
    /\ written \in [Pipes -> 0..MaxWrites] /\ taken \in [Pipes -> 0..MaxWrites]
    /\ {inherited, signalled, pipesOpen, chOpen, streamDead, ctxDone} \subseteq BOOLEAN
    /\ reader \in [Pipes -> {"read", "put", "done"}]
    /\ ch \in Seq(Chunks) /\ Len(ch) <= ChanCap
    /\ sender \in {"receive", "send", "returned"}
    /\ item \in Chunks \cup {Nil}
    /\ sendDone \in {"empty", "nil", "error", "taken"}
    /\ stream \in Seq(Chunks \cup {Exit}) /\ consumed \in 0..Len(stream)
    /\ main \in {"wait", "close", "await", "final", "returned"}
    /\ waitErr \in {"nil", "exit", "other"}
    /\ result \in {"none", "ok", "stream", "wait"}

Init ==
    /\ command = "running" /\ inherited = FALSE /\ signalled = FALSE
    /\ written = [p \in Pipes |-> 0] /\ taken = [p \in Pipes |-> 0]
    /\ pipesOpen = TRUE /\ reader = [p \in Pipes |-> "read"]
    /\ ch = <<>> /\ chOpen = TRUE
    /\ sender = "receive" /\ item = Nil /\ sendDone = "empty"
    /\ stream = <<>> /\ consumed = 0 /\ streamDead = FALSE /\ ctxDone = FALSE
    /\ main = "wait" /\ waitErr = "nil" /\ result = "none"

-----------------------------------------------------------------------------
(* The command (external) and its context.                                 *)

InPipe(p) == written[p] - taken[p]

\* A full pipe blocks the writer; a grandchild may write after the command ended.
CommandWrites(p) ==
    /\ command = "running" \/ inherited
    /\ pipesOpen /\ InPipe(p) < PipeCap /\ written[p] < MaxWrites
    /\ written' = [written EXCEPT ![p] = @ + 1]
    /\ UNCHANGED <<command, inherited, signalled, pipeVars, ch, chOpen, sendVars,
                   netVars, mainVars>>

CommandEnds(how) ==
    /\ command = "running"
    /\ command' = how
    /\ \E b \in BOOLEAN : inherited' = b
    /\ UNCHANGED <<written, signalled, pipeVars, ch, chOpen, sendVars, netVars, mainVars>>

CommandExits == \E how \in {"zero", "nonzero"} : CommandEnds(how)
CommandDies  == signalled /\ CommandEnds("killed")

\* exec.CommandContext: watchCtx kills the command when its context is done, unless
\* Wait has got its result first.  The kill may find a command that has just exited.
WatchCtx ==
    /\ ctxDone /\ main = "wait" /\ ~signalled
    /\ signalled' = TRUE
    /\ UNCHANGED <<command, written, inherited, pipeVars, ch, chOpen, sendVars,
                   netVars, mainVars>>

Timeout ==
    /\ ~ctxDone /\ main # "returned"
    /\ ctxDone' = TRUE
    /\ UNCHANGED <<procVars, pipeVars, ch, chOpen, sendVars, stream, consumed,
                   streamDead, mainVars>>

ClientGone ==
    /\ ~streamDead /\ main # "returned"
    /\ streamDead' = TRUE /\ ctxDone' = TRUE
    /\ UNCHANGED <<procVars, pipeVars, ch, chOpen, sendVars, stream, consumed, mainVars>>

ClientReads ==
    /\ ~streamDead /\ consumed < Len(stream)
    /\ consumed' = consumed + 1
    /\ UNCHANGED <<procVars, pipeVars, ch, chOpen, sendVars, stream, streamDead,
                   ctxDone, mainVars>>

-----------------------------------------------------------------------------
(* readPipe, the goroutine that closes ch, and the sender.                 *)

ReadChunk(p) ==
    /\ reader[p] = "read" /\ pipesOpen /\ InPipe(p) > 0
    /\ taken' = [taken EXCEPT ![p] = @ + 1]
    /\ reader' = [reader EXCEPT ![p] = "put"]
    /\ UNCHANGED <<procVars, pipesOpen, ch, chOpen, sendVars, netVars, mainVars>>

\* EOF, or os.ErrClosed because Wait has closed the pipe.
ReadEnds(p) ==
    /\ reader[p] = "read"
    /\ \/ ~pipesOpen
       \/ InPipe(p) = 0 /\ command # "running" /\ ~inherited
    /\ reader' = [reader EXCEPT ![p] = "done"]
    /\ UNCHANGED <<procVars, taken, pipesOpen, ch, chOpen, sendVars, netVars, mainVars>>

PutChunk(p) ==
    /\ reader[p] = "put" /\ Len(ch) < ChanCap
    /\ ch' = Append(ch, <<p, taken[p]>>)
    /\ reader' = [reader EXCEPT ![p] = "read"]
    /\ UNCHANGED <<procVars, taken, pipesOpen, chOpen, sendVars, netVars, mainVars>>

\* Mutant: one reader's end is enough to close the channel for the sender.
CloseChanAfterOne ==
    /\ chOpen /\ \E p \in Pipes : reader[p] = "done"
    /\ chOpen' = FALSE
    /\ UNCHANGED <<procVars, pipeVars, ch, sendVars, netVars, mainVars>>

CloseChan ==
    /\ chOpen /\ \A p \in Pipes : reader[p] = "done"
    /\ chOpen' = FALSE
    /\ UNCHANGED <<procVars, pipeVars, ch, sendVars, netVars, mainVars>>

\* Mutant: the channel is drained from its other end.
SenderReceivesLast ==
    /\ sender = "receive" /\ ch # <<>>
    /\ item' = Last(ch) /\ ch' = Front(ch) /\ sender' = "send"
    /\ UNCHANGED <<procVars, pipeVars, chOpen, sendDone, netVars, mainVars>>

SenderReceives ==
    /\ sender = "receive" /\ ch # <<>>
    /\ item' = Head(ch) /\ ch' = Tail(ch) /\ sender' = "send"
    /\ UNCHANGED <<procVars, pipeVars, chOpen, sendDone, netVars, mainVars>>

\* stream.Send blocks while the client does not read, and fails when it is gone.
Room == Len(stream) - consumed < Window

SenderSends ==
    /\ sender = "send" /\ ~streamDead /\ Room
    /\ stream' = Append(stream, item)
    /\ item' = Nil /\ sender' = "receive"
    /\ UNCHANGED <<procVars, pipeVars, ch, chOpen, sendDone, consumed, streamDead,
                   ctxDone, mainVars>>

SenderReturns(res) ==
    /\ item' = Nil /\ sender' = "returned" /\ sendDone' = res
    /\ UNCHANGED <<procVars, pipeVars, ch, chOpen, netVars, mainVars>>

\* Mutant: the sender returns on a failed Send without a word on sendDone.
SenderFailsSilently == sender = "send" /\ streamDead /\ SenderReturns("empty")
SenderFails         == sender = "send" /\ streamDead /\ SenderReturns("error")
SenderEnds          == sender = "receive" /\ ch = <<>> /\ ~chOpen /\ SenderReturns("nil")

-----------------------------------------------------------------------------
(* The handler.                                                            *)

\* cmd.Wait, first part: the command is reaped.  An exit code of zero is an error
\* if watchCtx had to act in the meantime.
WaitReaps ==
    /\ main = "wait" /\ command # "running"
    /\ waitErr' = IF command # "zero" THEN "exit"
                  ELSE IF signalled THEN "other" ELSE "nil"
    /\ main' = "close"
    /\ UNCHANGED <<procVars, pipeVars, ch, chOpen, sendVars, netVars, result>>

\* cmd.Wait, second part: closeDescriptors(parentIOPipes).
WaitCloses ==
    /\ main = "close"
    /\ pipesOpen' = FALSE
    /\ main' = "await"
    /\ UNCHANGED <<procVars, taken, reader, ch, chOpen, sendVars, netVars, waitErr, result>>

Return(res) == main' = "returned" /\ result' = res

\* Mutant: the handler goes on to the exit chunk without <-sendDone.
AwaitSkipped ==
    /\ main = "await"
    /\ IF waitErr = "exit" THEN main' = "final" /\ UNCHANGED result
       ELSE Return(IF waitErr = "nil" THEN "ok" ELSE "wait")
    /\ UNCHANGED <<procVars, pipeVars, ch, chOpen, sendVars, netVars, waitErr>>

\* <-sendDone and the tests of the two errors.
AwaitSender ==
    /\ main = "await" /\ sendDone \in {"nil", "error"}
    /\ sendDone' = "taken"
    /\ \/ sendDone = "error" /\ Return("stream")
       \/ sendDone = "nil" /\ waitErr = "nil" /\ Return("ok")
       \/ sendDone = "nil" /\ waitErr = "other" /\ Return("wait")
       \/ sendDone = "nil" /\ waitErr = "exit" /\ main' = "final" /\ UNCHANGED result
    /\ UNCHANGED <<procVars, pipeVars, ch, chOpen, sender, item, netVars, waitErr>>

\* The chunk with the exit status; an error of this Send is ignored.
SendExit ==
    /\ main = "final"
    /\ \/ streamDead /\ UNCHANGED stream
       \/ ~streamDead /\ Room /\ stream' = Append(stream, Exit)
    /\ Return("ok")
    /\ UNCHANGED <<procVars, pipeVars, ch, chOpen, sendVars, consumed, streamDead,
                   ctxDone, waitErr>>

-----------------------------------------------------------------------------
Reader(p) == ReadChunk(p) \/ ReadEnds(p) \/ PutChunk(p)
Sender    == SenderReceives \/ SenderSends \/ SenderFails \/ SenderEnds
Handler   == WaitReaps \/ WaitCloses \/ AwaitSender \/ SendExit

Next == \/ \E p \in Pipes : CommandWrites(p) \/ Reader(p)
        \/ CommandExits \/ CommandDies \/ WatchCtx \/ Timeout
        \/ ClientGone \/ ClientReads
        \/ CloseChan \/ Sender \/ Handler

\* Goroutines run, a killed command dies, and the client reads what it asked for.
\* Nothing makes a command end on its own or a client stay.
Fairness ==
    /\ \A p \in Pipes : WF_vars(Reader(p))
    /\ WF_vars(CloseChan) /\ WF_vars(Sender) /\ WF_vars(Handler)
    /\ WF_vars(WatchCtx) /\ WF_vars(CommandDies) /\ WF_vars(ClientReads)

Spec == Init /\ [][Next]_vars /\ Fairness

-----------------------------------------------------------------------------
(* Properties.                                                             *)

\* The places of p's chunks in a sequence of messages, and the numbers they carry.
Of(p, msgs)      == {i \in DOMAIN msgs : msgs[i][1] = p}
Numbers(p, msgs) == {msgs[i][2] : i \in Of(p, msgs)}

\* What the client gets of each pipe is a prefix of what the command wrote there,
\* in order: nothing is lost in the middle, doubled or swapped, whatever fails.
InOrder ==
    \A p \in Pipes :
        /\ \E n \in 0..taken[p] : Numbers(p, stream) = 1..n
        /\ \A i, j \in Of(p, stream) : i < j => stream[i][2] < stream[j][2]

\* "This ensures no concurrent stream.Send calls" (commander/commander.go:123), and
\* none once the handler has returned.
NoConcurrentSend == main \in {"final", "returned"} => sender = "returned"

\* A handler that returns with no stream error has sent every chunk that was read,
\* has put the exit chunk last, and leaves no goroutine behind.
CleanReturn ==
    main = "returned" /\ result # "stream" =>
        /\ \A p \in Pipes : reader[p] = "done" /\ Numbers(p, stream) = 1..taken[p]
        /\ \A i \in DOMAIN stream : stream[i] = Exit => i = Len(stream)
        /\ ~chOpen /\ ch = <<>>

\* Once the command has ended, or its context has, Shell returns, if the client reads
\* or goes away: full pipes, a full channel and a grandchild that keeps the pipes
\* open do not block it.
ShellReturns == command # "running" \/ ctxDone ~> main = "returned"

\* "Execute shell commands and stream output (stdout/stderr)" (README.md): a command
\* that ended by itself, with a client that stayed, has all it wrote in the stream.
\* Does not hold: Wait closes pipes that still hold output.
AllOutputStreamed ==
    main = "returned" /\ ~ctxDone /\ ~inherited =>
        \A p \in Pipes : Numbers(p, stream) = 1..written[p]
=============================================================================
