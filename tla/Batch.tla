------------------------------- MODULE Batch -------------------------------
(***************************************************************************)
(* runnerServer.Batch (runner/batch.go): a pipeline of N methods run by a  *)
(* chain of N processes.  Stage k makes a FIFO, forks stage k+1, calls     *)
(* Batch on it with the rest of the pipeline, and then reads its input,    *)
(* applies its method and writes to the FIFO; the last stage writes the    *)
(* output file.  A child serves its one connection until the parent closes *)
(* it and then stops gracefully (runner-cli/main.go).                      *)
(*                                                                         *)
(* Opening a FIFO blocks until the other side opens it too, and nothing    *)
(* interrupts that: neither the context nor the end of the connection.     *)
(***************************************************************************)
EXTENDS Naturals, SequencesExt

CONSTANTS N,          \* the length of the pipeline
          Pipelines,  \* the pipelines a client may ask for
          Inputs,     \* the contents the input file may have
          Copies,     \* the permutations Babble makes of a line (50 in the code)
          Faults      \* what may go wrong, see Fault

Stages == 1..N

\* A line is told apart by what the methods do with it: "empty", only "blanks", "words".
Lines   == {"empty", "blanks", "words"}
Methods == {"Babble", "AppendAndPrint", "AddNewLine", "Unknown"}

ASSUME NAssumption == N \in Nat \ {0} /\ Copies \in Nat \ {0}
ASSUME ContentAssumption == /\ Pipelines \subseteq [Stages -> Methods]
                            /\ Inputs \subseteq Seq(Lines)
                            /\ Faults \subseteq {"setup", "input", "output", "read",
                                                 "diskFull", "crash", "cancel"}

VARIABLES
    pipeline,   \* the request
    input,      \* the content of the input file
    pc,         \* the Batch handler of each stage
    err,        \* the handler's err, by what failed
    lines,      \* what applyMethodToFile has read
    data, eof,  \* what a stage wrote, and whether it closed its end
    fifo,       \* whether the FIFO of a stage exists
    call,       \* the RPC to a stage: what childErr will hold
    conn,       \* the parent's side of the connection to a stage
    proc,       \* the process of a stage
    cancelled,  \* whether the client cancelled its context
    full        \* whether the output device refused a write

vars == <<pipeline, input, pc, err, lines, data, eof, fifo, call, conn, proc,
          cancelled, full>>
request == <<pipeline, input>>
streams == <<lines, data, eof, full>>
links   == <<call, conn, proc>>

Errors == {"setup", "input", "output", "read", "method", "child"}

TypeOK ==
    /\ pipeline \in Pipelines /\ input \in Inputs
    /\ pc \in [Stages -> {"idle", "setup", "openIn", "openOut", "read", "apply",
                          "await", "reap", "returned", "crashed"}]
    /\ err \in [Stages -> Errors \cup {"nil"}]
    /\ {lines, data} \subseteq [Stages -> Seq(Lines)]
    /\ eof \in [Stages -> BOOLEAN] /\ fifo \in [Stages -> BOOLEAN]
    /\ call \in [Stages -> {"none", "sent", "ok", "error"}]
    /\ conn \in [Stages -> {"none", "open", "closed"}]
    /\ proc \in [Stages -> {"unborn", "serving", "stopping", "exited"}]
    /\ cancelled \in BOOLEAN /\ full \in BOOLEAN

Init ==
    /\ pipeline \in Pipelines
    /\ input \in Inputs
    /\ pc = [k \in Stages |-> IF k = 1 THEN "setup" ELSE "idle"]
    /\ err = [k \in Stages |-> "nil"]
    /\ lines = [k \in Stages |-> <<>>]
    /\ data = [k \in Stages |-> <<>>]
    /\ eof = [k \in Stages |-> FALSE]
    /\ fifo = [k \in Stages |-> FALSE]
    /\ call = [k \in Stages |-> "none"]
    /\ conn = [k \in Stages |-> "none"]
    /\ proc = [k \in Stages |-> IF k = 1 THEN "serving" ELSE "unborn"]
    /\ cancelled = FALSE
    /\ full = FALSE

-----------------------------------------------------------------------------
(* The methods, on whole files: the code reads all lines before it writes. *)

NonEmpty(content) ==
    FlattenSeq([i \in DOMAIN content |-> IF content[i] = "empty" THEN <<>> ELSE <<content[i]>>])

\* babbleStrings gives nothing for a line without words.
Babble(l) == IF l = "words" THEN [i \in 1..Copies |-> "words"] ELSE <<>>

\* A character appended to blanks makes a word; AddNewLine prints a newline even
\* when there is nothing to join.
Apply(m, ls) ==
    CASE m = "Babble"         -> FlattenSeq([i \in DOMAIN ls |-> Babble(ls[i])])
      [] m = "AppendAndPrint" -> [i \in DOMAIN ls |-> "words"]
      [] m = "AddNewLine"     -> IF ls = <<>> THEN <<"empty">> ELSE ls

-----------------------------------------------------------------------------
(* Before the method: FIFO, child and the two files.                       *)

Goto(k, from, to) == pc[k] = from /\ pc' = [pc EXCEPT ![k] = to]

\* MkdirTemp, Mkfifo, forkAndDial, and the goroutine that calls the child.
Setup(k) ==
    /\ Goto(k, "setup", "openIn")
    /\ IF k < N
       THEN /\ fifo' = [fifo EXCEPT ![k] = TRUE]
            /\ proc' = [proc EXCEPT ![k + 1] = "serving"]
            /\ conn' = [conn EXCEPT ![k + 1] = "open"]
            /\ call' = [call EXCEPT ![k + 1] = "sent"]
       ELSE UNCHANGED <<fifo, links>>
    /\ UNCHANGED <<request, err, streams, cancelled>>

SetupFails(k) ==
    /\ "setup" \in Faults /\ k < N
    /\ Goto(k, "setup", "returned")
    /\ err' = [err EXCEPT ![k] = "setup"]
    /\ UNCHANGED <<request, streams, fifo, links, cancelled>>

\* applyMethodToFile returned: its deferred calls have closed both files.
Applied(k, from) ==
    /\ Goto(k, from, IF k < N THEN "await" ELSE "returned")
    /\ UNCHANGED <<request, fifo, links, cancelled>>

OpenInput ==
    /\ Goto(1, "openIn", "openOut")
    /\ UNCHANGED <<request, err, streams, fifo, links, cancelled>>

\* No such file: the FIFO is never opened for writing, so its reader gets no EOF.
OpenInputFails ==
    /\ "input" \in Faults
    /\ Applied(1, "openIn")
    /\ err' = [err EXCEPT ![1] = "input"]
    /\ UNCHANGED streams

\* Stage k opens its FIFO for writing and stage k+1 opens it for reading.
OpenFifo(k) ==
    /\ k < N
    /\ pc[k] = "openOut" /\ pc[k + 1] = "openIn"
    /\ pc' = [pc EXCEPT ![k] = "read", ![k + 1] = "openOut"]
    /\ UNCHANGED <<request, err, streams, fifo, links, cancelled>>

OpenOutput ==
    /\ Goto(N, "openOut", "read")
    /\ UNCHANGED <<request, err, streams, fifo, links, cancelled>>

OpenOutputFails ==
    /\ "output" \in Faults
    /\ Applied(N, "openOut")
    /\ err' = [err EXCEPT ![N] = "output"]
    /\ UNCHANGED streams

-----------------------------------------------------------------------------
(* The method.                                                             *)

Arrived(k) == IF k = 1 THEN input ELSE data[k - 1]

Read(k) ==
    /\ k > 1 => eof[k - 1]
    /\ Goto(k, "read", "apply")
    /\ lines' = [lines EXCEPT ![k] = NonEmpty(Arrived(k))]
    /\ UNCHANGED <<request, err, data, eof, full, fifo, links, cancelled>>

\* scanner.Err: a line is too long, and the rest stays unread.
ReadFails(k) ==
    /\ "read" \in Faults
    /\ Applied(k, "read")
    /\ err' = [err EXCEPT ![k] = "read"]
    /\ eof' = [eof EXCEPT ![k] = TRUE]
    /\ UNCHANGED <<lines, data, full>>

Write(k, content) ==
    /\ pipeline[k] # "Unknown"
    /\ Applied(k, "apply")
    /\ data' = [data EXCEPT ![k] = content]
    /\ UNCHANGED <<err, lines>>

\* Mutant: the FIFO is left open.
RunNoClose(k) == Write(k, Apply(pipeline[k], lines[k])) /\ UNCHANGED <<eof, full>>

\* A FIFO takes everything: its reader reads to the end, or is gone (EPIPE).
Run(k) ==
    /\ Write(k, Apply(pipeline[k], lines[k]))
    /\ eof' = [eof EXCEPT ![k] = TRUE]
    /\ UNCHANGED full

\* The device of the output file refuses a write; Fprintln's error is dropped.
RunDiskFull ==
    /\ "diskFull" \in Faults
    /\ Write(N, <<>>)
    /\ eof' = [eof EXCEPT ![N] = TRUE]
    /\ full' = TRUE

UnknownMethod(k) ==
    /\ pipeline[k] = "Unknown"
    /\ Applied(k, "apply")
    /\ err' = [err EXCEPT ![k] = "method"]
    /\ eof' = [eof EXCEPT ![k] = TRUE]
    /\ UNCHANGED <<lines, data, full>>

-----------------------------------------------------------------------------
(* After the method: the child's answer, its connection, its exit.         *)

\* Mutant: the child's error is received and dropped.
AwaitDropsError(k) ==
    /\ k < N /\ call[k + 1] \in {"ok", "error"}
    /\ Goto(k, "await", "reap")
    /\ conn' = [conn EXCEPT ![k + 1] = "closed"]
    /\ UNCHANGED <<request, err, streams, fifo, call, proc, cancelled>>

\* Mutant: the answer's status is taken for the error itself.
AwaitRawError(k) ==
    /\ k < N /\ call[k + 1] \in {"ok", "error"}
    /\ Goto(k, "await", "reap")
    /\ conn' = [conn EXCEPT ![k + 1] = "closed"]
    /\ err' = [err EXCEPT ![k] = call[k + 1]]
    /\ UNCHANGED <<request, streams, fifo, call, proc, cancelled>>

\* <-childErr, then childCC.Close().
Await(k) ==
    /\ k < N /\ call[k + 1] \in {"ok", "error"}
    /\ Goto(k, "await", "reap")
    /\ conn' = [conn EXCEPT ![k + 1] = "closed"]
    /\ err' = [err EXCEPT ![k] = IF call[k + 1] = "error" /\ @ = "nil"
                                 THEN "child" ELSE @]
    /\ UNCHANGED <<request, streams, fifo, call, proc, cancelled>>

\* Mutant: the handler returns without waitForPid.
ReapSkipped(k) ==
    /\ Goto(k, "reap", "returned")
    /\ fifo' = [fifo EXCEPT ![k] = FALSE]
    /\ UNCHANGED <<request, err, streams, links, cancelled>>

\* waitForPid; the deferred RemoveAll runs as the handler returns.
Reap(k) ==
    /\ k < N /\ proc[k + 1] = "exited"
    /\ Goto(k, "reap", "returned")
    /\ fifo' = [fifo EXCEPT ![k] = FALSE]
    /\ UNCHANGED <<request, err, streams, links, cancelled>>

-----------------------------------------------------------------------------
(* gRPC between the stages (external), and the children's main function.   *)

\* A handler's context ends with its client's, with the RPC or with the connection.
ContextDone(k) ==
    IF k = 1 THEN cancelled
    ELSE call[k] = "error" \/ proc[k] = "stopping" \/ pc[k - 1] = "crashed"

Deliver(k) ==
    /\ k > 1 /\ call[k] = "sent" /\ proc[k] = "serving"
    /\ Goto(k, "idle", "setup")
    /\ UNCHANGED <<request, err, streams, fifo, links, cancelled>>

\* The answer arrives, the connection breaks, or the caller's context is done.
CallReturns(k) ==
    /\ k > 1 /\ call[k] = "sent"
    /\ \/ /\ pc[k] = "returned"
          /\ call' = [call EXCEPT ![k] = IF err[k] = "nil" THEN "ok" ELSE "error"]
       \/ /\ proc[k] = "exited" \/ ContextDone(k - 1)
          /\ call' = [call EXCEPT ![k] = "error"]
    /\ UNCHANGED <<request, pc, err, streams, fifo, conn, proc, cancelled>>

\* exitOnClose.Read fails, and main goes on to GracefulStop.
SeesClose(k) ==
    /\ k > 1 /\ proc[k] = "serving"
    /\ conn[k] = "closed" \/ pc[k - 1] = "crashed"
    /\ proc' = [proc EXCEPT ![k] = "stopping"]
    /\ UNCHANGED <<request, pc, err, streams, fifo, call, conn, cancelled>>

\* GracefulStop returns once no handler runs; then main does.
ProcessExits(k) ==
    /\ proc[k] = "stopping"
    /\ pc[k] \in {"idle", "returned"}
    /\ proc' = [proc EXCEPT ![k] = "exited"]
    /\ UNCHANGED <<request, pc, err, streams, fifo, call, conn, cancelled>>

\* A child dies.  The kernel closes its files: whoever reads its FIFO gets EOF.
Crash(k) ==
    /\ "crash" \in Faults
    /\ k > 1 /\ proc[k] \in {"serving", "stopping"}
    /\ proc' = [proc EXCEPT ![k] = "exited"]
    /\ pc' = [pc EXCEPT ![k] = "crashed"]
    /\ eof' = [eof EXCEPT ![k] = @ \/ pc[k] \in {"read", "apply"}]
    /\ UNCHANGED <<request, err, lines, data, full, fifo, call, conn, cancelled>>

Cancel ==
    /\ "cancel" \in Faults
    /\ ~cancelled /\ pc[1] # "returned"
    /\ cancelled' = TRUE
    /\ UNCHANGED <<request, pc, err, streams, fifo, links, full>>

-----------------------------------------------------------------------------
Handler(k) == \/ Setup(k) \/ OpenFifo(k) \/ Read(k) \/ Run(k) \/ UnknownMethod(k)
              \/ Await(k) \/ Reap(k)
              \/ k = 1 /\ OpenInput
              \/ k = N /\ OpenOutput

Failure(k) == SetupFails(k) \/ ReadFails(k) \/ Crash(k)

Server(k) == Deliver(k) \/ CallReturns(k) \/ SeesClose(k) \/ ProcessExits(k)

Next == \/ \E k \in Stages : Handler(k) \/ Failure(k) \/ Server(k)
        \/ OpenInputFails \/ OpenOutputFails \/ RunDiskFull
        \/ Cancel

\* Every process runs and gRPC delivers; what can fail need not fail.
Fairness == \A k \in Stages : WF_vars(Handler(k)) /\ WF_vars(Server(k))

Spec == Init /\ [][Next]_vars /\ Fairness

-----------------------------------------------------------------------------
(* Properties.                                                             *)

\* The pipeline as a function: method k applied to the non-empty lines of k-1.
Expected ==
    LET result[k \in 0..N] ==
            IF k = 0 THEN input
            ELSE Apply(pipeline[k], NonEmpty(result[k - 1]))
    IN  result[N]

\* A Batch that returns no error ran every method on all of the input, whichever
\* stages failed, crashed or were cancelled, unless the output device was full.
SuccessMeansComplete ==
    pc[1] = "returned" /\ err[1] = "nil" =>
        /\ \A k \in Stages : pc[k] # "crashed" => err[k] = "nil"
        /\ \A k \in Stages : pipeline[k] # "Unknown"
        /\ full \/ data[N] = Expected

\* When Batch returns, with or without an error, the whole chain has exited and its
\* FIFOs are gone, provided no stage of it crashed.
ReturnLeavesNothing ==
    pc[1] = "returned" /\ (\A k \in Stages : pc[k] # "crashed") =>
        \A k \in Stages \ {1} : proc[k] \in {"unborn", "exited"} /\ ~fifo[k - 1]

\* The FIFO a child was told to read exists until the child has opened it.
FifoOutlivesOpen ==
    \A k \in Stages \ {1} : pc[k] \in {"setup", "openIn"} => fifo[k - 1]

\* Batch returns, unless it was cancelled or a stage ended before it had opened the
\* FIFOs it shares with its neighbours: then its neighbour may wait in open(2).
EndedBeforeOpen ==
    cancelled \/ \E k \in Stages : pc[k] = "crashed" \/ err[k] \in {"setup", "input"}
ReturnsOnceOpened == pc[1] = "setup" ~> pc[1] = "returned" \/ EndedBeforeOpen

\* "If we have a child, close the FIFO (EOF to child) and wait" (runner/batch.go:91):
\* after applyMethodToFile the child gets EOF, so Batch returns.  Does not hold when
\* the input file cannot be opened.
BatchReturns == pc[1] = "setup" ~> pc[1] = "returned"
=============================================================================
