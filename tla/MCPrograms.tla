----------------------------- MODULE MCPrograms -----------------------------
(***************************************************************************)
(* Three programs that share nothing, each in behaviours of its own: a     *)
(* loader with its client, a program on a pseudo-terminal, the boot of an  *)
(* identifier.  One of them starts, the others stay idle for good.         *)
(***************************************************************************)
EXTENDS LoaderCli, Terminal, Boot

Call(method, n) == [method |-> method, n |-> n]

\* Each kind of method, mostly two calls at a time: one that streams beside one that
\* disturbs it, and processes beside calls that share their stdin or stop them.
\* Shell's number is whether it has a timeout, Stop's the call that started the
\* process, Batch's its length.
MCScripts == {<<Call("AppendAndPrint", 2), Call("Exec", 0)>>,
              <<Call("AddNewLine", 2), Call("Fork", 0)>>,
              <<Call("Render", 3)>>,
              <<Call("RenderBytes", 0), Call("Link", 0)>>,
              <<Call("Babble", 1), Call("Garbage", 0)>>,
              <<Call("Shell", 0), Call("Shell", 1)>>,
              <<Call("Spawn", 0), Call("Stop", 1)>>,
              <<Call("Batch", 1), Call("Babble", 0)>>,
              <<Call("Batch", 2), Call("Authority", 0)>>}

\* The order of the names is the order of the movie below FrameLimit, and not at it:
\* images/imager.go:162 and images/generate/main.go:143 with names of two binary digits
\* for four decimal ones.
ASSUME FramesInOrder ==
    /\ \A n \in 0..(FrameLimit - 1) : SortedFrames(n) = [i \in 1..n |-> i]
    /\ \A n, max \in 0..(FrameLimit - 1) : KeptFrames(n, max) = [i \in 1..Min({n, max}) |-> i]
    /\ SortedFrames(FrameLimit) # [i \in 1..FrameLimit |-> i]

Init == \/ LoaderInit /\ TerminalIdle /\ BootIdle
        \/ LoaderIdle /\ TerminalInit /\ BootIdle
        \/ LoaderIdle /\ TerminalIdle /\ BootInit

Next == \/ LoaderNext /\ UNCHANGED <<terminalVars, bootVars>>
        \/ TerminalNext /\ UNCHANGED <<loaderVars, bootVars>>
        \/ BootNext /\ UNCHANGED <<loaderVars, terminalVars>>

Spec == /\ Init /\ [][Next]_<<loaderVars, terminalVars, bootVars>>
        /\ LoaderFairness /\ TerminalFairness

\* The state of each program is what its module says it may be.
TypeOK == LoaderTypeOK /\ TerminalTypeOK /\ BootTypeOK
=============================================================================
