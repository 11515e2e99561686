---------------------------- MODULE Batch_proofs ----------------------------
(***************************************************************************)
(* Proofs about Batch, for pipelines of any length.                        *)
(*                                                                         *)
(* The inductive invariant Inv relates each stage to every later one.      *)
(* Life orders handler, process and FIFO of one stage (it carries          *)
(* FifoThere).  Chain says that nothing is left after a stage that has     *)
(* returned or exited (NothingLeft): stated of all later stages, not of    *)
(* the next one, it needs no induction along the chain.  Answered does the *)
(* same for successful calls, and Data says that what a stage read was     *)
(* complete.  That the contents then are those of the pipeline as a        *)
(* function (Composed), and that a concatenation of sequences is one       *)
(* (Flattened), is shown by the least counterexample.                      *)
(***************************************************************************)
EXTENDS Batch, SequenceTheorems, WellFoundedInduction, TLAPS

-----------------------------------------------------------------------------
(* Invariants.                                                             *)

\* TypeOK without the contents.
Control ==
    /\ pc \in [Stages -> {"idle", "setup", "openIn", "openOut", "read", "apply",
                          "await", "reap", "returned", "crashed"}]
    /\ err \in [Stages -> Errors \cup {"nil"}]
    /\ DOMAIN lines = Stages /\ DOMAIN data = Stages
    /\ eof \in [Stages -> BOOLEAN] /\ fifo \in [Stages -> BOOLEAN]
    /\ call \in [Stages -> {"none", "sent", "ok", "error"}]
    /\ conn \in [Stages -> {"none", "open", "closed"}]
    /\ proc \in [Stages -> {"unborn", "serving", "stopping", "exited"}]
    /\ cancelled \in BOOLEAN /\ full \in BOOLEAN

\* A stage's process outlives its handler, and its FIFO the process that reads it; what
\* comes after a stage is not there before the stage sets it up.
Life ==
    /\ proc[1] = "serving"
    /\ \A k \in Stages :
           /\ proc[k] = "exited" => pc[k] \in {"idle", "returned", "crashed"}
           /\ pc[k] = "crashed" => proc[k] = "exited"
           /\ proc[k] = "unborn" => pc[k] = "idle"
           /\ k > 1 => (call[k] = "none" <=> proc[k] = "unborn")
           /\ k > 1 /\ proc[k] # "unborn" /\ ~fifo[k - 1] => proc[k] = "exited"
           /\ k < N /\ pc[k] \in {"idle", "setup"} => proc[k + 1] = "unborn" /\ ~fifo[k]

\* Nothing of a stage is left, on either side of its FIFO.
Gone(k) == proc[k] \in {"unborn", "exited"} /\ ~fifo[k - 1]

\* Nothing is left after a stage that has returned or whose process has exited.
Chain ==
    (\A k \in Stages : pc[k] # "crashed") =>
        \A j, k \in Stages :
            j < k /\ (pc[j] = "returned" \/ (j > 1 /\ proc[j] \in {"unborn", "exited"})) => Gone(k)

\* A call that has succeeded was answered without an error, and so was every later one.
Answered ==
    /\ \A k \in Stages :
           k > 1 /\ call[k] = "ok" => err[k] = "nil" /\ pc[k] \in {"returned", "crashed"}
    /\ \A j, k \in Stages :
           /\ j < k
           /\ (pc[j] \in {"reap", "returned"} /\ err[j] = "nil") \/ (j > 1 /\ call[j] = "ok")
           => call[k] = "ok"

\* Stage k has applied its method to all that stage k-1 wrote.
Done(k) ==
    /\ eof[k] /\ pipeline[k] # "Unknown"
    /\ k > 1 => eof[k - 1]
    /\ data[k] = Apply(pipeline[k], NonEmpty(Arrived(k))) \/ (k = N /\ full)

\* What a stage wrote is complete once its end of the FIFO is closed, and a stage that
\* answers without an error has done its work.
Data ==
    \A k \in Stages :
        /\ pc[k] \in {"idle", "setup", "openIn", "openOut", "read", "apply"} => ~eof[k]
        /\ pc[k] = "apply" => (k > 1 => eof[k - 1]) /\ lines[k] = NonEmpty(Arrived(k))
        /\ (pc[k] \in {"await", "reap", "returned"} /\ err[k] = "nil") \/ (k > 1 /\ call[k] = "ok")
               => Done(k)

-----------------------------------------------------------------------------
(* Steps.                                                                  *)

Running == {"openIn", "openOut", "read", "apply", "await", "reap"}

\* The steps of one or two handlers between setup and their child's answer.
Works == \/ OpenInput \/ OpenInputFails \/ OpenOutput \/ OpenOutputFails \/ RunDiskFull
         \/ \E k \in Stages : \/ OpenFifo(k) \/ Read(k) \/ ReadFails(k)
                              \/ Run(k) \/ UnknownMethod(k)

\* The neighbours of a stage.
LEMMA StageNumbers ==
    /\ 1 \in Stages /\ N \in Stages /\ N \in Nat /\ N >= 1
    /\ \A k \in Stages : k \in Nat /\ k >= 1 /\ k <= N
    /\ \A k \in Stages : k < N => k + 1 \in Stages
    /\ \A k \in Stages : k > 1 => k - 1 \in Stages /\ k - 1 < N
    /\ \A k \in Stages : k - 1 + 1 = k /\ k + 1 - 1 = k
  BY NAssumption DEF Stages

\* What those steps do to the control.
LEMMA Working ==
    ASSUME Control, Works
    PROVE  /\ UNCHANGED <<fifo, call, conn, proc, cancelled, pipeline, input>>
           /\ Control'
           /\ \A i \in Stages :
                  /\ \/ pc'[i] = pc[i] /\ err'[i] = err[i]
                     \/ pc[i] \in Running /\ pc'[i] \in Running \ {"reap"}
                     \/ pc[i] \in Running /\ pc'[i] = "returned" /\ i = N
  <1> USE StageNumbers DEF Control, Running, Errors
  <1>1. CASE OpenInput
    BY <1>1 DEF OpenInput, Goto, request, streams, links
  <1>2. CASE OpenInputFails
    BY <1>2 DEF OpenInputFails, Applied, Goto, request, streams, links
  <1>3. CASE OpenOutput
    BY <1>3 DEF OpenOutput, Goto, request, streams, links
  <1>4. CASE OpenOutputFails
    BY <1>4 DEF OpenOutputFails, Applied, Goto, request, streams, links
  <1>5. CASE RunDiskFull
    BY <1>5 DEF RunDiskFull, Write, Applied, Goto, request, streams, links
  <1>6. ASSUME NEW k \in Stages, OpenFifo(k) \/ Read(k)
        PROVE  /\ UNCHANGED <<fifo, call, conn, proc, cancelled, pipeline, input>>
               /\ Control'
               /\ \A i \in Stages : \/ pc'[i] = pc[i] /\ err'[i] = err[i]
                                    \/ pc[i] \in Running /\ pc'[i] \in Running \ {"reap"}
    <2>1. CASE OpenFifo(k)
      BY <2>1 DEF OpenFifo, request, streams, links
    <2>2. CASE Read(k)
      BY <2>2 DEF Read, Goto, request, links
    <2> QED
      BY <1>6, <2>1, <2>2
  <1>7. ASSUME NEW k \in Stages, ReadFails(k) \/ Run(k) \/ UnknownMethod(k)
        PROVE  /\ UNCHANGED <<fifo, call, conn, proc, cancelled, pipeline, input>>
               /\ Control'
               /\ \A i \in Stages : \/ pc'[i] = pc[i] /\ err'[i] = err[i]
                                    \/ pc[i] \in Running /\ pc'[i] \in Running \ {"reap"}
                                    \/ pc[i] \in Running /\ pc'[i] = "returned" /\ i = N
    <2>1. CASE ReadFails(k)
      BY <2>1 DEF ReadFails, Applied, Goto, request, links
    <2>2. CASE Run(k)
      BY <2>2 DEF Run, Write, Applied, Goto, request, links
    <2>3. CASE UnknownMethod(k)
      BY <2>3 DEF UnknownMethod, Applied, Goto, request, links
    <2> QED
      BY <1>7, <2>1, <2>2, <2>3
  <1> QED
    BY <1>1, <1>2, <1>3, <1>4, <1>5, <1>6, <1>7 DEF Works

\* The other steps, one or two processes at a time.
Links(k) == \/ Setup(k) \/ SetupFails(k) \/ Await(k) \/ Reap(k) \/ Crash(k)
            \/ Deliver(k) \/ CallReturns(k) \/ SeesClose(k) \/ ProcessExits(k)

\* Every step is one of these, or a cancellation.
LEMMA Steps ==
    ASSUME [Next]_vars
    PROVE  Works \/ (\E k \in Stages : Links(k)) \/ Cancel \/ UNCHANGED vars
  BY StageNumbers DEF Next, Handler, Failure, Server, Works, Links

\* The control keeps its types.
LEMMA ControlKept ==
    ASSUME Control, [Next]_vars
    PROVE  Control'
  <1> USE StageNumbers DEF Control, Errors
  <1>1. CASE Works
    BY <1>1, Working
  <1>2. ASSUME NEW k \in Stages, Links(k)
        PROVE  Control'
    <2> USE <1>2 DEF Goto, request, streams, links
    <2>1. CASE Setup(k)
      <3>1. pc[k] = "setup" /\ pc' = [pc EXCEPT ![k] = "openIn"]
            /\ UNCHANGED <<err, lines, data, eof, full, cancelled>>
        BY <2>1 DEF Setup
      <3>2. CASE k < N
        <4>1. k + 1 \in Stages
          BY <3>2
        <4>2. /\ fifo' = [fifo EXCEPT ![k] = TRUE] /\ proc' = [proc EXCEPT ![k + 1] = "serving"]
              /\ conn' = [conn EXCEPT ![k + 1] = "open"] /\ call' = [call EXCEPT ![k + 1] = "sent"]
          BY <2>1, <3>2 DEF Setup
        <4>3. fifo' \in [Stages -> BOOLEAN] /\ call' \in [Stages -> {"none", "sent", "ok", "error"}]
          BY <4>1, <4>2
        <4>4. /\ conn' \in [Stages -> {"none", "open", "closed"}]
              /\ proc' \in [Stages -> {"unborn", "serving", "stopping", "exited"}]
          BY <4>1, <4>2
        <4> QED
          BY <3>1, <4>3, <4>4
      <3>3. CASE ~(k < N)
        BY <2>1, <3>1, <3>3 DEF Setup
      <3> QED
        BY <3>2, <3>3
    <2>2. CASE SetupFails(k)
      BY <2>2 DEF SetupFails
    <2>3. CASE Await(k)
      BY <2>3 DEF Await
    <2>4. CASE Reap(k)
      BY <2>4 DEF Reap
    <2>5. CASE Crash(k)
      BY <2>5 DEF Crash
    <2>6. CASE Deliver(k)
      BY <2>6 DEF Deliver
    <2>7. CASE CallReturns(k)
      BY <2>7 DEF CallReturns
    <2>8. CASE SeesClose(k)
      BY <2>8 DEF SeesClose
    <2>9. CASE ProcessExits(k)
      BY <2>9 DEF ProcessExits
    <2> QED
      BY <1>2, <2>1, <2>2, <2>3, <2>4, <2>5, <2>6, <2>7, <2>8, <2>9 DEF Links
  <1>3. CASE Cancel
    BY <1>3 DEF Cancel, request, streams, links
  <1>4. CASE UNCHANGED vars
    BY <1>4 DEF vars
  <1> QED
    BY <1>1, <1>2, <1>3, <1>4, Steps

\* Processes, handlers and FIFOs come and go in their order.
LEMMA LifeKept ==
    ASSUME Control, Life, [Next]_vars
    PROVE  Life'
  <1> USE StageNumbers DEF Control, Life
  <1>1. CASE Works
    BY <1>1, Working DEF Running
  <1>2. ASSUME NEW k \in Stages, Links(k)
        PROVE  Life'
    <2> USE <1>2 DEF Goto, request, streams, links
    <2>1. CASE Setup(k)
      BY <2>1 DEF Setup
    <2>2. CASE SetupFails(k)
      BY <2>2 DEF SetupFails
    <2>3. CASE Await(k)
      BY <2>3 DEF Await
    <2>4. CASE Reap(k)
      BY <2>4 DEF Reap
    <2>5. CASE Crash(k)
      BY <2>5 DEF Crash
    <2>6. CASE Deliver(k)
      BY <2>6 DEF Deliver
    <2>7. CASE CallReturns(k)
      BY <2>7 DEF CallReturns
    <2>8. CASE SeesClose(k)
      BY <2>8 DEF SeesClose
    <2>9. CASE ProcessExits(k)
      BY <2>9 DEF ProcessExits
    <2> QED
      BY <1>2, <2>1, <2>2, <2>3, <2>4, <2>5, <2>6, <2>7, <2>8, <2>9 DEF Links
  <1>3. CASE Cancel
    BY <1>3 DEF Cancel, request, streams, links
  <1>4. CASE UNCHANGED vars
    BY <1>4 DEF vars
  <1> QED
    BY <1>1, <1>2, <1>3, <1>4, Steps

\* A stage only ends, and a process only exits, when nothing is left behind it.
LEMMA ChainKept ==
    ASSUME Control, Life, Chain, [Next]_vars
    PROVE  Chain'
  <1> USE StageNumbers DEF Control, Life, Chain, Gone
  <1>1. CASE Works
    BY <1>1, Working DEF Running
  <1>2. ASSUME NEW k \in Stages, Links(k)
        PROVE  Chain'
    <2> USE <1>2 DEF Goto, request, streams, links
    <2>1. CASE Setup(k)
      BY <2>1 DEF Setup
    <2>2. CASE SetupFails(k)
      BY <2>2 DEF SetupFails
    <2>3. CASE Await(k)
      BY <2>3 DEF Await
    <2>4. CASE Reap(k)
      BY <2>4 DEF Reap
    <2>5. CASE Crash(k)
      BY <2>5 DEF Crash
    <2>6. CASE Deliver(k)
      BY <2>6 DEF Deliver
    <2>7. CASE CallReturns(k)
      BY <2>7 DEF CallReturns
    <2>8. CASE SeesClose(k)
      BY <2>8 DEF SeesClose
    <2>9. CASE ProcessExits(k)
      <3>1. /\ pc[k] \in {"idle", "returned"} /\ proc[k] = "stopping" /\ k > 1
            /\ proc' = [proc EXCEPT ![k] = "exited"] /\ UNCHANGED <<pc, fifo>>
        BY <2>9 DEF ProcessExits
      <3> SUFFICES ASSUME \A i \in Stages : pc[i] # "crashed",
                          NEW j \in Stages, NEW i \in Stages, j < i,
                          pc[j] = "returned" \/ (j > 1 /\ proc'[j] \in {"unborn", "exited"})
                   PROVE  Gone(i)'
        BY <3>1
      <3>2. CASE j = k /\ pc[k] = "idle"
        <4>1. proc[k + 1] = "unborn" /\ ~fifo[k] /\ k + 1 \in Stages
          BY <3>1, <3>2
        <4>2. CASE i = k + 1
          BY <3>1, <4>1, <4>2
        <4>3. CASE i # k + 1
          <5>1. k + 1 < i
            BY <3>2, <4>3
          <5> QED
            BY <3>1, <4>1, <5>1
        <4> QED
          BY <4>2, <4>3
      <3>3. CASE j # k \/ pc[k] = "returned"
        <4>1. pc[j] = "returned" \/ (j > 1 /\ proc[j] \in {"unborn", "exited"})
          BY <3>1, <3>3
        <4>2. Gone(i)
          BY <4>1
        <4> QED
          BY <3>1, <4>2
      <3> QED
        BY <3>1, <3>2, <3>3
    <2> QED
      BY <1>2, <2>1, <2>2, <2>3, <2>4, <2>5, <2>6, <2>7, <2>8, <2>9 DEF Links
  <1>3. CASE Cancel
    BY <1>3 DEF Cancel, request, streams, links
  <1>4. CASE UNCHANGED vars
    BY <1>4 DEF vars, request
  <1> QED
    BY <1>1, <1>2, <1>3, <1>4, Steps

\* A call only succeeds when all the later ones have.
LEMMA AnsweredKept ==
    ASSUME Control, Life, Answered, [Next]_vars
    PROVE  Answered'
  <1> USE StageNumbers DEF Control, Life, Answered
  <1>1. CASE Works
    BY <1>1, Working DEF Running
  <1>2. ASSUME NEW k \in Stages, Links(k)
        PROVE  Answered'
    <2> USE <1>2 DEF Goto, request, streams, links
    <2>1. CASE Setup(k)
      BY <2>1 DEF Setup
    <2>2. CASE SetupFails(k)
      BY <2>2 DEF SetupFails
    <2>3. CASE Await(k)
      BY <2>3 DEF Await
    <2>4. CASE Reap(k)
      BY <2>4 DEF Reap
    <2>5. CASE Crash(k)
      BY <2>5 DEF Crash
    <2>6. CASE Deliver(k)
      BY <2>6 DEF Deliver
    <2>7. CASE CallReturns(k)
      BY <2>7 DEF CallReturns
    <2>8. CASE SeesClose(k)
      BY <2>8 DEF SeesClose
    <2>9. CASE ProcessExits(k)
      BY <2>9 DEF ProcessExits
    <2> QED
      BY <1>2, <2>1, <2>2, <2>3, <2>4, <2>5, <2>6, <2>7, <2>8, <2>9 DEF Links
  <1>3. CASE Cancel
    BY <1>3 DEF Cancel, request, streams, links
  <1>4. CASE UNCHANGED vars
    BY <1>4 DEF vars, request
  <1> QED
    BY <1>1, <1>2, <1>3, <1>4, Steps

\* What a stage has read stays complete, and what it answers for stays written.
LEMMA DataKept ==
    ASSUME Control, Life, Answered, Data, [Next]_vars
    PROVE  Data'
  <1> USE StageNumbers DEF Control, Life, Answered, Data, Done, Arrived
  <1>1. CASE Works
    <2> USE Working DEF Running, Goto, Applied, request, links
    <2>1. CASE OpenInput
      BY <1>1, <2>1 DEF OpenInput, streams
    <2>2. CASE OpenInputFails
      BY <1>1, <2>2 DEF OpenInputFails, streams, Errors
    <2>3. CASE OpenOutput
      BY <1>1, <2>3 DEF OpenOutput, streams
    <2>4. CASE OpenOutputFails
      BY <1>1, <2>4 DEF OpenOutputFails, streams, Errors
    <2>5. CASE RunDiskFull
      BY <1>1, <2>5 DEF RunDiskFull, Write
    <2>6. ASSUME NEW k \in Stages, OpenFifo(k)
          PROVE  Data'
      BY <1>1, <2>6 DEF OpenFifo, streams
    <2>7. ASSUME NEW k \in Stages, Read(k)
          PROVE  Data'
      BY <1>1, <2>7 DEF Read
    <2>8. ASSUME NEW k \in Stages, ReadFails(k)
          PROVE  Data'
      BY <1>1, <2>8 DEF ReadFails
    <2>9. ASSUME NEW k \in Stages, Run(k)
          PROVE  Data'
      BY <1>1, <2>9 DEF Run, Write
    <2>10. ASSUME NEW k \in Stages, UnknownMethod(k)
          PROVE  Data'
      BY <1>1, <2>10 DEF UnknownMethod
    <2> QED
      BY <1>1, <2>1, <2>2, <2>3, <2>4, <2>5, <2>6, <2>7, <2>8, <2>9, <2>10 DEF Works
  <1>2. ASSUME NEW k \in Stages, Links(k)
        PROVE  Data'
    <2> USE <1>2 DEF Goto, request, streams, links
    <2>1. CASE Setup(k)
      BY <2>1 DEF Setup
    <2>2. CASE SetupFails(k)
      BY <2>2 DEF SetupFails
    <2>3. CASE Await(k)
      BY <2>3 DEF Await
    <2>4. CASE Reap(k)
      BY <2>4 DEF Reap
    <2>5. CASE Crash(k)
      BY <2>5 DEF Crash
    <2>6. CASE Deliver(k)
      BY <2>6 DEF Deliver
    <2>7. CASE CallReturns(k)
      BY <2>7 DEF CallReturns
    <2>8. CASE SeesClose(k)
      BY <2>8 DEF SeesClose
    <2>9. CASE ProcessExits(k)
      BY <2>9 DEF ProcessExits
    <2> QED
      BY <1>2, <2>1, <2>2, <2>3, <2>4, <2>5, <2>6, <2>7, <2>8, <2>9 DEF Links
  <1>3. CASE Cancel
    BY <1>3 DEF Cancel, request, streams, links
  <1>4. CASE UNCHANGED vars
    BY <1>4 DEF vars, request
  <1> QED
    BY <1>1, <1>2, <1>3, <1>4, Steps

-----------------------------------------------------------------------------
(* The pipeline as a function.                                             *)

\* Every set of numbers that is not empty has a least element: what stands for induction.
LEMMA Minimal ==
    ASSUME NEW R, NEW S, IsWellFoundedOn(R, S)
    PROVE  \A T : T \subseteq S /\ T # {} => \E x \in T : \A y \in T : <<y, x>> \notin R
  BY WFMin

LEMMA Least ==
    ASSUME NEW S, S \subseteq Nat, S # {}
    PROVE  \E m \in S : \A n \in S : m <= n
  <1>1. IsWellFoundedOn(OpToRel(<, Nat), Nat)
    BY NatLessThanWellFounded
  <1>2. OpToRel(<, Nat) = {ss \in Nat \X Nat : ss[1] < ss[2]}
    BY DEF OpToRel
  <1>3. PICK R : R = {ss \in Nat \X Nat : ss[1] < ss[2]}
    OBVIOUS
  <1>4. PICK Base : Base = Nat
    OBVIOUS
  <1>5. \A a, b \in Nat : a < b => <<a, b>> \in R
    BY <1>3
  <1>6. IsWellFoundedOn(R, Base)
    BY <1>1, <1>2, <1>3, <1>4
  <1>7. \A T : T \subseteq Base /\ T # {} => \E x \in T : \A y \in T : <<y, x>> \notin R
    BY <1>6, Minimal
  <1>8. PICK x \in S : \A y \in S : <<y, x>> \notin R
    BY <1>4, <1>7
  <1>9. ASSUME NEW y \in S
        PROVE  x <= y
    <2>1. x \in Nat /\ y \in Nat /\ ~(y < x)
      BY <1>5, <1>8
    <2> QED
      BY <2>1
  <1> QED
    BY <1>9

\* Contents that follow from one another are what the pipeline gives.
LEMMA Composed ==
    ASSUME NEW f, f = [k \in 0..N |-> f[k]], f[0] = input,
           \A k \in Stages : f[k] = Apply(pipeline[k], NonEmpty(f[k - 1]))
    PROVE  f[N] = Expected
  <1> DEFINE Step(r) == [k \in 0..N |-> IF k = 0 THEN input
                                        ELSE Apply(pipeline[k], NonEmpty(r[k - 1]))]
             result == CHOOSE r : r = Step(r)
  <1>1. Expected = result[N]
    BY DEF Expected
  <1>2. f = Step(f)
    <2>1. \A k \in 0..N : k # 0 => k \in Stages
      BY NAssumption DEF Stages
    <2>2. \A k \in 0..N : f[k] = Step(f)[k]
      BY <2>1
    <2>3. f = [k \in 0..N |-> f[k]] /\ Step(f) = [k \in 0..N |-> Step(f)[k]]
      OBVIOUS
    <2> HIDE DEF Step
    <2> QED
      BY <2>2, <2>3
  <1>3. result = Step(result)
    <2> HIDE DEF Step
    <2> QED
      BY <1>2
  <1> HIDE DEF result
  <1> DEFINE Wrong == {k \in 0..N : result[k] # f[k]}
  <1>4. Wrong = {}
    <2> SUFFICES ASSUME Wrong # {}
                 PROVE  FALSE
      OBVIOUS
    <2>1. Wrong \subseteq Nat
      OBVIOUS
    <2>2. \E m \in Wrong : \A n \in Wrong : m <= n
      <3> HIDE DEF Wrong
      <3> QED
        BY <2>1, Least
    <2>3. PICK m \in Wrong : \A n \in Wrong : m <= n
      BY <2>2
    <2>4. \A k \in 0..N : result[k] = Step(result)[k]
      BY <1>3
    <2>5. CASE m = 0
      BY <2>3, <2>4, <2>5
    <2>6. CASE m # 0
      <3>1. m \in Stages /\ m - 1 \in 0..N /\ m - 1 < m /\ m \in Nat /\ m - 1 \in Nat
        BY <2>3, <2>6, NAssumption DEF Stages
      <3>2. m - 1 \notin Wrong
        BY <2>3, <3>1
      <3>3. result[m - 1] = f[m - 1]
        BY <3>1, <3>2
      <3>4. result[m] = Apply(pipeline[m], NonEmpty(result[m - 1]))
        BY <2>3, <2>4, <2>6
      <3> QED
        BY <2>3, <3>1, <3>3, <3>4
    <2> QED
      BY <2>5, <2>6
  <1> QED
    BY <1>1, <1>4, NAssumption

-----------------------------------------------------------------------------
(* What the methods write is lines.                                        *)

\* A concatenation of sequences is a sequence.
LEMMA Flattened ==
    ASSUME NEW S, NEW ss \in Seq(Seq(S))
    PROVE  FlattenSeq(ss) \in Seq(S)
  <1> DEFINE n == Len(ss)
             Part(m, r) == [i \in 1..m |-> IF i = 1 THEN ss[i] ELSE r[i - 1] \o ss[i]]
             flat == CHOOSE r : r = Part(n, r)
             Bad == {m \in 0..n : ~ \E r : r = Part(m, r)}
             Wrong == {i \in 1..n : flat[i] \notin Seq(S)}
  <1>1. n \in Nat /\ \A i \in 1..n : ss[i] \in Seq(S)
    OBVIOUS
  <1>2. CASE n = 0
    BY <1>2 DEF FlattenSeq
  <1>3. CASE n # 0
    <2>1. FlattenSeq(ss) = flat[n]
      BY <1>3 DEF FlattenSeq
    <2> HIDE DEF n
    <2>2. Bad = {}
      <3> SUFFICES ASSUME Bad # {}
                   PROVE  FALSE
        OBVIOUS
      <3>1. PICK m \in Bad : \A k \in Bad : m <= k
        <4> HIDE DEF Part
        <4>1. Bad \subseteq Nat
          BY <1>1
        <4> HIDE DEF Bad
        <4> QED
          BY <4>1, Least
      <3>2. CASE m = 0
        <4>1. Part(m, <<>>) = <<>>
          BY <3>2
        <4> QED
          BY <3>1, <4>1
      <3>3. CASE m # 0
        <4>1. m \in Nat /\ m - 1 \in 0..n /\ ~(m <= m - 1)
          BY <1>1, <3>1, <3>3
        <4>2. m - 1 \notin Bad
          BY <3>1, <4>1
        <4>3. PICK r : r = Part(m - 1, r)
          BY <4>1, <4>2
        <4> DEFINE g == [i \in 1..m |-> IF i = m THEN IF m = 1 THEN ss[m] ELSE r[m - 1] \o ss[m]
                                        ELSE r[i]]
        <4>4. ASSUME NEW i \in 1..m
              PROVE  g[i] = IF i = 1 THEN ss[i] ELSE g[i - 1] \o ss[i]
          <5>1. CASE i = m
            BY <4>1, <5>1
          <5>2. CASE i # m
            <6>1. i \in 1..(m - 1) /\ (i # 1 => i - 1 \in 1..(m - 1) /\ i - 1 # m)
              BY <4>1, <5>2
            <6>2. r[i] = IF i = 1 THEN ss[i] ELSE r[i - 1] \o ss[i]
              BY <4>3, <6>1
            <6> QED
              BY <4>1, <5>2, <6>1, <6>2
          <5> QED
            BY <5>1, <5>2
        <4>5. g = Part(m, g)
          <5>1. g = [i \in 1..m |-> g[i]]
            OBVIOUS
          <5> HIDE DEF g
          <5> QED
            BY <4>4, <5>1
        <4> QED
          BY <3>1, <4>5
      <3> QED
        BY <3>2, <3>3
    <2>3. flat = Part(n, flat)
      <3> HIDE DEF Part
      <3>1. n \in 0..n
        BY <1>1
      <3>2. \E r : r = Part(n, r)
        BY <2>2, <3>1
      <3> QED
        BY <3>2
    <2> HIDE DEF flat
    <2>4. Wrong = {}
      <3> SUFFICES ASSUME Wrong # {}
                   PROVE  FALSE
        OBVIOUS
      <3>1. PICK i \in Wrong : \A k \in Wrong : i <= k
        <4>1. Wrong \subseteq Nat
          OBVIOUS
        <4> HIDE DEF Wrong
        <4> QED
          BY <4>1, Least
      <3>2. flat[i] = IF i = 1 THEN ss[i] ELSE flat[i - 1] \o ss[i]
        BY <2>3, <3>1
      <3>3. i # 1
        BY <1>1, <3>1, <3>2
      <3>4. i - 1 \in 1..n /\ ~(i <= i - 1)
        BY <1>1, <3>1, <3>3
      <3>5. flat[i - 1] \in Seq(S) /\ ss[i] \in Seq(S)
        BY <1>1, <3>1, <3>4
      <3>6. flat[i - 1] \o ss[i] \in Seq(S)
        BY <3>5, ConcatProperties
      <3> QED
        BY <3>1, <3>2, <3>3, <3>6
    <2> QED
      BY <1>1, <1>3, <2>1, <2>4
  <1> QED
    BY <1>2, <1>3

\* The methods and the filter before them map lines to lines.
LEMMA LinesToLines ==
    ASSUME NEW ls \in Seq(Lines)
    PROVE  /\ NonEmpty(ls) \in Seq(Lines)
           /\ \A m \in Methods \ {"Unknown"} : Apply(m, ls) \in Seq(Lines)
  <1>1. \A i \in DOMAIN ls : ls[i] \in Lines
    OBVIOUS
  <1>2. <<>> \in Seq(Lines) /\ <<"empty">> \in Seq(Lines) /\ \A l \in Lines : <<l>> \in Seq(Lines)
    BY DEF Lines
  <1>3. Len(ls) \in Nat /\ DOMAIN ls = 1..Len(ls)
    OBVIOUS
  <1>4. NonEmpty(ls) \in Seq(Lines)
    <2> DEFINE ss == [i \in DOMAIN ls |-> IF ls[i] = "empty" THEN <<>> ELSE <<ls[i]>>]
    <2>1. ss \in Seq(Seq(Lines))
      BY <1>1, <1>2, <1>3, IsASeq
    <2> HIDE DEF ss
    <2>2. FlattenSeq(ss) \in Seq(Lines)
      BY <2>1, Flattened
    <2> QED
      BY <2>2 DEF NonEmpty, ss
  <1>5. Apply("Babble", ls) \in Seq(Lines)
    <2> DEFINE ss == [i \in DOMAIN ls |-> Babble(ls[i])]
    <2>1. \A l : Babble(l) \in Seq(Lines)
      <3>1. [i \in 1..Copies |-> "words"] \in Seq(Lines)
        BY NAssumption, IsASeq DEF Lines
      <3> QED
        BY <1>2, <3>1 DEF Babble
    <2>2. ss \in Seq(Seq(Lines))
      BY <1>3, <2>1, IsASeq
    <2> HIDE DEF ss
    <2>3. FlattenSeq(ss) \in Seq(Lines)
      BY <2>2, Flattened
    <2> QED
      BY <2>3 DEF Apply, ss
  <1>6. Apply("AppendAndPrint", ls) \in Seq(Lines)
    <2>1. [i \in DOMAIN ls |-> "words"] \in Seq(Lines)
      BY <1>3, IsASeq DEF Lines
    <2> QED
      BY <2>1 DEF Apply
  <1>7. Apply("AddNewLine", ls) \in Seq(Lines)
    BY <1>2 DEF Apply
  <1> QED
    BY <1>4, <1>5, <1>6, <1>7 DEF Methods

\* Every variable keeps its type, contents included.
LEMMA TypesKept ==
    ASSUME TypeOK, [Next]_vars
    PROVE  TypeOK'
  <1> USE StageNumbers
  <1>1. /\ pipeline \in [Stages -> Methods] /\ pipeline \in Pipelines /\ input \in Inputs
        /\ input \in Seq(Lines) /\ lines \in [Stages -> Seq(Lines)]
        /\ data \in [Stages -> Seq(Lines)]
    BY ContentAssumption DEF TypeOK
  <1>2. Control /\ Control'
    <2>1. Control
      BY DEF TypeOK, Control
    <2> QED
      BY <2>1, ControlKept
  <1>3. UNCHANGED <<pipeline, input>>
    <2>1. ASSUME NEW k \in Stages, Links(k)
          PROVE  UNCHANGED <<pipeline, input>>
      BY <2>1 DEF Links, Setup, SetupFails, Await, Reap, Crash, Deliver, CallReturns, SeesClose,
         ProcessExits, request
    <2> QED
      BY <1>2, <2>1, Steps, Working DEF Cancel, vars, request
  <1>4. lines' \in [Stages -> Seq(Lines)] /\ data' \in [Stages -> Seq(Lines)]
    <2>1. CASE UNCHANGED <<lines, data>>
      BY <1>1, <2>1
    <2>2. ASSUME NEW k \in Stages, Read(k)
          PROVE  lines' \in [Stages -> Seq(Lines)] /\ data' \in [Stages -> Seq(Lines)]
      <3>1. Arrived(k) \in Seq(Lines)
        BY <1>1 DEF Arrived
      <3> DEFINE q == Arrived(k)
      <3>2. q \in Seq(Lines) /\ lines' = [lines EXCEPT ![k] = NonEmpty(q)] /\ data' = data
        BY <2>2, <3>1 DEF Read
      <3> HIDE DEF q
      <3>3. NonEmpty(q) \in Seq(Lines)
        BY <3>2, LinesToLines
      <3> QED
        BY <1>1, <3>2, <3>3
    <2>3. ASSUME NEW k \in Stages, Run(k)
          PROVE  lines' \in [Stages -> Seq(Lines)] /\ data' \in [Stages -> Seq(Lines)]
      <3> DEFINE q == lines[k]
                 m == pipeline[k]
      <3>1. /\ q \in Seq(Lines) /\ m \in Methods \ {"Unknown"}
            /\ data' = [data EXCEPT ![k] = Apply(m, q)] /\ lines' = lines
        BY <1>1, <2>3 DEF Run, Write
      <3> HIDE DEF q, m
      <3>2. Apply(m, q) \in Seq(Lines)
        BY <3>1, LinesToLines
      <3> QED
        BY <1>1, <3>1, <3>2
    <2>4. CASE RunDiskFull
      <3>1. data' = [data EXCEPT ![N] = <<>>] /\ lines' = lines /\ <<>> \in Seq(Lines)
        BY <2>4 DEF RunDiskFull, Write
      <3> QED
        BY <1>1, <3>1
    <2>5. CASE Works
      <3>1. CASE OpenInput \/ OpenInputFails \/ OpenOutput \/ OpenOutputFails
        BY <2>1, <3>1 DEF OpenInput, OpenInputFails, OpenOutput, OpenOutputFails, streams
      <3>2. ASSUME NEW k \in Stages, OpenFifo(k) \/ ReadFails(k) \/ UnknownMethod(k)
            PROVE  UNCHANGED <<lines, data>>
        BY <3>2 DEF OpenFifo, ReadFails, UnknownMethod, streams
      <3> QED
        BY <2>1, <2>2, <2>3, <2>4, <2>5, <3>1, <3>2 DEF Works
    <2>6. ASSUME NEW k \in Stages, Links(k)
          PROVE  UNCHANGED <<lines, data>>
      BY <2>6 DEF Links, Setup, SetupFails, Await, Reap, Crash, Deliver, CallReturns, SeesClose,
         ProcessExits, streams
    <2> QED
      BY <2>1, <2>5, <2>6, Steps DEF Cancel, vars, streams
  <1> QED
    BY SMTT(30), <1>1, <1>2, <1>3, <1>4 DEF TypeOK, Control

-----------------------------------------------------------------------------
(* Theorems.                                                               *)

Inv == TypeOK /\ Life /\ Chain /\ Answered /\ Data

\* The invariant holds at the start,
LEMMA Started == Init => Inv
  <1> SUFFICES ASSUME Init
               PROVE  Inv
    OBVIOUS
  <1>1. <<>> \in Seq(Lines)
    OBVIOUS
  <1>2. TypeOK
    BY <1>1 DEF Init, TypeOK, Errors
  <1>3. Life
    BY StageNumbers DEF Init, Life
  <1>4. Chain /\ Answered /\ Data
    BY StageNumbers DEF Init, Chain, Gone, Answered, Data
  <1> QED
    BY <1>2, <1>3, <1>4 DEF Inv

\* and every step keeps it.
LEMMA Invariance == Spec => []Inv
  <1>1. TypeOK => Control
    BY DEF TypeOK, Control
  <1>2. Inv /\ [Next]_vars => Inv'
    BY <1>1, TypesKept, LifeKept, ChainKept, AnsweredKept, DataKept DEF Inv
  <1> QED
    BY Started, <1>2, PTL DEF Spec

\* Every variable keeps its type; in particular every method maps lines to lines.
THEOREM TypeCorrect == Spec => []TypeOK
  <1>1. Inv => TypeOK
    BY DEF Inv
  <1> QED
    BY Invariance, <1>1, PTL

\* The FIFO a child was told to read exists until the child has opened it, however stages
\* fail, crash and return around it.
THEOREM FifoThere == Spec => []FifoOutlivesOpen
  <1>1. Inv => FifoOutlivesOpen
    <2> SUFFICES ASSUME Life, NEW k \in Stages \ {1}, pc[k] \in {"setup", "openIn"}
                 PROVE  fifo[k - 1]
      BY DEF Inv, FifoOutlivesOpen
    <2>1. k \in Stages /\ k > 1
      BY StageNumbers
    <2>2. proc[k] # "unborn" /\ proc[k] # "exited"
      BY <2>1 DEF Life
    <2> QED
      BY <2>1, <2>2 DEF Life
  <1> QED
    BY Invariance, <1>1, PTL

\* When Batch returns and no stage has crashed, every process of the chain has exited and
\* every FIFO is gone, whatever failed on the way (runner/batch.go:91-107).
THEOREM NothingLeft == Spec => []ReturnLeavesNothing
  <1>1. Inv => ReturnLeavesNothing
    BY StageNumbers DEF Inv, Chain, Gone, ReturnLeavesNothing
  <1> QED
    BY Invariance, <1>1, PTL

\* A Batch without an error has run every method on all of its input, in a pipeline of any
\* length and whatever was cancelled or crashed, unless the output device was full.
THEOREM Complete == Spec => []SuccessMeansComplete
  <1>1. Inv => SuccessMeansComplete
    <2> SUFFICES ASSUME Inv, pc[1] = "returned", err[1] = "nil"
                 PROVE  /\ \A k \in Stages : pc[k] # "crashed" => err[k] = "nil"
                        /\ \A k \in Stages : pipeline[k] # "Unknown"
                        /\ full \/ data[N] = Expected
      BY DEF SuccessMeansComplete
    <2> USE StageNumbers
    <2>1. \A k \in Stages : k > 1 => call[k] = "ok"
      BY DEF Inv, Answered
    <2>2. \A k \in Stages : err[k] = "nil" /\ Done(k)
      BY <2>1 DEF Inv, Answered, Data
    <2>3. ASSUME ~full
          PROVE  data[N] = Expected
      <3> DEFINE f == [k \in 0..N |-> IF k = 0 THEN input ELSE data[k]]
      <3>1. ASSUME NEW k \in Stages
            PROVE  f[k] = Apply(pipeline[k], NonEmpty(f[k - 1]))
        <4>1. k \in 0..N /\ k - 1 \in 0..N /\ k # 0 /\ (k - 1 = 0 <=> k = 1)
          OBVIOUS
        <4>2. f[k] = data[k] /\ f[k - 1] = Arrived(k)
          BY <4>1 DEF Arrived
        <4> QED
          BY <2>2, <2>3, <4>2 DEF Done
      <3>2. f = [k \in 0..N |-> f[k]] /\ f[0] = input /\ f[N] = data[N]
        OBVIOUS
      <3> HIDE DEF f
      <3>3. f[N] = Expected
        BY <3>1, <3>2, Composed
      <3> QED
        BY <3>2, <3>3
    <2> QED
      BY <2>2, <2>3 DEF Done
  <1> QED
    BY Invariance, <1>1, PTL
=============================================================================
