# Verification of runrpc

TLA+ models of the concurrent parts of runrpc, the TLC runs that check them on
small instances, and TLAPS proofs of what holds for every instance. The source
is under `src/`; `PROJECT.json` maps each definition of a module to the lines
it stands for.

## 1. The system

runrpc is a set of gRPC services that start, connect and stop operating-system
processes, and an authentication dialog in front of them.

| part | state | operations |
| --- | --- | --- |
| `runner` process table | `procs` (pid to process, under `mu`), per process `cmd`, `conn`, `done` | `Fork`, `Spawn`, `Stop`, `ConnForPid`, one waiting goroutine per process |
| fork plumbing (`Fork`, `forkAndDial`, `ForkAndDial`, `InheritedConn`) | the two descriptors of a socketpair, in the parent and in every child that inherited them | socketpair, mark, fork, close the child's end, wrap, dial, close |
| `runner.Batch` | per stage a FIFO, a child, a call to it | one recursive handler per process |
| `streamer`, `runner-cli/pipeline` | per level a child, two relays, its gRPC server | `Pipeline`, `Increment`, `ForkAndDial` and its cleanup |
| `commander` | per call two pipes, a channel, a stream, four goroutines | `Shell` |
| authentication dialog (`identifier`, `identifier/authflows`, `auth/otp`, `identifier-cli`) | the position of client and handler in the dialog | `Authenticate`, the client's three flows, the server's three flows |
| `auth/workos` | package-level user map, key set, singleton client | `Init`'s three paths, `StoreUser`, `DeleteUser`, `UpdateUser...`, HTTP calls |
| `loader`, `loader-cli` | a bridge between stdin/stdout and a socketpair; the process image | `Exec`, `Link`, `Load`; main's modes, two copies, `GracefulStop` |
| `images` | per call its temporary files and the programs it runs | `Render`, `RenderBytes`, `Play`; the frames `generate` keeps |
| `runner` string methods | per call a stream | `Babble`, `AppendAndPrint`, `AddNewLine` |
| `pty` | a terminal pair, a child, a waiter, two copies, a SIGWINCH goroutine | `Start`, `Proxy`, `Close`, `Resize`, `Signal` |
| `pty-cli` | the loader it has started | a `Shell` call per line, cleanup |
| `identifier` boot | root names, container flag, providers, token map | `Init`, `RegisterLoginProvider`, `NewIdentifierServer`, `login.Run` |
| `filer` | message types | none |

How they interact. A forked process talks to its parent over its fd 3 and
serves until the parent closes the other end; so the *lifetime* of processes
depends on who holds descriptors (ForkDescriptors), on the order in which a
handler closes, waits and returns (Batch, Pipeline) and on the table of the
runner (RunnerTable). The three meet in the kernel: pids are reused after a
reap, descriptors are copied by every fork. Handlers of one process run
concurrently. The dialog's handler writes the user map of `auth/workos`, which
`Init` and the update helpers write too. `loader-cli` serves all services on one
connection, its own stdin and stdout: the end of stdin ends the connection, a
handler that hangs holds up the end of the process, and `Exec` takes everything
away at once. A process the runner starts there shares them: a forked one has
the loader's stdin, stdout and stderr, and, as `loader-cli` is no runner, never
looks at its fd 3; a spawned one has stdout and stderr. `pty-cli` starts such a
loader on one socket.

What is hard here: steps of several handlers and of the kernel in orders nobody
wrote a test for; blocking opens that nothing interrupts; shutdown from the
leaf of a chain of processes; goroutines that share a pipe that a third one
closes; timers that race answers; in-place updates of shared state. Each such
place is a hazard in `PROJECT.json`, at its line, with the properties that
would catch it. What makes each component correct:

- table: a graceful `Stop` that reports success means the process is gone; no
  live process, and no live process's connection, is lost or mistaken for
  another's; signals do not go astray.
- plumbing: no descriptor is leaked on any path, and a child of `Batch` or of the
  streamer whose parent has closed its connection exits even though siblings
  inherited copies, unless a child of `Fork` or `Spawn` holds one.
- Batch: success means the whole output is there; a return leaves no process
  and no FIFO; it does return.
- Pipeline: results in order, once, incremented at each level; the chain is
  taken down from its leaf; everything exits.
- Shell: each pipe's output is a prefix, in order; sends never overlap; it
  returns.
- dialog: a login means a verified secret; a user in time gets in; both sides
  end.
- user map: an update that has returned is not lost to another update; an
  invitation that was answered is on record.
- services on the bridge: an answer is complete and in order or the call fails;
  a call does not wait for ever; the loader ends after its stdin and leaves no
  temporary files.
- terminal: `Proxy` shows all the output, follows the outer size, and comes back.
- boot: each provider logs in once; the token under a name is the last one's.

## 2. The modules

| module | models | checked by |
| --- | --- | --- |
| `RunnerTable` | `runner/runner.go` and the kernel's pids | `RunnerTable.cfg`, `RunnerTable_proofs` |
| `ForkDescriptors` | the fork code of `runner.go`, `batch.go`, `streamer.go`; a child's exit on EOF | `ForkDescriptors.cfg`, `ForkDescriptors_proofs` |
| `Batch` | `runner/batch.go`, `runner/strings.go`, the forked child of `runner-cli/main.go` | `Batch.cfg`, `BatchMissingInput.cfg`, `Batch_proofs` |
| `Shell` | `commander/commander.go` with what it uses of `os/exec` | `Shell.cfg`, `ShellLosesOutput.cfg`, `Shell_proofs` |
| `IncrementPromise` | what the pipeline program promises: the abstract specification | as a property of `Pipeline`, `Pipeline_proofs` |
| `Pipeline` | `streamer/streamer.go`, `runner-cli/pipeline/main.go` | `Pipeline.cfg`, `PipelineCutOff.cfg`, `Pipeline_proofs` |
| `AuthDialog` | client and server flows, the dispatcher, the device flow, time | `AuthDialog.cfg`, `AuthDialog_proofs` |
| `UserMap` | `auth/workos/session.go` and `Init` of `init.go` | `UserMap.cfg`, `UserMapLosesTokens.cfg`, `UserMap_proofs` |
| `FrameOrder` | the names of frames and their order: `images/imager.go`, `images/generate/main.go` | assumption `FramesInOrder` of `MCPrograms` |
| `Services` (extends `FrameOrder`) | the handlers `loader-cli` registers: `runner/strings.go`, `images/imager.go`, `loader/loader.go`, `Authority`; `runner/runner.go`, `runner/batch.go` and `commander/commander.go` as far as the loader notices them | `Programs.cfg` |
| `CallPromise` | what a service promises the client of a call: an abstract specification | as a property of `LoaderCli`, `Programs_proofs` |
| `LoaderCli` (extends `Services`) | `loader-cli` and its clients, `pty-cli` among them | `Programs.cfg`, `Programs_proofs` |
| `Terminal` | `pty/pty.go`, `pty/pty_linux.go` | `Programs.cfg`, `Programs_proofs` |
| `Boot` | `identifier/boot.go`, `environment_checks.go`, `login/login.go` | `Programs.cfg`, `Programs_proofs` |

`MC...` modules only give values to constants a cfg cannot write; `MCPrograms`
also puts three programs that share nothing into one specification, of which a
behaviour starts one and leaves the others idle. An operator
whose comment begins with "Mutant" is not part of a model: it is a plausible
slip in the definition after it, kept to show that a property notices it.

**RunnerTable.** A process is a member of `Procs` and has one life; its pid
comes from `Pids` and may be handed out again once the process was reaped. The
waiter of a process goes through `waiting` (Wait4 or cmd.Wait), `woken` (reaped,
`done` not yet closed) and `done`. Each execution of `Stop` is a member of
`Calls`; its program counter stops at every place where another goroutine can
get in: after the look-up under `mu`, between the test of `done` and the
signal, while it waits, and between that and `remove`. A signal to a forked
process goes by pid to whoever has it; one to a spawned process goes through
`os.Process`, which knows when its child was reaped. `hit` is a history variable.

**ForkDescriptors.** `holds[p]` is the set of ends of which process `p` has a
descriptor. A fork gives the child its own end and everything that is not in `cloexec`
at that moment. Connect is one step: FileConn's duplicate is close-on-exec and the first
descriptor is closed right after it, so the set of ends does not change. There are three
kinds of handlers. `Closers` are those of `Batch` and of the streamer: they close their
connection and wait for the child. `Keepers` are those of `Fork`: the connection stays
in the table until a `Stop`, which may never come (`StopCloses`). `Spawns` make no pair,
but `cmd.Start` copies the half-made pairs of others as any fork does. `Freed(f)` says
that no child of the last two kinds is among those that hold `f`'s end, those that hold
theirs, and so on. `born` and `forked` are history variables.

**Batch.** Stage `k` is the handler in process `k`. The FIFO between two stages
is a rendezvous: `OpenFifo` is one step of both. Stage 1 reads the input file
and stage N writes the output file. The code reads a whole file before it
writes anything, so `Read` and `Run` are whole-file steps; lines are told apart
by what the methods do with them. A connection is known to the two processes
separately (`conn`, `proc`), so that close, break, answer and exit interleave.

**Shell.** `cmd.Wait` is two steps, reaping and closing the pipes, because the
readers run in between. `inherited` stands for a grandchild that keeps the
write ends. `item` is the chunk the sender has in hand.

**Pipeline.** Stream `k` joins level `k-1` to level `k`; it holds at most
`FlowCap` values each way. Receiving a value, applying the method and sending
it on is one step, which is what a stream with one more place would do. `cut`
stands for a cancelled call or a closed connection. The refinement maps the
inputs sent to `in` and what the root has printed or holds in its channel to
`out`.

**AuthDialog.** Time is discrete. Steps of the client take none, requests to
WorkOS at most `Latency`, users any time. A message is told apart by what the
flows look at: whether it carries a secret, and which. `excuse` records that
the user, the network or WorkOS has given the login a reason to fail.

**UserMap.** The map holds pointers, so `users` leads to objects of `heap`, and
an update patches the object it has loaded while others may have replaced it.
A list fetched from WorkOS is the version it was fetched at. A request for a mail
may be carried out and its answer lost: `mails` is what went out, `lost` says that
it happened.

**Services.** A call is a method and a size; a message is told apart by what it
was made from, a frame by the number of its file, its index and the total. A
handler is at the place where it can block, fail or leave a file. Which
programs ffmpeg and image2ascii are does not matter, only that they end, fail
or hang. `Return` runs the deferred removals; `Exec` does not, for no goroutine
survives it. Of `Shell` one chunk is left here, of `Stop` one step, of a fork what the
loader's own stdin and stdout have to do with it; modules `Shell`, `RunnerTable`,
`ForkDescriptors` and `Batch` have the rest. `Shell` may fail to start; without a timeout
its command may hang, and is then killed with the stream. `Fork` and a `Batch` of two or
more methods start another loader, which never serves its fd 3 and never opens
a FIFO: `Fork` answers, the handler of `Batch` stays in `open(2)` for good
(`batch.go:117`) or, without its input, waits for a child that waits for stdin. `kin`
are the processes that live, `procs` those in the table, `stolen` what a forked
loader has read of the client's bytes; `shared` is a history variable.

**LoaderCli.** A request travels `stdin`, `up`, `arrived`; an answer `down`, `stdout`,
`got`. `bridge` is the client's end of the socketpair and `server` the connection the
listener hands out once. Both ends of the bridge close with stdin's copy, whoever still
has something to say. `main` follows main's goroutine, `copyIn` and `copyOut` the two
others, `user` the client: a gRPC client on two pipes, or `pty-cli` from its animation
to its cleanup. The refinement maps each call's right answer to `promised`, and `got`
and `status` to themselves. `Steal`, `Scribble` and `KinEnds` are what the processes of
`kin` do: read the client's bytes, write into its stream, end.

**Terminal.** The master may be `closing`: closed while a read in blocking mode
still holds the descriptor. `heir` stands for a process the child left on the
terminal, which keeps its end of file away. `sigCh` holds one signal, and `held`
is the size the SIGWINCH goroutine has read and not yet set. Keys that are
written to nobody are `eaten`: losing one is what ends the copy from stdin. A write
to stdout may fail (`ShowFails`): the chunk is lost, the copy ends, and `Proxy` goes on to
wait for the other copy; `outBroken` records it.

**Boot.** Init's steps in order; a check or a login is its outcome. Registrations
and new servers come at any time, as they are not ordered with Init. `login.Run`
is a behaviour of its own, on a list of its own.

## 3. The runs

Deadlock checking is off in every cfg because every modelled program may come
to its end; where it must come to an end, a liveness property says so.

| run | instance | what it shows |
| --- | --- | --- |
| `runner_table` | 2 processes, 2 pids, 2 Stops | the table's invariants under reuse of pids, overlapping Stops, timeouts and escalation; what `ConnForPid` may hand out; every Stop returns |
| `fork_descriptors` | any three of two `Batch` or streamer handlers, a `Fork` and a `Spawn`, concurrently | inheritance has no circles, no path leaks, a child whose connection was closed exits unless a child of `Fork` or `Spawn` is in the way |
| `batch` | 3 stages, 4 pipelines, 2 inputs, every fault | success is complete, a return leaves nothing, FIFOs outlive their opening, and it returns once the FIFOs were opened |
| `batch_missing_input` | the same, missing input only | a violation, see section 6 |
| `shell` | 2 chunks per pipe, pipe 1, channel 2, stream 1 | order, no concurrent sends, clean returns, and that it returns |
| `shell_loses_output` | the same | a violation |
| `pipeline` | 3 forked levels, 3 values, streams of 1 | refinement of the promise, take-down from the leaf, completion, exit |
| `pipeline_cut_off` | the same, unknown method, no other fault | a violation |
| `auth_dialog` | 3 client flows, 5 server configurations, a code of 10, polls every 2, latency 1, a stream of 12 | success means verified, in time means in, both sides end, who is told is stored |
| `user_map` | an update of each list, a login, a deletion, `Init` on any path | updates survive each other; two mails only after a lost answer, and the invitations on record |
| `user_map_loses_tokens` | `Init`'s device login alone | a violation |
| `programs` | scripts of one or two calls that have every kind among them, on a bridge of one place per queue, all four launches, process 1, `pty-cli`; a terminal with 1 chunk, 1 key, 3 sizes; 2 names and up to 3 providers | the calls' contract and that calls are answered; the loader's end; output, size and return of `Proxy`; what Init leaves behind |

Why the bounds are enough for these questions. Two processes and two Stops reach every
pairing the table has: a Stop against a Stop of the same process, a Stop against a later
process with the same pid, an overwrite by `track`; the proofs remove the bound for
everything but `StopReturns`. Three handlers (`MaxCalls`) give a child that inherits
from two others and one in the middle of a chain of inheritance, and a `Fork` or a
`Spawn` at either end of it. Three stages and three levels have a first, a last and one
that is parent and child at once, and that is all the code distinguishes. Capacities of
one or two are smaller than the real ones, which makes every wait on a full channel or
pipe happen. In `auth_dialog` the numbers keep the order of the real ones: the interval
is a small part of the code's life, and the stream may run out during the polling. In
`user_map` WorkOS changes once, so that a fetched list may be old. In `programs` the
pairs put a call that streams beside one that disturbs it (an `Exec`, a `Fork` that
takes its messages, bytes that are not gRPC), a `Shell` without a timeout beside one
with, a `Spawn` beside its `Stop`, a `Batch` of one method and one of two beside a call
that could do without it; each queue holds one message, so every copy blocks at times;
names have two binary digits instead of four decimal ones, so that `FramesInOrder` can
be evaluated on both sides of the limit, and the movie in the run has three frames, the
longest below it. Three sizes let one signal be lost in `sigCh` while another is in
hand; three providers let one name win, lose and win again. `MaxWrites`, `MaxPolls`,
`MaxVersion`, `NumValues`, `Latency`, `MaxOutput`, `MaxKeys`, `MaxSizes`,
`MaxProviders`, `MaxCalls` and the length of the `Scripts` are the bounds on what would
otherwise grow; each is a constant of its module.

The types of `RunnerTable` and `Shell` are proved and not checked again by their
runs. Every property of a passing run has a mutant in `PROJECT.json`: a slip in a
definition under which TLC finds the property violated.

## 4. Fairness

Weak fairness on the steps of goroutines (the Go scheduler is fair to runnable
goroutines), on timers, on the delivery of gRPC messages and connection ends, and on the
death of a process that was sent SIGKILL. No fairness on what the environment may or may
not do: whether a process exits when asked to, whether a client calls, cancels or goes
away, whether a command ends, whether a user types or approves. In `Shell` the client
either reads on or is gone. In `ForkDescriptors` the handlers of `Batch` and of the
streamer close their connection in the end, under the conditions that modules `Batch`
and `Pipeline` give; that `Fork`'s is ever closed, or that what `Fork` and `Spawn` have
started ends, is not assumed. In `LoaderCli` each of main, the two copies, the server's
connection and every handler has its condition, and so have the client's reading and
`pty-cli`'s start and cleanup; a client's calls, its closing of stdin and a hang-up have
none, what the imager runs may hang, and so may a command without a timeout. A forked
loader reads on and ends with its stdin, as this one does; a spawned program does as it
likes. In `Terminal` the child, its heirs and the user have none, but a child that was
hung up and does not ignore it ends. One fairness condition per goroutine: a goroutine
that is blocked on one thing and could do another is not asked to do both.

## 5. Proofs

Eight modules hold theorems, for every value of the constants. They state all the
invariants the passing runs check, and the two refinements.

| module | theorems | assumptions they use |
| --- | --- | --- |
| `RunnerTable_proofs` | every invariant of the process table | `NoneAssumption`: the stand-in for nil is neither a process nor a pid |
| `ForkDescriptors_proofs` | every invariant of the fork plumbing | `ParentAssumption`, `KindsAssumption`: the parent is not one of its children, and a handler is of one kind |
| `Batch_proofs` | `TypeCorrect`, `FifoThere`, `NothingLeft`, `Complete` | `NAssumption`, `ContentAssumption`: there is a stage; what clients may ask for and files may hold |
| `Shell_proofs` | `TypeCorrect`, `StreamInOrder`, `ReturnsClean`, `OneSender` | `BoundsAssumption`: capacities are positive |
| `Pipeline_proofs` | `TypeCorrect`, `ChainTakenDown`, `Refinement` | `SizesAssumption`, `FaultsAssumption`: there is a level, capacities are positive |
| `AuthDialog_proofs` | `TypeCorrect`, `Verified`, `OnTime` | `TimesAssumption`: configurations are lists of flows, times are numbers |
| `UserMap_proofs` | `TypeCorrect`, `Survive`, `OneMail` | `CallsAssumption`: each update is of one field; `Init` is none of the calls |
| `Programs_proofs` | `ContractKept`, `TypeCorrect`, `OutputKept`, `Settled` | `ReplyAssumption`, `LoaderAssumption`, `TerminalAssumption`, `BootAssumption`: sizes; for `ContractKept` also the hypothesis `NamesInOrder`, below |

Most of these invariants are not inductive as they stand. The strengthenings below
were checked by TLC on the runs' instances before they were proved. In each module there
is a lemma per group of actions, with one step per conjunct an action disturbs.

*RunnerTable.* The strengthening `Inv` says
that at most one process that is not yet reaped has a given pid (`PidsUnique`,
the kernel's rule), that a waiter's stage tells what its process is
(`WaiterOrder`: reaped from `woken` on, never tracked before it exists), that
an entry of the table leads to a tracked process with that very pid
(`TableSound`), and that a Stop past its look-up holds a tracked process with
the pid it was asked for and, when it is about to remove without force, one
whose `done` is closed (`CallsSound`). The entry under the pid of a process that is
waited for is its own or gone (`EntriesCurrent`). `track` then only overwrites an entry of
a reaped process; `remove` takes a live one only in the cases the property
names; and a signal by pid can only miss after a reap.

*ForkDescriptors.* `InheritsOnlyFromLater` needs to know that the parent holds an
unmarked `fds[0]` only while its handler is at `paired` (`Unmarked`), that a
handler there has no child yet (`Stages`) and that children are numbered in the
order of the forks (`BornInOrder`). So whoever copies the end is older than the
child behind it, and waiting for EOF has no circles. `ParentHolds` gives what
the parent has at each step, and with it that no path leaks.

*Batch.* `Life` orders the handler, the process and the FIFO of one stage: a FIFO
outlives the process that reads it. `Chain` says of each stage that has returned
that nothing is left of any later one; stated of all later stages and not of the
next, it needs no induction along the chain. `Answered` does the same for calls
that succeeded, and `Data` says that what a stage has read was complete when it
read it. That the last stage's output is then the pipeline as one function of the
input goes by the least stage at which the two would differ, as does the lemma
that a concatenation of sequences of lines is one (`Composed`, `Flattened`).

*Shell.* `NoConcurrentSend` compares two goroutines; what links them is
`sendDone`. `HandOver` says that it is empty until the sender returns, and that
the handler gets to its own Send only by taking what was put there. `HasChunk`
says that a reader at its put has read something and a sender at its send has a
chunk in hand. For the order, `Flow` is the stream, the chunk in the sender's hand
and the channel in one sequence: of each pipe it holds the numbers 1, 2, ... up to
what its reader has put there, rising (`Flowing`). A chunk only moves along it, so
whatever is cut off, the stream keeps a prefix. `ClosedLast`, `Drained` and
`ExitLast` say that the channel closes after the readers, that it is empty, and all is
sent, once the sender has said so, and that nothing follows the exit chunk.

*Pipeline.* The invariant asks for two counts per level: how many items have left it
downwards and upwards. Each queue holds the items between two neighbouring counts, in
order and raised by the levels passed (`Flows`), so what a level takes is always the
next one it expects. No step computes the counts: each step's lemma says what the next
ones are. Out of it come the types, with the capacities, and each step of the
refinement. `ChildState` ties a level's handler to the process below: a handler returns
only when that process has exited, or never was.

*AuthDialog.* `Dialog` says that the two sides take turns: the client's place
tells where the handler can be and what is on its way. `Answering` says that what the
handler answers well it has verified. `Answers` says that, as long as nobody
has given a reason to fail, a handler ends only with a login. `Times` is arithmetic: a
poll that missed the approval is followed by another within an interval
and two requests, and that is still in time.
`OnTime` needs no bound on the number of polls, and any interval, lifetime,
latency and deadline will do.

*UserMap.* `Shared` says that in the calm all updates that have loaded the user hold the
one object the map shows, so each patch lands where the next one reads, and what a
finished update fetched, or a later one of its field, is still there. `Unseen` says that
the object `Init` stores last is nobody's before. `Mailed` says what was sent, and to
whom, at each place of `Init`.

*The loader* (`ContractKept`). `stdout \o down` is what is on its way to the client.
While the client reads, each message on it has a number in the answer of its call
(`Numbering`): those of one call are the next ones after what the client has, in order
and without a gap; an end comes last, and an ok has the rest of the answer before it
(`Fits`). While the handler works and the server serves, all it has produced is there or
with the client (`UpTo`), so the next message it sends is the next of the answer. An end
is only there when the handler has returned (`Returned`), and a client that was told an
end gets nothing more (`Told`). A kill, a hang-up or a garbled request only takes away:
what is left is a beginning of the flow, and the beginning of a good numbering is good
(`CutPreserves`). The client taking a message is then a step of `CallPromise`, or a
stutter, and everything else is a stutter. All of this holds until the first process
shares stdin or stdout, and so the invariant `ContractInv` has two cases: either that
has happened, and nothing is claimed of later steps, or nothing is shared, lost or alive
beside the loader (`Unshared`) and the above holds (`LInv`).

`NamesInOrder` is the hypothesis that the names of the frames of the movies in `Scripts`
sort in the order of the frames. For the run `programs` TLC evaluates it, for all sizes
below the limit (`FramesInOrder`); without it the claim is false (section 6). In the
code it holds for movies of less than 10000 frames. That sorting names of equally many
digits sorts numbers is an induction over the digits, which stays out of reach.

*Terminal.* `Stages` says which descriptors, which child and which copy there can
be at each place of `Start` and `Proxy`. `EndOfFile` says that a copy which ended
on an open master, and not by a failed write, saw its end of file: all written output shown,
and nobody on the terminal. Nobody comes back to a terminal, so this stays true, and Proxy
goes on only when that copy has ended.

*Boot.* `LastWins` is the claim about tokens at each moment of the loop over the
providers, `FirstWins` the one about `login.Run`; each step appends one outcome,
at most one success more. `Named` orders the two reads of a new server after the
flags.

*The types of the three programs* (`TypeCorrect`) need no hypothesis about names:
whatever a sort makes of a movie's frames, what a client is sent is typed (`Contents`).
A part of a request that is on its way is one its client has written (`Passing`), so
what has arrived never exceeds what was sent. A handler at a place of `Fork`, `Spawn` or
`Batch` belongs to such a call, and only such calls have processes (`Relatives`).

Left to TLC. Liveness everywhere (`StopReturns`, `ChildExits`,
`ReturnsOnceOpened`, `ShellReturns`, `Completes`, `ChainExits`, `DialogEnds`,
`ToldMeansStored`, `AnsweredWhileOpen`, `LoaderEnds`, `ProxyReturns`,
`SizeFollows`), which is beyond the prover under fairness. `FramesInOrder`, evaluated for
one radix and width, because what a sort computes is an induction over
data.

## 6. Where the code does not do what its text says

1. **Batch with a missing input hangs** (`batch_missing_input`). The first stage
   fails to open its input before it has opened the FIFO; the child waits in
   `open(2)`, the parent waits for the child's answer. `ReturnsOnceOpened` is
   what does hold.
2. **Shell loses output** (`shell_loses_output`). `cmd.Wait` closes the pipes
   while they still hold output. `InOrder` says that what arrives is at least a
   prefix of each pipe.
3. **A level that is cut off before its config never exits**
   (`pipeline_cut_off`), and with it every level above waits in Wait4.
   `ChainExits` says that this is the only way.
4. **Device login forgets its tokens** (`user_map_loses_tokens`). The second flow
   stores a state without them over the first one's.

Behaviour no text speaks of, kept visible as an exception in a property: a forced Stop
may report success for a process that still runs, and drop it
(`GracefulStopMeansReaped`, `LostOnlyToStop`); a signal may reach a stranger after a pid
was reused (`MisdirectedOnlyAfterReap`); readers may stay blocked after a failed send
(`CleanReturn`); an update overlapping a login or a deletion may be lost or may bring a
deleted user back (`calm` in `UserMap`); after a lost answer a user gets two mails, and
an invitation may go unrecorded (`InvitedOnce`); a user who is slower than the stream's
deadline signs in for nothing (`OnTimeLogsIn`); a program of the imager that hangs holds
the loader for good, because it and the downloads have no timeout, and so does a `Batch`
of two methods, whose handler stays in `open(2)` (`AnyStuck` in `LoaderEnds`); a `Shell`
without a timeout may never answer (`Excused` in `AnsweredWhileOpen`); the contract of
calls ends with the first `Fork`, `Spawn` or longer `Batch` that is served on stdin and
stdout (`shared` in `KeepsCallContract`, `runner/runner.go:67-71` and `155`); a copy of
the parent's end in a child of `Fork` or `Spawn` made between `Socketpair` and
`CloseOnExec` (`runner/batch.go:168-172`) keeps another child alive, and its parent
waiting (`Freed` in `ChildExits`).

Text and code also part in these places, where the model follows the code and
no run is spent on the difference:

- `pty/pty.go:193-194` says that Proxy "blocks until the child exits"; it also
  waits for its copy from stdin, which ends with the next key only; and after a
  failed write to stdout it may return while the child runs (`NothingLost` excepts both
  that and `Close`).
- `runner-cli/main.go:30` says that a forked runner runs "until the parent closes the
  socketpair"; it may run for longer, for as long as a sibling has a copy (`ChildExits`).
- `identifier/boot.go:66` says that Init "blocks until all complete or first succeeds";
  its loop runs all of them, whoever has succeeded, and a later one of the same
  name wins (`BootSettles`).
- `loader-cli/main.go:19` announces the identifier's bootstrap; `boot()` only
  parses flags, and `Authority` answers with empty names.
- `images/imager.go:162` sorts names of four digits: the frames of a movie of
  10000 or more come out of order (`FramesInOrder` holds below).
- `identifier/auth_provider.go:54`: the first flow that accepts a first message gets it,
  and the token flow accepts any secret. A server that lists it before
  OTP takes a password for a token; `OnTimeLogsIn` asks for the other order.
- as process 1, `loader-cli` never ends once its stdin has (`main.go:101-104`).

## 7. Plan

Done: `RunnerTable`, `ForkDescriptors`, `Batch`, `Shell`, `Pipeline` with
`IncrementPromise`, `AuthDialog`, `UserMap`, and the programs: `Services` and
`LoaderCli` with `CallPromise`, `FrameOrder`, `Terminal`, `Boot`.

Left, in order:

1. Compositions: the table with the descriptors (`Fork` tracks the connection
   it makes, and `remove` closes it), and the dialog with the user map (what a
   login stores is what an update patches).
2. Abstract specifications: a set of live processes that Fork and Spawn add to
   and a graceful Stop removes from, implemented by `RunnerTable`; a function
   from input to output that either happens or fails as a whole, implemented by
   `Batch`; a request with one answer, implemented by `AuthDialog`.
3. Theorems: the implementations of item 2, each from the invariant its component already has.

## 8. Not modelled

`filer` defines message types only, and no service uses them. `identifier-cli`'s
main is flag handling around `login.Run`. `InheritedConn` wraps its own fd 3, a
matter of how a process is started; `LoadUser`, `RangeUsers` and `UserCount` only
read. `ListInvitations`, `ResendInvitation` and `ListOrganizationMemberships` have
no caller. Generated protobuf code, the gRPC library,
`os/exec`, WorkOS and the kernel are external: modelled where the code depends
on them, from how it uses them.

Of components that are otherwise modelled: `loader-cli`'s TCP mode beyond its
listener and `runner-cli`'s, which are the gRPC library's accept loop;
`pty-cli`'s `-addr` and its local `cd`; `pty.Signal`, which changes no state of
the package, and `pty_darwin.go`, which takes the steps of `pty_linux.go` through
other ioctl calls; `MustParseContainerID`, `LoadToken` and the accessors of
`identifier`, which only read; what `images/generate` does beyond choosing its
frames.

Cryptographic verification, wording, logging, paths and the content of lines
are abstracted away. The test programs (`forktest`, `batchtest`, `integration`)
were read for what they expect. The list with its reasons is in `PROJECT.json`
under `components`.
