---------------------------- MODULE Shell_proofs ----------------------------
(***************************************************************************)
(* Types, the hand-over from the sender to the handler, and the order of   *)
(* what is streamed, for any number of chunks and any capacities.          *)
(***************************************************************************)
EXTENDS Shell, TLAPS

\* A reader that puts has read something, and a sender that sends has it in hand.
HasChunk == /\ \A p \in Pipes : reader[p] = "put" => taken[p] > 0
            /\ sender = "send" => item \in Chunks

TInv == TypeOK /\ HasChunk

LEMMA TInvInit == Init => TInv
<1> SUFFICES ASSUME Init PROVE TInv
  OBVIOUS
<1>1. written \in [Pipes -> 0..MaxWrites] /\ taken \in [Pipes -> 0..MaxWrites]
  BY BoundsAssumption DEF Init
<1>2. reader \in [Pipes -> {"read", "put", "done"}] /\ \A p \in Pipes : reader[p] # "put"
  BY DEF Init
<1>3. ch \in Seq(Chunks) /\ Len(ch) <= ChanCap
  BY BoundsAssumption DEF Init
<1>4. stream \in Seq(Chunks \cup {Exit}) /\ consumed \in 0..Len(stream)
  BY DEF Init
<1>5. {inherited, signalled, pipesOpen, chOpen, streamDead, ctxDone} \subseteq BOOLEAN
  BY DEF Init
<1>6. QED
  BY <1>1, <1>2, <1>3, <1>4, <1>5 DEF Init, TInv, TypeOK, HasChunk

LEMMA CommandKeepsTypes ==
  ASSUME TInv, \/ (\E p \in Pipes : CommandWrites(p)) \/ CommandExits \/ CommandDies
               \/ WatchCtx \/ Timeout \/ ClientGone \/ ClientReads
  PROVE  TInv'
<1>1. ASSUME NEW p \in Pipes, CommandWrites(p) PROVE TInv'
  <2>1. written' \in [Pipes -> 0..MaxWrites]
    BY <1>1, BoundsAssumption DEF TInv, TypeOK, CommandWrites
  <2>2. QED
    BY <1>1, <2>1 DEF TInv, TypeOK, HasChunk, CommandWrites, pipeVars, sendVars, netVars, mainVars
<1>2. CASE CommandExits \/ CommandDies
  <2>1. PICK how \in {"zero", "nonzero", "killed"} : CommandEnds(how)
    BY <1>2 DEF CommandExits, CommandDies
  <2>2. command' = how /\ inherited' \in BOOLEAN
    BY <2>1 DEF CommandEnds
  <2>3. QED
    BY <2>1, <2>2 DEF TInv, TypeOK, HasChunk, CommandEnds, pipeVars, sendVars, netVars, mainVars
<1>3. CASE WatchCtx
  BY <1>3 DEF TInv, TypeOK, HasChunk, WatchCtx, pipeVars, sendVars, netVars, mainVars
<1>4. CASE Timeout
  BY <1>4 DEF TInv, TypeOK, HasChunk, Timeout, procVars, pipeVars, sendVars, mainVars
<1>5. CASE ClientGone
  BY <1>5 DEF TInv, TypeOK, HasChunk, ClientGone, procVars, pipeVars, sendVars, mainVars
<1>6. CASE ClientReads
  <2>1. consumed' \in 0..Len(stream)
    BY <1>6 DEF TInv, TypeOK, ClientReads
  <2>2. QED
    BY <1>6, <2>1 DEF TInv, TypeOK, HasChunk, ClientReads, procVars, pipeVars, sendVars, mainVars
<1>7. QED
  BY <1>1, <1>2, <1>3, <1>4, <1>5, <1>6

LEMMA ReaderKeepsTypes ==
  ASSUME TInv, NEW p \in Pipes, Reader(p)
  PROVE  TInv'
<1>1. CASE ReadChunk(p)
  <2>1. taken' \in [Pipes -> 0..MaxWrites] /\ taken'[p] > 0
        /\ \A q \in Pipes \ {p} : taken'[q] = taken[q]
    BY <1>1, BoundsAssumption DEF TInv, TypeOK, ReadChunk, InPipe
  <2>2. reader' \in [Pipes -> {"read", "put", "done"}]
        /\ \A q \in Pipes \ {p} : reader'[q] = reader[q]
    BY <1>1 DEF TInv, TypeOK, ReadChunk
  <2>3. QED
    BY <1>1, <2>1, <2>2 DEF TInv, TypeOK, HasChunk, ReadChunk, procVars, sendVars, netVars, mainVars
<1>2. CASE ReadEnds(p)
  BY <1>2 DEF TInv, TypeOK, HasChunk, ReadEnds, procVars, sendVars, netVars, mainVars
<1>3. CASE PutChunk(p)
  <2>1. <<p, taken[p]>> \in Chunks
    BY <1>3, BoundsAssumption DEF TInv, TypeOK, HasChunk, PutChunk, Chunks
  <2>2. ch' \in Seq(Chunks) /\ Len(ch') <= ChanCap
    BY <1>3, <2>1, BoundsAssumption DEF TInv, TypeOK, PutChunk
  <2>3. QED
    BY <1>3, <2>2 DEF TInv, TypeOK, HasChunk, PutChunk, procVars, sendVars, netVars, mainVars
<1>4. QED
  BY <1>1, <1>2, <1>3 DEF Reader

LEMMA SenderKeepsTypes ==
  ASSUME TInv, CloseChan \/ Sender
  PROVE  TInv'
<1>1. CASE CloseChan
  <2>1. chOpen' = FALSE /\ UNCHANGED <<procVars, pipeVars, ch, sendVars, netVars, mainVars>>
    BY <1>1 DEF CloseChan
  <2>2. {inherited, signalled, pipesOpen, chOpen, streamDead, ctxDone}' \subseteq BOOLEAN
    BY <2>1 DEF TInv, TypeOK, procVars, pipeVars, netVars
  <2>3. (ch \in Seq(Chunks) /\ Len(ch) <= ChanCap)'
    BY <2>1 DEF TInv, TypeOK
  <2>4. (stream \in Seq(Chunks \cup {Exit}) /\ consumed \in 0..Len(stream))'
    BY <2>1 DEF TInv, TypeOK, netVars
  <2>5. QED
    BY <2>1, <2>2, <2>3, <2>4 DEF TInv, TypeOK, HasChunk, procVars, pipeVars, sendVars, mainVars
<1>2. CASE SenderReceives
  <2>1. item' \in Chunks /\ ch' \in Seq(Chunks) /\ Len(ch') <= ChanCap
    BY <1>2, BoundsAssumption DEF TInv, TypeOK, SenderReceives
  <2>2. QED
    BY <1>2, <2>1 DEF TInv, TypeOK, HasChunk, SenderReceives, procVars, pipeVars, netVars, mainVars
<1>3. CASE SenderSends
  <2>1. stream' \in Seq(Chunks \cup {Exit}) /\ consumed \in 0..Len(stream')
    BY SMTT(30), <1>3 DEF TInv, TypeOK, HasChunk, SenderSends
  <2>2. QED
    BY <1>3, <2>1 DEF TInv, TypeOK, HasChunk, SenderSends, procVars, pipeVars, mainVars
<1>4. CASE SenderFails \/ SenderEnds
  <2>1. CASE SenderFails
    BY <1>4, <2>1 DEF TInv, TypeOK, HasChunk, SenderFails, SenderReturns, procVars, pipeVars,
                      netVars, mainVars
  <2>2. CASE SenderEnds
    BY <1>4, <2>2 DEF TInv, TypeOK, HasChunk, SenderEnds, SenderReturns, procVars, pipeVars,
                      netVars, mainVars
  <2>3. QED
    BY <1>4, <2>1, <2>2
<1>5. QED
  BY <1>1, <1>2, <1>3, <1>4 DEF Sender

LEMMA HandlerKeepsTypes ==
  ASSUME TInv, Handler
  PROVE  TInv'
<1>1. CASE WaitReaps
  BY <1>1 DEF TInv, TypeOK, HasChunk, WaitReaps, procVars, pipeVars, sendVars, netVars
<1>2. CASE WaitCloses
  BY <1>2 DEF TInv, TypeOK, HasChunk, WaitCloses, procVars, sendVars, netVars
<1>3. CASE AwaitSender
  BY <1>3 DEF TInv, TypeOK, HasChunk, AwaitSender, Return, procVars, pipeVars, netVars
<1>4. CASE SendExit
  <2>1. stream' = stream \/ stream' = Append(stream, Exit)
    BY <1>4 DEF SendExit
  <2>2. stream \in Seq(Chunks \cup {Exit}) /\ consumed \in 0..Len(stream)
    BY DEF TInv, TypeOK
  <2>3. stream' \in Seq(Chunks \cup {Exit}) /\ consumed \in 0..Len(stream')
    BY <2>1, <2>2
  <2>4. QED
    BY <1>4, <2>3 DEF TInv, TypeOK, HasChunk, SendExit, Return, procVars, pipeVars, sendVars
<1>5. QED
  BY <1>1, <1>2, <1>3, <1>4 DEF Handler

LEMMA StepKeepsTypes == TInv /\ [Next]_vars => TInv'
<1> SUFFICES ASSUME TInv, [Next]_vars PROVE TInv'
  OBVIOUS
<1>1. CASE UNCHANGED vars
  BY <1>1 DEF TInv, TypeOK, HasChunk, vars
<1>2. CASE Next
  BY <1>2, CommandKeepsTypes, ReaderKeepsTypes, SenderKeepsTypes, HandlerKeepsTypes DEF Next
<1>3. QED
  BY <1>1, <1>2

\* The variables of a Shell call keep their types, and the channel its capacity.
THEOREM TypeCorrect == Spec => []TypeOK
<1>1. TInv => TypeOK
  BY DEF TInv
<1>2. QED
  BY <1>1, TInvInit, StepKeepsTypes, PTL DEF Spec

-----------------------------------------------------------------------------
\* The sender says how it ended when it returns, once, and the handler gets past
\* <-sendDone only by taking that.
HandOver ==
    /\ sender # "returned" => sendDone = "empty"
    /\ main \in {"final", "returned"} => sendDone = "taken"

LEMMA HandOverInit == Init => HandOver
  BY DEF Init, HandOver

LEMMA StepKeepsHandOver == HandOver /\ [Next]_vars => HandOver'
<1> SUFFICES ASSUME HandOver, [Next]_vars PROVE HandOver'
  OBVIOUS
<1>1. CASE UNCHANGED vars
  BY <1>1 DEF HandOver, vars
<1>2. ASSUME UNCHANGED <<sendVars, mainVars>> PROVE HandOver'
  BY <1>2 DEF HandOver, sendVars, mainVars
<1>3. CASE \/ \E p \in Pipes : CommandWrites(p) \/ Reader(p)
           \/ CommandExits \/ CommandDies \/ WatchCtx \/ Timeout
           \/ ClientGone \/ ClientReads \/ CloseChan
  BY <1>2, <1>3 DEF CommandWrites, Reader, ReadChunk, ReadEnds, PutChunk, CommandExits,
                    CommandDies, CommandEnds, WatchCtx, Timeout, ClientGone, ClientReads, CloseChan
<1>4. CASE Sender
  BY <1>4 DEF HandOver, Sender, SenderReceives, SenderSends, SenderFails, SenderEnds,
              SenderReturns, mainVars
<1>5. CASE Handler
  BY <1>5 DEF HandOver, Handler, WaitReaps, WaitCloses, AwaitSender, SendExit, Return, sendVars
<1>6. QED
  BY <1>1, <1>3, <1>4, <1>5 DEF Next

\* The handler sends only when the sender has returned, and so never beside it
\* (commander/commander.go:122-151).
THEOREM OneSender == Spec => []NoConcurrentSend
<1>1. HandOver => NoConcurrentSend
  BY DEF HandOver, NoConcurrentSend
<1>2. QED
  BY <1>1, HandOverInit, StepKeepsHandOver, PTL DEF Spec
-----------------------------------------------------------------------------
\* What came out of the channel, what the sender has in hand and what is in the
\* channel: the chunks of both pipes in the order the readers put them there.
Hand == IF sender = "send" THEN <<item>> ELSE <<>>
Flow == stream \o Hand \o ch

Rising(p, msgs) == \A i, j \in Of(p, msgs) : i < j => msgs[i][2] < msgs[j][2]

Put(p) == IF reader[p] = "put" THEN taken[p] - 1 ELSE taken[p]

\* As long as the sender runs, every chunk that a reader put is on its way.
Flowing == sender # "returned" =>
    \A p \in Pipes : Rising(p, Flow) /\ Numbers(p, Flow) = 1..Put(p)

\* The channel is closed behind the readers.
ClosedLast == ~chOpen => \A p \in Pipes : reader[p] = "done"

\* Whether the sender has said that all went well.
AllWell == sendDone = "nil" \/ main = "final" \/ (main = "returned" /\ result # "stream")

Drained == AllWell =>
    /\ ~chOpen /\ ch = <<>>
    /\ \A p \in Pipes : reader[p] = "done" /\ Numbers(p, stream) = 1..taken[p]

\* The exit chunk is the handler's last act.
ExitLast == \A i \in DOMAIN stream : stream[i] = Exit => main = "returned" /\ i = Len(stream)

Inv == TInv /\ HandOver /\ InOrder /\ Flowing /\ ClosedLast /\ Drained /\ ExitLast

\* Numbers and order of what a sequence holds of p after one more message.
LEMMA Appended ==
  ASSUME NEW s \in Seq(Chunks \cup {Exit}), NEW c \in Chunks \cup {Exit}, NEW p \in Pipes
  PROVE  /\ c[1] # p => /\ Numbers(p, Append(s, c)) = Numbers(p, s)
                        /\ Rising(p, s) => Rising(p, Append(s, c))
         /\ c[1] = p => /\ Numbers(p, Append(s, c)) = Numbers(p, s) \cup {c[2]}
                        /\ Rising(p, s) /\ (\A n \in Numbers(p, s) : n < c[2])
                              => Rising(p, Append(s, c))
<1> DEFINE t == Append(s, c)
           l == Len(s) + 1
<1>1. DOMAIN t = 1..l /\ DOMAIN s = 1..(l - 1) /\ l \in Nat \ {0}
  OBVIOUS
<1>2. \A i \in 1..(l - 1) : t[i] = s[i]
  OBVIOUS
<1>3. t[l] = c
  OBVIOUS
<1> HIDE DEF t, l
<1>4. CASE c[1] # p
  <2>1. Of(p, t) = Of(p, s)
    BY <1>1, <1>2, <1>3, <1>4 DEF Of
  <2>2. \A i \in Of(p, s) : t[i] = s[i]
    BY <1>1, <1>2 DEF Of
  <2>3. Numbers(p, t) = Numbers(p, s) /\ (Rising(p, s) => Rising(p, t))
    BY <2>1, <2>2 DEF Numbers, Rising
  <2>4. QED
    BY <1>4, <2>3 DEF t
<1>5. CASE c[1] = p
  <2>1. Of(p, t) = Of(p, s) \cup {l} /\ \A i \in Of(p, s) : i < l /\ t[i] = s[i]
    BY <1>1, <1>2, <1>3, <1>5 DEF Of
  <2>2. Numbers(p, t) = Numbers(p, s) \cup {c[2]}
    BY <1>3, <2>1 DEF Numbers
  <2>3. ASSUME Rising(p, s), \A n \in Numbers(p, s) : n < c[2] PROVE Rising(p, t)
    <3>1. SUFFICES ASSUME NEW i \in Of(p, t), NEW j \in Of(p, t), i < j
                   PROVE  t[i][2] < t[j][2]
      BY DEF Rising
    <3>2. i \in Of(p, s)
      BY <1>1, <2>1, <3>1 DEF Of
    <3>3. CASE j \in Of(p, s)
      BY <2>1, <2>3, <3>1, <3>2, <3>3 DEF Rising
    <3>4. CASE j = l
      BY <1>3, <2>1, <2>3, <3>2, <3>4 DEF Numbers
    <3>5. QED
      BY <2>1, <3>3, <3>4
  <2>4. QED
    BY <1>5, <2>2, <2>3 DEF t
<1>6. QED
  BY <1>4, <1>5

\* When the numbers of the whole are 1..n and rise, and those of its first part are
\* 1..m, the chunk that follows is the next one.
LEMMA NextChunk ==
  ASSUME NEW s \in Seq(Chunks \cup {Exit}), NEW c \in Chunks, NEW r \in Seq(Chunks),
         NEW p \in Pipes, NEW n \in Nat, NEW m \in Nat, c[1] = p,
         Rising(p, s \o <<c>> \o r), Numbers(p, s \o <<c>> \o r) = 1..n,
         Numbers(p, s) = 1..m
  PROVE  c[2] = m + 1 /\ m + 1 <= n
<1> DEFINE t == s \o <<c>> \o r
           l == Len(s) + 1
<1>1. DOMAIN s = 1..(l - 1) /\ DOMAIN t = 1..Len(t) /\ l \in 1..Len(t) /\ Len(t) \in Nat
  OBVIOUS
<1>2. \A i \in 1..(l - 1) : t[i] = s[i]
  OBVIOUS
<1>3. t[l] = c
  OBVIOUS
<1>4. Rising(p, t) /\ Numbers(p, t) = 1..n
  OBVIOUS
<1> HIDE DEF t, l
<1>5. l \in Of(p, t) /\ c[2] \in 1..n
  BY <1>1, <1>3, <1>4 DEF Of, Numbers
<1>6. \A i \in Of(p, s) : i \in Of(p, t) /\ i < l /\ t[i] = s[i]
  BY <1>1, <1>2 DEF Of
<1>7. \A k \in 1..m : k < c[2]
  <2>1. TAKE k \in 1..m
  <2>2. PICK i \in Of(p, s) : s[i][2] = k
    BY DEF Numbers
  <2>3. t[i][2] < t[l][2]
    BY <1>4, <1>5, <1>6 DEF Rising
  <2>4. QED
    BY <1>3, <1>6, <2>2, <2>3
<1>8. m + 1 <= c[2]
  BY <1>5, <1>7
<1>9. ASSUME m + 1 < c[2] PROVE FALSE
  <2>0. m + 1 \in Numbers(p, t)
    BY <1>4, <1>5, <1>9
  <2>1. PICK j \in Of(p, t) : t[j][2] = m + 1
    BY <2>0 DEF Numbers
  <2>2. j \in 1..Len(t)
    BY <1>1 DEF Of
  <2>3. CASE j < l
    <3>1. j \in Of(p, s) /\ s[j][2] = m + 1
      BY <1>1, <1>2, <2>1, <2>2, <2>3 DEF Of
    <3>2. m + 1 \in 1..m
      BY <3>1 DEF Numbers
    <3>3. QED
      BY <3>2
  <2>4. CASE j = l
    BY <1>3, <1>5, <1>9, <2>1, <2>4
  <2>5. CASE l < j
    <3>1. t[l][2] < t[j][2]
      BY <1>4, <1>5, <2>5 DEF Rising
    <3>2. QED
      BY <1>3, <1>5, <1>9, <2>1, <3>1
  <2>6. QED
    BY <1>1, <2>2, <2>3, <2>4, <2>5
<1>10. QED
  BY <1>5, <1>8, <1>9

\* Taking a chunk out of the channel, and sending it, leaves the flow as it is.
LEMMA Handed ==
  ASSUME NEW s \in Seq(Chunks \cup {Exit}), NEW r \in Seq(Chunks)
  PROVE  /\ s \o <<>> \o <<>> = s
         /\ r # <<>> => s \o <<Head(r)>> \o Tail(r) = s \o <<>> \o r
         /\ \A c \in Chunks :
               /\ Append(s, c) \o <<>> \o r = s \o <<c>> \o r
               /\ s \o <<>> \o Append(r, c) = Append(s \o <<>> \o r, c)
               /\ \A h \in Chunks : s \o <<h>> \o Append(r, c) = Append(s \o <<h>> \o r, c)
<1>1. s \o <<>> \o <<>> = s
  OBVIOUS
<1>2. ASSUME r # <<>> PROVE s \o <<Head(r)>> \o Tail(r) = s \o <<>> \o r
  BY <1>2
<1>3. ASSUME NEW c \in Chunks PROVE Append(s, c) \o <<>> \o r = s \o <<c>> \o r
  OBVIOUS
<1>4. ASSUME NEW c \in Chunks PROVE s \o <<>> \o Append(r, c) = Append(s \o <<>> \o r, c)
  OBVIOUS
<1>5. ASSUME NEW c \in Chunks, NEW h \in Chunks
      PROVE  s \o <<h>> \o Append(r, c) = Append(s \o <<h>> \o r, c)
  OBVIOUS
<1>6. QED
  BY <1>1, <1>2, <1>3, <1>4, <1>5

LEMMA FlowInit == Init => InOrder /\ Flowing /\ ClosedLast /\ Drained /\ ExitLast
<1> SUFFICES ASSUME Init PROVE InOrder /\ Flowing /\ ClosedLast /\ Drained /\ ExitLast
  OBVIOUS
<1>1. Flow = <<>> /\ stream = <<>> /\ \A p \in Pipes : taken[p] = 0 /\ Put(p) = 0
  BY DEF Init, Flow, Hand, Put
<1>2. \A p \in Pipes : Of(p, <<>>) = {} /\ Numbers(p, <<>>) = {}
  BY DEF Of, Numbers
<1>3. 1..0 = {} /\ 0 \in 0..0
  OBVIOUS
<1>4. InOrder
  BY <1>1, <1>2, <1>3 DEF InOrder
<1>5. Flowing
  BY <1>1, <1>2, <1>3 DEF Flowing, Rising
<1>6. ClosedLast /\ Drained /\ ExitLast
  BY <1>1 DEF Init, ClosedLast, Drained, AllWell, ExitLast
<1>7. QED
  BY <1>4, <1>5, <1>6

\* What neither a reader, nor the sender, nor the handler does leaves it all as it is.
LEMMA Quiet ==
  ASSUME Inv, UNCHANGED <<reader, taken, ch, chOpen, sendVars, stream, mainVars>>
  PROVE  (InOrder /\ Flowing /\ ClosedLast /\ Drained /\ ExitLast)'
<1> USE DEF Inv, sendVars, mainVars
<1>1. InOrder'
  BY DEF InOrder
<1>2. Flowing'
  BY DEF Flowing, Flow, Hand, Put
<1>3. (ClosedLast /\ Drained /\ ExitLast)'
  BY DEF ClosedLast, Drained, AllWell, ExitLast
<1>4. QED
  BY <1>1, <1>2, <1>3

LEMMA FlowTypes ==
  ASSUME Inv
  PROVE  /\ stream \in Seq(Chunks \cup {Exit}) /\ ch \in Seq(Chunks)
         /\ Flow \in Seq(Chunks \cup {Exit})
         /\ sender = "send" => item \in Chunks
         /\ \A p \in Pipes : taken[p] \in 0..MaxWrites /\ Put(p) \in Nat
<1>1. /\ stream \in Seq(Chunks \cup {Exit}) /\ ch \in Seq(Chunks)
      /\ sender = "send" => item \in Chunks
      /\ taken \in [Pipes -> 0..MaxWrites]
  BY DEF Inv, TInv, TypeOK, HasChunk
<1>2. Hand \in Seq(Chunks)
  BY <1>1 DEF Hand
<1>3. Flow \in Seq(Chunks \cup {Exit})
  <2>1. Hand \in Seq(Chunks \cup {Exit}) /\ ch \in Seq(Chunks \cup {Exit})
    BY <1>1, <1>2
  <2>2. QED
    BY <1>1, <2>1 DEF Flow
<1>4. ASSUME NEW p \in Pipes PROVE taken[p] \in 0..MaxWrites /\ Put(p) \in Nat
  <2>1. taken[p] \in 0..MaxWrites /\ (reader[p] = "put" => taken[p] > 0)
    BY <1>1 DEF Inv, TInv, HasChunk
  <2>2. QED
    BY <2>1, BoundsAssumption DEF Put
<1>5. QED
  BY <1>1, <1>3, <1>4

LEMMA ReaderKeepsFlow ==
  ASSUME Inv, NEW q \in Pipes, Reader(q)
  PROVE  (InOrder /\ Flowing /\ ClosedLast /\ Drained /\ ExitLast)'
<1>1. UNCHANGED <<stream, sender, item, sendDone, main, result, chOpen>>
  BY DEF Reader, ReadChunk, ReadEnds, PutChunk, sendVars, netVars, mainVars
<1>2. /\ reader \in [Pipes -> {"read", "put", "done"}]
      /\ taken \in [Pipes -> 0..MaxWrites]
      /\ reader[q] # "done" /\ chOpen /\ ~AllWell
  <2>1. reader \in [Pipes -> {"read", "put", "done"}] /\ taken \in [Pipes -> 0..MaxWrites]
    BY DEF Inv, TInv, TypeOK
  <2>2. reader[q] # "done"
    BY DEF Reader, ReadChunk, ReadEnds, PutChunk
  <2>3. QED
    BY <2>1, <2>2 DEF Inv, ClosedLast, Drained, TInv, TypeOK
<1>3. (ClosedLast /\ Drained /\ ExitLast)'
  BY <1>1, <1>2 DEF Inv, ClosedLast, Drained, AllWell, ExitLast
<1>4. CASE ReadChunk(q)
  <2>1. ch' = ch /\ taken' = [taken EXCEPT ![q] = @ + 1]
        /\ reader' = [reader EXCEPT ![q] = "put"] /\ reader[q] = "read"
    BY <1>4 DEF ReadChunk
  <2>2. \A p \in Pipes : Put(p)' = Put(p) /\ taken[p] <= taken'[p] /\ taken'[p] \in Nat
    BY <1>2, <2>1, BoundsAssumption DEF Put
  <2>3. Flow' = Flow
    BY <1>1, <2>1 DEF Flow, Hand
  <2>4. Flowing'
    BY <1>1, <2>2, <2>3 DEF Inv, Flowing
  <2>5. \A p \in Pipes : 0..taken[p] \subseteq 0..taken'[p]
    BY <1>2, <2>2, BoundsAssumption
  <2>6. InOrder'
    BY <1>1, <2>5 DEF Inv, InOrder
  <2>7. QED
    BY <1>3, <2>4, <2>6
<1>5. CASE ReadEnds(q)
  <2>1. UNCHANGED <<ch, taken>> /\ reader' = [reader EXCEPT ![q] = "done"] /\ reader[q] = "read"
    BY <1>5 DEF ReadEnds
  <2>2. \A p \in Pipes : Put(p)' = Put(p)
    BY <1>2, <2>1 DEF Put
  <2>3. Flow' = Flow
    BY <1>1, <2>1 DEF Flow, Hand
  <2>4. Flowing'
    BY <1>1, <2>2, <2>3 DEF Inv, Flowing
  <2>5. InOrder'
    BY <1>1, <2>1 DEF Inv, InOrder
  <2>6. QED
    BY <1>3, <2>4, <2>5
<1>6. CASE PutChunk(q)
  <2> DEFINE c == <<q, taken[q]>>
  <2>1. /\ ch' = Append(ch, c) /\ taken' = taken /\ reader[q] = "put"
        /\ reader' = [reader EXCEPT ![q] = "read"]
    BY <1>6 DEF PutChunk
  <2>2. InOrder'
    BY <1>1, <2>1 DEF Inv, InOrder
  <2>3. c \in Chunks /\ c[1] = q /\ c[2] = taken[q]
    BY <1>2, <2>1, BoundsAssumption DEF Inv, TInv, HasChunk, Chunks
  <2> HIDE DEF c
  <2>4. Flow' = Append(Flow, c)
    <3>1. /\ stream \in Seq(Chunks \cup {Exit}) /\ ch \in Seq(Chunks)
          /\ sender = "send" => item \in Chunks
      BY FlowTypes
    <3>2. CASE sender = "send"
      <4>1. stream \o <<item>> \o Append(ch, c) = Append(stream \o <<item>> \o ch, c)
        BY <2>3, <3>1, <3>2, Handed
      <4>2. QED
        BY <1>1, <2>1, <3>2, <4>1 DEF Flow, Hand
    <3>3. CASE sender # "send"
      <4>1. stream \o <<>> \o Append(ch, c) = Append(stream \o <<>> \o ch, c)
        BY <2>3, <3>1, Handed
      <4>2. QED
        BY <1>1, <2>1, <3>3, <4>1 DEF Flow, Hand
    <3>4. QED
      BY <3>2, <3>3
  <2>5. ASSUME sender # "returned", NEW p \in Pipes
        PROVE  Rising(p, Flow') /\ Numbers(p, Flow') = 1..Put(p)'
    <3>1. Rising(p, Flow) /\ Numbers(p, Flow) = 1..Put(p) /\ Put(p) \in Nat
          /\ Flow \in Seq(Chunks \cup {Exit})
      BY <2>5, FlowTypes DEF Inv, Flowing
    <3>2. CASE p # q
      <4>1. Put(p)' = Put(p)
        BY <1>2, <2>1, <3>2 DEF Put
      <4>2. QED
        BY SMTT(30), <2>3, <2>4, <3>1, <3>2, <4>1, Appended
    <3>3. CASE p = q
      <4>1. Put(p) = taken[q] - 1 /\ Put(p)' = taken[q] /\ taken[q] \in Nat
        BY <1>2, <2>1, <3>3 DEF Put
      <4>2. \A n \in Numbers(p, Flow) : n < c[2]
        BY <2>3, <3>1, <4>1
      <4>3. 1..Put(p)' = (1..Put(p)) \cup {c[2]}
        BY <2>3, <3>1, <4>1
      <4>4. /\ Numbers(p, Append(Flow, c)) = Numbers(p, Flow) \cup {c[2]}
            /\ Rising(p, Append(Flow, c))
        BY <2>3, <3>1, <3>3, <4>2, Appended
      <4>5. QED
        BY <2>4, <3>1, <4>3, <4>4
    <3>4. QED
      BY <3>2, <3>3
  <2>6. Flowing'
    BY <1>1, <2>5 DEF Flowing
  <2>7. QED
    BY <1>3, <2>2, <2>6
<1>7. QED
  BY <1>4, <1>5, <1>6 DEF Reader

LEMMA SenderKeepsFlow ==
  ASSUME Inv, CloseChan \/ Sender
  PROVE  (InOrder /\ Flowing /\ ClosedLast /\ Drained /\ ExitLast)'
<1>1. CASE CloseChan
  <2>1. /\ UNCHANGED <<reader, taken, ch, sender, item, sendDone, stream, main, result>>
        /\ \A p \in Pipes : reader[p] = "done"
    BY <1>1 DEF CloseChan, pipeVars, sendVars, netVars, mainVars
  <2>2. chOpen' = FALSE
    BY <1>1 DEF CloseChan
  <2>3. InOrder'
    BY <2>1 DEF Inv, InOrder
  <2>4. Flowing'
    BY <2>1 DEF Inv, Flowing, Flow, Hand, Put
  <2>5. (ClosedLast /\ Drained /\ ExitLast)'
    BY <2>1, <2>2 DEF Inv, ClosedLast, Drained, AllWell, ExitLast
  <2>6. QED
    BY <2>3, <2>4, <2>5
<1>2. ASSUME Sender
      PROVE  /\ UNCHANGED <<reader, taken, chOpen, main, result>>
             /\ sender # "returned" /\ sendDone = "empty" /\ main \notin {"final", "returned"}
  <2>1. UNCHANGED <<reader, taken, chOpen, main, result>> /\ sender # "returned"
    BY <1>2 DEF Sender, SenderReceives, SenderSends, SenderFails, SenderEnds, SenderReturns,
                pipeVars, netVars, mainVars
  <2>2. QED
    BY <2>1 DEF Inv, HandOver
<1>3. \A p \in Pipes : Put(p)' = Put(p)
  BY <1>1, <1>2 DEF Put, CloseChan, pipeVars
<1>4. CASE SenderReceives
  <2>1. /\ sender = "receive" /\ sender' = "send" /\ ch # <<>>
        /\ item' = Head(ch) /\ ch' = Tail(ch) /\ UNCHANGED <<stream, sendDone>>
    BY <1>4 DEF SenderReceives, netVars
  <2>2. stream \o <<Head(ch)>> \o Tail(ch) = stream \o <<>> \o ch
    BY <2>1, FlowTypes, Handed
  <2>3. Flow' = Flow
    BY <2>1, <2>2 DEF Flow, Hand
  <2>4. InOrder' /\ Flowing'
    BY <1>2, <1>3, <1>4, <2>1, <2>3 DEF Inv, InOrder, Flowing, Sender
  <2>5. (ClosedLast /\ Drained /\ ExitLast)'
    BY <1>2, <1>4, <2>1 DEF Inv, ClosedLast, Drained, AllWell, ExitLast, Sender
  <2>6. QED
    BY <2>4, <2>5
<1>5. CASE SenderSends
  <2>1. /\ sender = "send" /\ sender' = "receive" /\ stream' = Append(stream, item)
        /\ UNCHANGED <<ch, sendDone>>
    BY <1>5 DEF SenderSends
  <2>2. /\ stream \in Seq(Chunks \cup {Exit}) /\ ch \in Seq(Chunks) /\ item \in Chunks
        /\ \A p \in Pipes : taken[p] \in 0..MaxWrites /\ Put(p) \in Nat
    BY <2>1, FlowTypes
  <2>3. Flow = stream \o <<item>> \o ch /\ Flow' = Append(stream, item) \o <<>> \o ch
    BY <2>1 DEF Flow, Hand
  <2>4. Flow' = Flow
    BY <2>2, <2>3, Handed
  <2>5. Flowing'
    BY <1>2, <1>3, <1>5, <2>1, <2>4 DEF Inv, Flowing, Sender
  <2>6. (ClosedLast /\ Drained)'
    BY <1>2, <1>5, <2>1 DEF Inv, ClosedLast, Drained, AllWell, Sender
  <2>7. ExitLast'
    <3>1. \A i \in DOMAIN stream : stream[i] # Exit
      BY <1>2, <1>5 DEF Inv, ExitLast, Sender
    <3>2. item # Exit
      BY <2>2 DEF Chunks, Pipes, Exit
    <3>3. \A i \in DOMAIN stream' : stream'[i] # Exit
      BY <2>1, <2>2, <3>1, <3>2
    <3>4. QED
      BY <3>3 DEF ExitLast
  <2>8. InOrder'
    <3>1. SUFFICES ASSUME NEW p \in Pipes
                   PROVE  /\ \E n \in 0..taken[p] : Numbers(p, Append(stream, item)) = 1..n
                          /\ Rising(p, Append(stream, item))
      BY <1>2, <1>5, <2>1 DEF InOrder, Rising, Sender
    <3>2. Rising(p, stream)
      BY DEF Inv, InOrder, Rising
    <3>3. PICK m \in 0..taken[p] : Numbers(p, stream) = 1..m
      BY DEF Inv, InOrder
    <3>4. CASE item[1] # p
      <4>1. /\ Numbers(p, Append(stream, item)) = Numbers(p, stream)
            /\ Rising(p, stream) => Rising(p, Append(stream, item))
        BY <2>2, <3>4, Appended
      <4>2. QED
        BY <3>2, <3>3, <4>1
    <3>5. CASE item[1] = p
      <4>1. Rising(p, Flow) /\ Numbers(p, Flow) = 1..Put(p) /\ Put(p) \in Nat
        BY <1>2, <1>5, <2>2 DEF Inv, Flowing, Sender
      <4>2. m \in Nat /\ taken[p] \in Nat /\ Put(p) <= taken[p]
        BY <2>2, <3>3, BoundsAssumption DEF Put
      <4>3. item[2] = m + 1 /\ m + 1 <= Put(p)
        BY <2>2, <2>3, <3>3, <3>5, <4>1, <4>2, NextChunk
      <4>4. m + 1 \in 0..taken[p] /\ 1..(m + 1) = (1..m) \cup {item[2]}
        BY <4>1, <4>2, <4>3
      <4>5. \A n \in 1..m : n < item[2]
        BY <4>2, <4>3
      <4>6. Rising(p, Append(stream, item))
        BY <2>2, <3>2, <3>3, <3>5, <4>5, Appended
      <4>7. Numbers(p, Append(stream, item)) = 1..(m + 1)
        <5>1. Numbers(p, Append(stream, item)) = Numbers(p, stream) \cup {item[2]}
          BY SMTT(30), <2>2, <3>5, Appended
        <5>2. QED
          BY <3>3, <4>4, <5>1
      <4>8. QED
        BY <4>4, <4>6, <4>7
    <3>6. QED
      BY <3>4, <3>5
  <2>9. QED
    BY <2>5, <2>6, <2>7, <2>8
<1>6. CASE SenderFails \/ SenderEnds
  <2>1. sender' = "returned" /\ UNCHANGED <<ch, stream>>
    BY <1>6 DEF SenderFails, SenderEnds, SenderReturns, netVars
  <2>2. InOrder' /\ Flowing' /\ ClosedLast' /\ ExitLast'
    BY <1>2, <1>6, <2>1 DEF Inv, InOrder, Flowing, ClosedLast, ExitLast, Sender
  <2>3. CASE SenderFails
    <3>1. sendDone' = "error"
      BY <2>3 DEF SenderFails, SenderReturns
    <3>2. Drained'
      BY <1>2, <2>3, <3>1 DEF Drained, AllWell, Sender
    <3>3. QED
      BY <2>2, <3>2
  <2>4. CASE SenderEnds
    <3>1. sender = "receive" /\ ch = <<>> /\ ~chOpen
      BY <2>4 DEF SenderEnds
    <3>2. Flow = stream
      <4>1. stream \o <<>> \o <<>> = stream
        BY FlowTypes, Handed
      <4>2. QED
        BY <3>1, <4>1 DEF Flow, Hand
    <3>3. \A p \in Pipes : reader[p] = "done" /\ Numbers(p, stream) = 1..taken[p]
      BY <3>1, <3>2 DEF Inv, ClosedLast, Flowing, Put
    <3>4. Drained'
      BY <1>2, <2>1, <2>4, <3>1, <3>3 DEF Drained, Sender
    <3>5. QED
      BY <2>2, <3>4
  <2>5. QED
    BY <1>6, <2>3, <2>4
<1>7. QED
  BY <1>1, <1>4, <1>5, <1>6 DEF Sender

LEMMA HandlerKeepsFlow ==
  ASSUME Inv, Handler
  PROVE  (InOrder /\ Flowing /\ ClosedLast /\ Drained /\ ExitLast)'
<1>1. UNCHANGED <<reader, taken, ch, chOpen, sender, item>>
  BY DEF Handler, WaitReaps, WaitCloses, AwaitSender, SendExit, pipeVars, sendVars
<1>2. ClosedLast' /\ \A p \in Pipes : Put(p)' = Put(p)
  BY <1>1 DEF Inv, ClosedLast, Put
<1>3. ASSUME UNCHANGED stream PROVE InOrder' /\ Flowing'
  <2>1. Flow' = Flow
    BY <1>1, <1>3 DEF Flow, Hand
  <2>2. QED
    BY <1>1, <1>2, <1>3, <2>1 DEF Inv, InOrder, Flowing
<1>4. CASE WaitReaps
  <2>1. UNCHANGED <<stream, sendDone>> /\ main = "wait" /\ main' = "close"
    BY <1>4 DEF WaitReaps, sendVars, netVars
  <2>2. (Drained /\ ExitLast)'
    BY <1>1, <2>1 DEF Inv, Drained, AllWell, ExitLast
  <2>3. QED
    BY <1>2, <1>3, <2>1, <2>2
<1>5. CASE WaitCloses
  <2>1. UNCHANGED <<stream, sendDone>> /\ main = "close" /\ main' = "await"
    BY <1>5 DEF WaitCloses, sendVars, netVars
  <2>2. (Drained /\ ExitLast)'
    BY <1>1, <2>1 DEF Inv, Drained, AllWell, ExitLast
  <2>3. QED
    BY <1>2, <1>3, <2>1, <2>2
<1>6. CASE AwaitSender
  <2>1. UNCHANGED stream /\ main = "await" /\ sendDone' = "taken"
    BY <1>6 DEF AwaitSender, netVars
  <2>2. sendDone = "nil" \/ (main' = "returned" /\ result' = "stream")
    BY <1>6 DEF AwaitSender, Return
  <2>3. Drained'
    BY <1>1, <2>1, <2>2 DEF Inv, Drained, AllWell
  <2>4. ExitLast'
    BY <2>1 DEF Inv, ExitLast
  <2>5. QED
    BY <1>2, <1>3, <2>1, <2>3, <2>4
<1>7. CASE SendExit
  <2>1. /\ main = "final" /\ main' = "returned" /\ result' = "ok"
        /\ sendDone = "taken" /\ sendDone' = "taken" /\ sender = "returned"
    BY <1>7 DEF Inv, HandOver, TInv, TypeOK, SendExit, Return, sendVars
  <2>2. /\ stream' = stream \/ stream' = Append(stream, Exit)
        /\ stream \in Seq(Chunks \cup {Exit}) /\ \A i \in DOMAIN stream : stream[i] # Exit
    BY <1>7, <2>1, FlowTypes DEF Inv, ExitLast, SendExit
  <2>3. \A p \in Pipes : /\ Numbers(p, stream') = Numbers(p, stream)
                         /\ Rising(p, stream) => Rising(p, stream')
    <3>1. TAKE p \in Pipes
    <3>2. Exit[1] # p
      BY DEF Exit, Pipes
    <3>3. CASE stream' = stream
      BY <3>3
    <3>4. CASE stream' = Append(stream, Exit)
      BY <2>2, <3>2, <3>4, Appended
    <3>5. QED
      BY <2>2, <3>3, <3>4
  <2>4. InOrder'
    <3>1. \A p \in Pipes : Rising(p, stream')
      BY <2>3 DEF Inv, InOrder, Rising
    <3>2. \A p \in Pipes : \E n \in 0..taken[p] : Numbers(p, stream') = 1..n
      BY <2>3 DEF Inv, InOrder
    <3>3. QED
      BY <1>1, <3>1, <3>2 DEF InOrder, Rising
  <2>5. Flowing' /\ Drained'
    BY <1>1, <2>1, <2>3 DEF Inv, Flowing, Drained, AllWell
  <2>6. ExitLast'
    <3>1. \A i \in DOMAIN stream' : stream'[i] = Exit => i = Len(stream')
      BY <2>2
    <3>2. QED
      BY <2>1, <3>1 DEF ExitLast
  <2>7. QED
    BY <1>2, <2>4, <2>5, <2>6
<1>8. QED
  BY <1>4, <1>5, <1>6, <1>7 DEF Handler

LEMMA StepKeepsInv == Inv /\ [Next]_vars => Inv'
<1> SUFFICES ASSUME Inv, [Next]_vars PROVE Inv'
  OBVIOUS
<1>1. TInv' /\ HandOver'
  BY StepKeepsTypes, StepKeepsHandOver DEF Inv
<1>2. CASE UNCHANGED vars
  <2>1. UNCHANGED <<reader, taken, ch, chOpen, sendVars, stream, mainVars>>
    BY <1>2 DEF vars, sendVars, mainVars
  <2>2. QED
    BY <1>1, <2>1, Quiet DEF Inv
<1>3. CASE \/ \E p \in Pipes : CommandWrites(p)
           \/ CommandExits \/ CommandDies \/ WatchCtx \/ Timeout \/ ClientGone \/ ClientReads
  <2>1. UNCHANGED <<reader, taken, ch, chOpen, sendVars, stream, mainVars>>
    BY <1>3 DEF CommandWrites, CommandExits, CommandDies, CommandEnds, WatchCtx, Timeout,
                ClientGone, ClientReads, pipeVars, netVars
  <2>2. QED
    BY <1>1, <2>1, Quiet DEF Inv
<1>4. CASE \E p \in Pipes : Reader(p)
  BY <1>1, <1>4, ReaderKeepsFlow DEF Inv
<1>5. CASE CloseChan \/ Sender
  BY <1>1, <1>5, SenderKeepsFlow DEF Inv
<1>6. CASE Handler
  BY <1>1, <1>6, HandlerKeepsFlow DEF Inv
<1>7. QED
  BY <1>2, <1>3, <1>4, <1>5, <1>6 DEF Next

LEMMA Invariance == Spec => []Inv
<1>1. Init => Inv
  BY TInvInit, HandOverInit, FlowInit DEF Inv
<1>2. QED
  BY <1>1, StepKeepsInv, PTL DEF Spec

\* The client gets a prefix of what was read of each pipe, in order, however many
\* chunks there are and wherever the call is cut off (commander/commander.go:95-142).
THEOREM StreamInOrder == Spec => []InOrder
<1>1. Inv => InOrder
  BY DEF Inv
<1>2. QED
  BY <1>1, Invariance, PTL

\* A handler that returns without a stream error has sent all that was read, with the
\* exit chunk last, and its goroutines have ended (commander/commander.go:122-158).
THEOREM ReturnsClean == Spec => []CleanReturn
<1>1. Inv => CleanReturn
  BY DEF Inv, CleanReturn, Drained, AllWell, ExitLast
<1>2. QED
  BY <1>1, Invariance, PTL
=============================================================================
