------------------------- MODULE RunnerTable_proofs -------------------------
(***************************************************************************)
(* Proofs about RunnerTable, for any number of processes, pids and Stops.  *)
(*                                                                         *)
(* The invariants of the runs are not inductive on their own.  What makes  *)
(* them so is the kernel's rule that a pid belongs to one process until it *)
(* is reaped (PidsUnique), together with the order of the code: a process  *)
(* is tracked before anybody waits for it and reaped before done is closed *)
(* (WaiterOrder), so that whatever entry track overwrites was reaped.      *)
(***************************************************************************)
EXTENDS RunnerTable, TLAPS

PidsUnique ==
    \A p, q \in Procs : pid[p] = pid[q] /\ Holds(p, pid[p]) /\ Holds(q, pid[q]) => p = q

WaiterOrder ==
    \A p \in Procs :
        /\ waiter[p] = "idle" <=> os[p] = "unborn"
        /\ waiter[p] \in {"woken", "done"} <=> os[p] = "reaped"
        /\ os[p] # "unborn" => pid[p] \in Pids
        /\ waiter[p] \in {"idle", "untracked", "abandoned"} => conn[p] = "none"

Tracked(p) == waiter[p] \in {"waiting", "woken", "done"}

TableSound ==
    \A i \in Pids : procs[i] # None => pid[procs[i]] = i /\ Tracked(procs[i])

\* The entry under the pid of a process that is waited for is its own, or gone; and the
\* conns of the table are not closed.
EntriesCurrent ==
    /\ \A p \in Procs : waiter[p] = "waiting" => procs[pid[p]] \in {p, None}
    /\ \A i \in Pids : procs[i] # None => conn[procs[i]] # "closed"

\* A call past its look-up holds a tracked process that has the pid it asked for.
Holding == {"check", "signal", "wait", "kill", "drain", "remove"}
CallsSound ==
    \A c \in Calls :
        /\ pc[c] \in Holding \/ Succeeded(c) =>
              /\ tp[c] \in Procs
              /\ req[c] = pid[tp[c]]
              /\ Tracked(tp[c])
        /\ pc[c] \in {"kill", "drain"} => ~force[c]
        /\ pc[c] = "remove" /\ ~force[c] => Done(tp[c])
        /\ pc[c] = "remove" => reply[c] \in {"exitcode", "minusone"}
        /\ Succeeded(c) /\ ~force[c] => Done(tp[c])

\* fork or spawn is decided before the process exists.
KindSet == \A p \in Procs : waiter[p] # "idle" => kind[p] # "unset"

\* Only a call that looked a process up has signalled anything.
HitsSound == \A c \in Calls : hit[c] # {} => pc[c] # "idle" /\ tp[c] \in Procs

Inv == /\ TypeOK
       /\ PidsUnique
       /\ WaiterOrder
       /\ KindSet
       /\ TableSound
       /\ EntriesCurrent
       /\ CallsSound
       /\ HitsSound
       /\ NoLiveConnLeaked
       /\ LostOnlyToStop
       /\ MisdirectedOnlyAfterReap

-----------------------------------------------------------------------------
(* Types.                                                                  *)

\* ExitCodes: a finished Stop has one of the two replies that mean success.
LEMMA ExitCodesType ==
    ASSUME NEW p, NEW x \in ExitCodes(p)
    PROVE  x \in {"exitcode", "minusone"}
  BY DEF ExitCodes

\* Every value of every variable stays in its type: pids, table entries and the
\* handlers' locals are what the code declares them to be.
THEOREM TypeCorrect == Spec => []TypeOK
  <1>1. Init => TypeOK
    BY NoneAssumption DEF Init, TypeOK
  <1>2. TypeOK /\ [Next]_vars => TypeOK'
    <2> SUFFICES ASSUME TypeOK, [Next]_vars
                 PROVE  TypeOK'
      OBVIOUS
    <2> USE DEF TypeOK
    <2>1. CASE UNCHANGED vars
      BY <2>1 DEF vars
    <2>2. ASSUME NEW p \in Procs, ProcStep(p) PROVE TypeOK'
      <3>1. CASE StartAny(p)
        BY <3>1 DEF StartAny, Start, stopVars
      <3>2. CASE AbandonFork(p)
        BY <3>2 DEF AbandonFork, Deliver, stopVars
      <3>3. CASE Track(p)
        BY <3>3 DEF Track, osVars, stopVars
      <3>4. CASE Exit(p)
        BY <3>4 DEF Exit, procVars, stopVars
      <3>5. CASE Reap(p)
        BY <3>5 DEF Reap, stopVars
      <3>6. CASE CloseDone(p)
        BY <3>6 DEF CloseDone, osVars, stopVars
      <3> QED BY <2>2, <3>1, <3>2, <3>3, <3>4, <3>5, <3>6 DEF ProcStep
    <2>3. ASSUME NEW c \in Calls, StopAny(c) PROVE TypeOK'
      BY <2>3 DEF StopAny, StopRefuse, StopLookup, Replies, osVars, procVars
    <2>4. ASSUME NEW c \in Calls, NEW cond, FinishWhen(c, cond) PROVE TypeOK'
      BY <2>4, ExitCodesType DEF FinishWhen, Replies, osVars, procVars
    <2>5. ASSUME NEW c \in Calls,
                 NEW l \in {"signal", "kill"}, Goto(c, l) PROVE TypeOK'
      BY <2>5 DEF Goto, osVars, procVars
    <2>6. ASSUME NEW c \in Calls, StopStep(c) PROVE TypeOK'
      <3>1. CASE StopCheck(c) \/ StopTimeout(c) \/ StopAwaitDone(c)
        BY <2>4, <2>5, <3>1 DEF StopCheck, StopTimeout, StopAwaitDone
      <3>2. CASE StopSignal(c)
        BY <3>2 DEF StopSignal, SignalTargets, Deliver, Replies, procVars
      <3>3. CASE StopKill(c)
        BY <3>3 DEF StopKill, SignalTargets, Deliver, procVars
      <3>4. CASE StopRemove(c)
        BY <3>4 DEF StopRemove, osVars
      <3> QED BY <2>6, <3>1, <3>2, <3>3, <3>4 DEF StopStep
    <2> QED BY <2>1, <2>2, <2>3, <2>6 DEF Next
  <1> QED BY <1>1, <1>2, PTL DEF Spec

-----------------------------------------------------------------------------
(* The inductive invariant, conjunct by conjunct: first the steps of the   *)
(* processes, then those of the Stops.                                     *)

USE DEF Inv

\* Starting a process takes a pid nobody holds; nothing knows the process yet.
LEMMA StartKeepsInv ==
    ASSUME Inv, TypeOK', NEW p \in Procs, NEW k \in {"fork", "spawn"}, Start(p, k)
    PROVE  Inv'
  <1> USE NoneAssumption DEF TypeOK
  <1>1. PICK i \in Pids : /\ \A q \in Procs : ~Holds(q, i)
                          /\ pid' = [pid EXCEPT ![p] = i]
    BY DEF Start
  <1>2. /\ os[p] = "unborn" /\ waiter[p] = "idle" /\ ~Tracked(p)
        /\ conn[p] = "none"
    BY DEF Start, WaiterOrder, Tracked
  <1>3. PidsUnique'
    BY <1>1 DEF PidsUnique, Holds, Start
  <1>4. WaiterOrder'
    BY <1>1, <1>2 DEF WaiterOrder, Start
  <1>11. KindSet'
    BY DEF KindSet, Start
  <1>5. TableSound'
    BY <1>1, <1>2 DEF TableSound, Tracked, Start
  <1>6. CallsSound'
    BY <1>1, <1>2 DEF CallsSound, Succeeded, Holding, Tracked, Done, Start, stopVars
  <1>7. HitsSound'
    BY DEF HitsSound, Start, stopVars
  <1>8. NoLiveConnLeaked'
    BY <1>1, <1>2 DEF NoLiveConnLeaked, Start
  <1>9. LostOnlyToStop'
    BY <1>1, <1>2 DEF LostOnlyToStop, Succeeded, Start, stopVars
  <1>10. MisdirectedOnlyAfterReap'
    BY <1>2 DEF MisdirectedOnlyAfterReap, HitsSound, Start, stopVars
  <1>12. EntriesCurrent'
    BY <1>1, <1>2 DEF EntriesCurrent, WaiterOrder, Start
  <1> QED BY <1>3, <1>4, <1>5, <1>6, <1>7, <1>8, <1>9, <1>10, <1>11, <1>12

\* Track may overwrite an entry.  The process it overwrites had the same pid, so
\* by PidsUnique and WaiterOrder it was reaped.
LEMMA TrackKeepsInv ==
    ASSUME Inv, TypeOK', NEW p \in Procs, Track(p)
    PROVE  Inv'
  <1> USE NoneAssumption DEF TypeOK
  <1>1. /\ waiter[p] = "untracked" /\ os[p] \in {"running", "zombie"}
        /\ pid[p] \in Pids /\ conn[p] = "none" /\ ~Tracked(p)
    BY DEF Track, WaiterOrder, Tracked
  <1>2. ASSUME NEW q \in Procs, q # p, pid[q] = pid[p], Tracked(q)
        PROVE  os[q] = "reaped"
    BY <1>1, <1>2 DEF PidsUnique, Holds, WaiterOrder, Tracked
  <1>3. PidsUnique'
    BY DEF PidsUnique, Holds, Track, osVars
  <1>4. WaiterOrder'
    BY <1>1 DEF WaiterOrder, Track, osVars
  <1>11. KindSet'
    BY DEF KindSet, Track
  <1>5. TableSound'
    BY <1>1 DEF TableSound, Tracked, Track, osVars
  <1>6. CallsSound'
    BY <1>1 DEF CallsSound, Succeeded, Holding, Tracked, Done, Track, osVars, stopVars
  <1>7. HitsSound'
    BY DEF HitsSound, Track, stopVars
  <1>8. NoLiveConnLeaked'
    BY <1>1, <1>2 DEF NoLiveConnLeaked, Track, WaiterOrder, Tracked, osVars
  <1>9. LostOnlyToStop'
    BY <1>1, <1>2 DEF LostOnlyToStop, Succeeded, Tracked, WaiterOrder,
                      Track, osVars, stopVars
  <1>10. MisdirectedOnlyAfterReap'
    BY DEF MisdirectedOnlyAfterReap, Track, osVars, stopVars
  <1>12. EntriesCurrent'
    BY <1>1, <1>2 DEF EntriesCurrent, TableSound, WaiterOrder, Tracked, Track, osVars
  <1> QED BY <1>3, <1>4, <1>5, <1>6, <1>7, <1>8, <1>9, <1>10, <1>11, <1>12

\* A process that exits, is reaped, or is given up on only moves on: nothing that
\* was reaped or done is taken back.
LEMMA EndingKeepsInv ==
    ASSUME Inv, TypeOK', NEW p \in Procs,
           Exit(p) \/ Reap(p) \/ CloseDone(p) \/ AbandonFork(p)
    PROVE  Inv'
  <1> USE NoneAssumption DEF TypeOK
  <1>1. /\ UNCHANGED <<pid, procs, conn, kind, stopVars>>
        /\ \A q \in Procs :
              /\ q # p => os'[q] = os[q] /\ waiter'[q] = waiter[q]
              /\ os[q] = "reaped" => os'[q] = "reaped"
              /\ Tracked(q) => Tracked(q)'
              /\ Done(q) => Done(q)'
              /\ waiter'[q] = "waiting" => waiter[q] = "waiting"
              /\ os'[q] \in {"running", "zombie"} => os[q] \in {"running", "zombie"}
    BY DEF Exit, Reap, CloseDone, AbandonFork, procVars, osVars, stopVars, Tracked, Done
  <1>2. PidsUnique'
    BY <1>1 DEF PidsUnique, Holds
  <1>3. WaiterOrder'
    BY <1>1 DEF WaiterOrder, Exit, Reap, CloseDone, AbandonFork, procVars, osVars
  <1>10. KindSet'
    BY <1>1 DEF KindSet, Exit, Reap, CloseDone, AbandonFork, procVars
  <1>4. TableSound'
    BY <1>1 DEF TableSound
  <1>5. CallsSound'
    BY <1>1 DEF CallsSound, Succeeded, Holding, stopVars
  <1>6. HitsSound'
    BY <1>1 DEF HitsSound, stopVars
  <1>7. NoLiveConnLeaked'
    BY <1>1 DEF NoLiveConnLeaked
  <1>8. LostOnlyToStop'
    BY <1>1 DEF LostOnlyToStop, Succeeded, stopVars
  <1>9. MisdirectedOnlyAfterReap'
    BY <1>1 DEF MisdirectedOnlyAfterReap, HitsSound, stopVars
  <1>11. EntriesCurrent'
    BY <1>1 DEF EntriesCurrent
  <1> QED BY <1>2, <1>3, <1>4, <1>5, <1>6, <1>7, <1>8, <1>9, <1>10, <1>11

\* The steps of Stop that touch only the handler's own locals and the signals: the
\* processes, the table and the conns stay as they are.
ProcsUnchanged == UNCHANGED <<os, pid, procVars, procs>>

LEMMA StopKeepsProcs ==
    ASSUME Inv, ProcsUnchanged
    PROVE  /\ PidsUnique' /\ WaiterOrder' /\ KindSet' /\ TableSound' /\ EntriesCurrent'
           /\ NoLiveConnLeaked'
  BY DEF ProcsUnchanged, procVars, PidsUnique, Holds, WaiterOrder, KindSet,
         TableSound, EntriesCurrent, Tracked, NoLiveConnLeaked

\* A refused request changes nothing but its reply; a look-up takes what TableSound
\* says of the entry into the handler.
LEMMA RequestKeepsInv ==
    ASSUME Inv, TypeOK', NEW c \in Calls, NEW id \in Pids \cup {None}, NEW f \in BOOLEAN,
           StopRefuse(c, id) \/ StopLookup(c, id, f)
    PROVE  Inv'
  <1> USE NoneAssumption DEF TypeOK
  <1>1. ProcsUnchanged
    BY DEF ProcsUnchanged, StopRefuse, StopLookup, osVars
  <1>2. CallsSound'
    <2>1. CASE StopRefuse(c, id)
      BY <2>1 DEF StopRefuse, CallsSound, Succeeded, Holding, Tracked, Done, osVars, procVars
    <2>2. CASE StopLookup(c, id, f)
      BY <2>2 DEF StopLookup, CallsSound, Succeeded, Holding, Tracked, Done,
                  TableSound, osVars, procVars
    <2> QED BY <2>1, <2>2
  <1>3. HitsSound'
    BY DEF StopRefuse, StopLookup, HitsSound
  <1>4. LostOnlyToStop'
    BY DEF StopRefuse, StopLookup, LostOnlyToStop, Succeeded, osVars, procVars
  <1>5. MisdirectedOnlyAfterReap'
    BY DEF StopRefuse, StopLookup, MisdirectedOnlyAfterReap, HitsSound, osVars, procVars
  <1> QED BY <1>1, <1>2, <1>3, <1>4, <1>5, StopKeepsProcs

\* Leaving a select: with done closed, or because a forced Stop timed out.
LEMMA FinishKeepsInv ==
    ASSUME Inv, TypeOK', NEW c \in Calls, NEW cond \in BOOLEAN, FinishWhen(c, cond),
           pc[c] \in Holding, cond => Done(tp[c]) \/ force[c]
    PROVE  Inv'
  <1> USE NoneAssumption DEF TypeOK
  <1>1. ProcsUnchanged
    BY DEF ProcsUnchanged, FinishWhen, osVars
  <1>2. reply'[c] \in {"exitcode", "minusone"}
    BY ExitCodesType DEF FinishWhen
  <1>3. CallsSound'
    BY <1>2 DEF FinishWhen, CallsSound, Succeeded, Holding, Tracked, Done, osVars, procVars
  <1>4. HitsSound'
    BY DEF FinishWhen, HitsSound
  <1>5. LostOnlyToStop'
    BY DEF FinishWhen, LostOnlyToStop, Succeeded, Holding, osVars, procVars
  <1>6. MisdirectedOnlyAfterReap'
    BY DEF FinishWhen, MisdirectedOnlyAfterReap, osVars, procVars
  <1> QED BY <1>1, <1>3, <1>4, <1>5, <1>6, StopKeepsProcs

\* Going on to signal, or to the SIGKILL of a Stop that was not forced.
LEMMA GotoKeepsInv ==
    ASSUME Inv, TypeOK', NEW c \in Calls, NEW l \in {"signal", "kill"}, Goto(c, l),
           pc[c] \in Holding, l = "kill" => ~force[c]
    PROVE  Inv'
  <1> USE NoneAssumption DEF TypeOK
  <1>1. ProcsUnchanged
    BY DEF ProcsUnchanged, Goto, osVars
  <1>2. CallsSound'
    BY DEF Goto, CallsSound, Succeeded, Holding, Tracked, Done, osVars, procVars
  <1>3. HitsSound'
    BY DEF Goto, HitsSound
  <1>4. LostOnlyToStop'
    BY DEF Goto, LostOnlyToStop, Succeeded, Holding, osVars, procVars
  <1>5. MisdirectedOnlyAfterReap'
    BY DEF Goto, MisdirectedOnlyAfterReap, osVars, procVars
  <1> QED BY <1>1, <1>2, <1>3, <1>4, <1>5, StopKeepsProcs

\* A signal goes to whoever holds the pid.  If that is not the process Stop looked
\* up, that one holds its pid no more: it was reaped.
LEMMA SignalKeepsInv ==
    ASSUME Inv, TypeOK', NEW c \in Calls, StopSignal(c) \/ StopKill(c)
    PROVE  Inv'
  <1> USE NoneAssumption DEF TypeOK
  <1>1. ProcsUnchanged
    BY DEF ProcsUnchanged, StopSignal, StopKill
  <1>2. /\ pc[c] \in {"signal", "kill"} /\ tp[c] \in Procs /\ Tracked(tp[c])
        /\ hit' = [hit EXCEPT ![c] = @ \cup SignalTargets(tp[c])]
    BY DEF StopSignal, StopKill, CallsSound, Holding
  <1>3. ASSUME NEW q \in SignalTargets(tp[c]), q # tp[c]
        PROVE  kind[tp[c]] # "spawn" /\ os[tp[c]] = "reaped"
    BY <1>2, <1>3 DEF SignalTargets, PidsUnique, Holds, WaiterOrder, Tracked
  <1>4. kind[tp[c]] # "unset"
    BY <1>2 DEF Tracked, KindSet
  <1>5. CallsSound'
    BY <1>2 DEF StopSignal, StopKill, CallsSound, Succeeded, Holding, Tracked, Done, procVars
  <1>6. HitsSound'
    BY <1>2 DEF HitsSound, StopSignal, StopKill
  <1>7. LostOnlyToStop'
    BY <1>2 DEF StopSignal, StopKill, LostOnlyToStop, Succeeded, procVars
  <1>8. MisdirectedOnlyAfterReap'
    BY <1>1, <1>2, <1>3, <1>4
       DEF MisdirectedOnlyAfterReap, ProcsUnchanged, StopSignal, StopKill, procVars
  <1> QED BY <1>1, <1>5, <1>6, <1>7, <1>8, StopKeepsProcs

\* remove takes out whatever is under the pid.  If that is not the process Stop
\* looked up, LostOnlyToStop names this Stop; its conn is closed in any case.
LEMMA RemoveKeepsInv ==
    ASSUME Inv, TypeOK', NEW c \in Calls, StopRemove(c)
    PROVE  Inv'
  <1> USE NoneAssumption DEF TypeOK
  <1>1. /\ pc[c] = "remove" /\ tp[c] \in Procs /\ req[c] = pid[tp[c]]
        /\ Tracked(tp[c]) /\ req[c] \in Pids
        /\ reply[c] \in {"exitcode", "minusone"}
        /\ ~force[c] => Done(tp[c])
    BY DEF StopRemove, CallsSound, Holding, WaiterOrder, Tracked
  <1>2. PidsUnique'
    BY DEF StopRemove, PidsUnique, Holds, osVars
  <1>3. WaiterOrder'
    BY DEF StopRemove, WaiterOrder, osVars
  <1>10. KindSet'
    BY DEF StopRemove, KindSet
  <1>4. TableSound'
    BY <1>1 DEF StopRemove, TableSound, Tracked, osVars
  <1>5. CallsSound'
    BY <1>1 DEF StopRemove, CallsSound, Succeeded, Holding, Tracked, Done, osVars
  <1>6. HitsSound'
    BY DEF StopRemove, HitsSound
  <1>7. NoLiveConnLeaked'
    BY <1>1 DEF StopRemove, NoLiveConnLeaked, WaiterOrder, osVars
  <1>8. LostOnlyToStop'
    BY <1>1 DEF StopRemove, LostOnlyToStop, Succeeded, Done, WaiterOrder, osVars
  <1>9. MisdirectedOnlyAfterReap'
    BY DEF StopRemove, MisdirectedOnlyAfterReap, osVars
  <1>11. EntriesCurrent'
    BY <1>1 DEF StopRemove, EntriesCurrent, TableSound, osVars
  <1> QED BY <1>2, <1>3, <1>4, <1>5, <1>6, <1>7, <1>8, <1>9, <1>10, <1>11

-----------------------------------------------------------------------------
(* The theorems.                                                           *)

\* Every step of Next keeps the invariant.
LEMMA Inductive == Inv /\ TypeOK' /\ [Next]_vars => Inv'
  <1> SUFFICES ASSUME Inv, TypeOK', [Next]_vars
               PROVE  Inv'
    OBVIOUS
  <1>1. CASE UNCHANGED vars
    BY <1>1 DEF vars, TypeOK, PidsUnique, Holds, WaiterOrder, KindSet, TableSound, Tracked,
                EntriesCurrent, CallsSound, Succeeded, Holding, Done, HitsSound, NoLiveConnLeaked,
                LostOnlyToStop, MisdirectedOnlyAfterReap
  <1>2. ASSUME NEW p \in Procs, ProcStep(p) PROVE Inv'
    BY <1>2, StartKeepsInv, TrackKeepsInv, EndingKeepsInv DEF ProcStep, StartAny
  <1>3. ASSUME NEW c \in Calls, StopAny(c) PROVE Inv'
    BY <1>3, RequestKeepsInv DEF StopAny
  <1>4. ASSUME NEW c \in Calls, StopStep(c) PROVE Inv'
    <2>1. CASE StopCheck(c)
      BY <2>1, FinishKeepsInv, GotoKeepsInv DEF StopCheck, Holding, Done
    <2>2. CASE StopTimeout(c)
      BY <2>2, FinishKeepsInv, GotoKeepsInv DEF StopTimeout, Holding, TypeOK
    <2>3. CASE StopAwaitDone(c)
      BY <2>3, FinishKeepsInv DEF StopAwaitDone, Holding, Done
    <2> QED
      BY <1>4, <2>1, <2>2, <2>3, SignalKeepsInv, RemoveKeepsInv DEF StopStep
  <1> QED BY <1>1, <1>2, <1>3, <1>4 DEF Next

\* The invariant holds in every state of every behaviour.
LEMMA Invariance == Spec => []Inv
  <1>1. Init => Inv
    BY NoneAssumption
       DEF Init, TypeOK, PidsUnique, Holds, WaiterOrder, KindSet, TableSound, Tracked, CallsSound,
           EntriesCurrent, Succeeded, Holding, HitsSound, NoLiveConnLeaked, LostOnlyToStop,
           MisdirectedOnlyAfterReap
  <1> QED BY <1>1, TypeCorrect, Inductive, PTL DEF Spec

\* A Stop that was not forced reports success only once its process was reaped.
THEOREM GracefulStop == Spec => []GracefulStopMeansReaped
  <1>1. Inv => GracefulStopMeansReaped
    BY DEF CallsSound, GracefulStopMeansReaped, Done, WaiterOrder
  <1> QED BY <1>1, Invariance, PTL

\* The conn of a process that holds its pid is in the table or closed.
THEOREM LiveConnKept == Spec => []NoLiveConnLeaked
  BY Invariance, PTL

\* A tracked process that holds its pid leaves the table only by such a Stop.
THEOREM LiveEntryKept == Spec => []LostOnlyToStop
  BY Invariance, PTL

\* A signal goes astray only after the waiter reaped the forked process it was for.
THEOREM Misdirection == Spec => []MisdirectedOnlyAfterReap
  BY Invariance, PTL

\* A caller of ConnForPid gets its own child's open conn or nil, until the child is reaped.
THEOREM OwnConn == Spec => []ConnIsOwn
  <1>1. Inv => ConnIsOwn
    BY NoneAssumption DEF TypeOK, EntriesCurrent, ConnIsOwn, ConnForPid
  <1> QED BY <1>1, Invariance, PTL
=============================================================================
