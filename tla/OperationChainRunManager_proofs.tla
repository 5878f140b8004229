------------------- MODULE OperationChainRunManager_proofs -------------------
(***************************************************************************)
(* For any number of runs, simulated or real, and any number of updates on *)
(* their way: the numbers the manager gives order all copies of the state  *)
(* of a run, and what the interface shows never goes back.                 *)
(*                                                                         *)
(* The argument is about the set of copies.  An action makes no new copy   *)
(* (it moves, drops or shows copies there are), or makes one, with a       *)
(* number of its own, which follows the record of its run.                 *)
(***************************************************************************)
EXTENDS OperationChainRunManager, TLAPS

LEMMA Constants == /\ MaxRuns \in Nat /\ Simulated \in Nat
                   /\ Runs \subseteq Nat /\ 0 \notin Runs
                   /\ Threads = Runs \cup {0} /\ Interface \in Threads
                   /\ Interface \notin Runs
  BY ManagerAssumption DEF Runs, Threads, Interface

LEMMA NothingType == Nothing \in Snapshot
<1>1. Nothing.requested \in BOOLEAN /\ FALSE \in BOOLEAN
  BY Zenon DEF Nothing
<1> QED
  BY <1>1, Constants DEF Nothing, Snapshot, ChainStatus, Interface

LEMMA Elements ==
  ASSUME TypeOK
  PROVE  /\ Copies \subseteq Snapshot
         /\ \A r \in Runs : record[r] \in Copies /\ view[r] \in Copies
         /\ \A t \in Threads : held[t] \in Copies
         /\ \A i \in 1 .. Len(queue) : queue[i] \in Copies
  BY DEF TypeOK, Copies
-----------------------------------------------------------------------------
(***************************************************************************)
(* Types.                                                                  *)
(***************************************************************************)
\* The snapshots the manager makes are snapshots.
LEMMA NewSnapshots ==
  ASSUME TypeOK, NEW r \in Runs
  PROVE  /\ Initial(r, nextUpdateSequence) \in Snapshot
         /\ [record[r] EXCEPT !.requested = TRUE, !.seq = nextUpdateSequence] \in Snapshot
         /\ [record[r] EXCEPT !.revision = chain[r].revision, !.status = chain[r].status,
                              !.seq = nextUpdateSequence] \in Snapshot
<1>1. TRUE \in BOOLEAN /\ FALSE \in BOOLEAN
  BY Zenon
<1>2. /\ record[r] \in Snapshot /\ r \in Threads /\ nextUpdateSequence \in Nat
      /\ chain[r] \in [revision : Nat, status : ChainStatus]
  BY Constants DEF TypeOK
<1>3. Initial(r, nextUpdateSequence) \in Snapshot
  BY NothingType, <1>2 DEF Initial, Snapshot
<1> QED
  BY <1>1, <1>2, <1>3 DEF Snapshot

LEMMA InitType == Init => TypeOK
<1> SUFFICES ASSUME Init PROVE TypeOK
  OBVIOUS
<1>1. stopping \in BOOLEAN /\ handlerSet \in BOOLEAN
  BY Zenon DEF Init
<1> QED
  BY <1>1, NothingType, Constants, ManagerAssumption
  DEF Init, TypeOK, Pc, ChainStatus, Interface

LEMMA ShowType ==
  ASSUME TypeOK, NEW s \in Snapshot, Show(s)
  PROVE  view' \in [Runs -> Snapshot]
  BY DEF TypeOK, Show

LEMMA NotifyType ==
  ASSUME TypeOK, NEW t \in Threads, notifyRunChanged(t)
  PROVE  queue' \in Seq(Snapshot) /\ held' \in [Threads -> Snapshot]
  BY NothingType DEF TypeOK, notifyRunChanged

LEMMA AssignType ==
  ASSUME TypeOK, NEW t \in Threads, NEW r \in Runs, NEW s \in Snapshot, Assign(t, r, s)
  PROVE  /\ record' \in [Runs -> Snapshot] /\ held' \in [Threads -> Snapshot]
         /\ nextUpdateSequence' \in Nat \ {0}
  BY DEF TypeOK, Assign

LEMMA TypeStep == IInv /\ [Next]_vars => TypeOK'
<1> SUFFICES ASSUME IInv, [Next]_vars PROVE TypeOK'
  OBVIOUS
<1> USE Constants, ManagerAssumption DEF IInv, TypeOK, Pc, ChainStatus, Terminal, Goto,
      cancelVars, managerVars, modelVars, interfaceVars
<1>1. ASSUME NEW r \in Runs, EnterRun(r) \/ SkipRun(r) \/ DropUpdate(r) \/ AbandonRun(r) \/ CancelRunReturns(r)
      PROVE  TypeOK'
  BY <1>1 DEF EnterRun, SkipRun, DropUpdate, AbandonRun, CancelRunReturns
<1>2. ASSUME NEW r \in Runs, UpdateRun(r) PROVE TypeOK'
  <2>1. record' \in [Runs -> Snapshot] /\ held' \in [Threads -> Snapshot]
          /\ nextUpdateSequence' \in Nat \ {0}
    BY <1>2, NewSnapshots, AssignType DEF UpdateRun
  <2> QED
    BY <1>2, <2>1 DEF UpdateRun
<1>3. ASSUME NEW r \in Runs, Notify(r) PROVE TypeOK'
  BY <1>3, NotifyType DEF Notify
<1>4. ASSUME NEW r \in Runs, ChainChanges(r) \/ ChainCancelled(r) PROVE TypeOK'
  <2>1. PICK status \in ChainStatus :
          chain' = [chain EXCEPT ![r] = [revision |-> @.revision + 1, status |-> status]]
    BY <1>4 DEF ChainChanges, ChainCancelled, NextStatus
  <2>2. [revision |-> chain[r].revision + 1, status |-> status] \in [revision : Nat, status : ChainStatus]
    OBVIOUS
  <2>3. chain' \in [Runs -> [revision : Nat, status : ChainStatus]]
    BY <2>1, <2>2
  <2> QED
    BY <1>4, <2>3 DEF ChainChanges, ChainCancelled
<1>5. ASSUME NEW r \in Runs, RequestRunCancellation(r) PROVE TypeOK'
  <2>1. record' \in [Runs -> Snapshot] /\ held' \in [Threads -> Snapshot]
          /\ nextUpdateSequence' \in Nat \ {0}
    BY <1>5, NewSnapshots, AssignType DEF RequestRunCancellation
  <2> QED
    BY <1>5, <2>1 DEF RequestRunCancellation
<1>6. ASSUME NEW r \in Runs, CancellationRefused(r) PROVE TypeOK'
  BY <1>6 DEF CancellationRefused
<1>7. CASE StartRun
  <2>1. nextRunId \in Runs
    BY <1>7 DEF StartRun, Runs
  <2>2. record' \in [Runs -> Snapshot] /\ held' \in [Threads -> Snapshot]
          /\ nextUpdateSequence' \in Nat \ {0}
    BY <1>7, <2>1, NewSnapshots, AssignType DEF StartRun
  <2>3. nextRunId' \in 1 .. MaxRuns + 1
    BY <1>7 DEF StartRun
  <2> QED
    BY <1>7, <2>1, <2>2, <2>3 DEF StartRun
<1>8. CASE StartRunFails
  BY <1>8 DEF StartRunFails
<1>9. CASE NotifyOfAction
  BY <1>9, NotifyType DEF NotifyOfAction
<1>10. CASE FinishAction
  BY <1>10 DEF FinishAction, InterfaceFollowsCalls
<1>11. CASE Refresh
  BY <1>11, ShowType DEF Refresh, InterfaceFollowsCalls
<1>12. CASE ProcessUpdate
  <2>1. Head(queue) \in Snapshot /\ Tail(queue) \in Seq(Snapshot)
    BY <1>12 DEF ProcessUpdate
  <2> QED
    BY <1>12, <2>1, ShowType DEF ProcessUpdate
<1>13. CASE RequestStop
  <2>1. stopping' \in BOOLEAN /\ handlerSet' \in BOOLEAN
    BY Zenon, <1>13 DEF RequestStop
  <2> QED
    BY <1>13, <2>1 DEF RequestStop
<1>14. CASE EnterEventLoop \/ StopAndWait
  BY <1>14 DEF EnterEventLoop, StopAndWait
<1>15. CASE UNCHANGED vars
  BY <1>15 DEF vars
<1> QED
  BY <1>1, <1>2, <1>3, <1>4, <1>5, <1>6, <1>7, <1>8, <1>9, <1>10, <1>11, <1>12, <1>13, <1>14,
     <1>15 DEF Next, RunThread, InterfaceContinues
-----------------------------------------------------------------------------
(***************************************************************************)
(* Copies.                                                                 *)
(***************************************************************************)
CopiesOK == CopiesFollowRecords /\ SequenceOrdersUpdates /\ CancelledWasRequested

\* What is left of the copies is still in order.
LEMMA NoNewCopy ==
  ASSUME IInv, TypeOK', record' = record, nextUpdateSequence' >= nextUpdateSequence,
         \A r \in Runs : view'[r] \in Copies \cup {Nothing},
         \A t \in Threads : held'[t] \in Copies \cup {Nothing},
         \A i \in 1 .. Len(queue') : queue'[i] \in Copies \cup {Nothing}
  PROVE  CopiesOK'
<1>1. TypeOK /\ CopiesOK /\ Copies \subseteq Snapshot
  BY Elements DEF IInv, CopiesOK
<1>2. Copies' \subseteq Copies \cup {Nothing}
  <2> SUFFICES ASSUME NEW a \in Copies' PROVE a \in Copies \cup {Nothing}
    OBVIOUS
  <2>1. CASE \E r \in Runs : a = record'[r]
    BY <1>1, <2>1, Elements
  <2> QED
    BY <2>1 DEF Copies
<1>3. \A a \in Copies : a.seq \in Nat
  BY <1>1 DEF Snapshot
<1>4. nextUpdateSequence \in Nat /\ nextUpdateSequence' \in Nat
  BY <1>1 DEF TypeOK
<1>5. Nothing.status # "CANCELLED"
  BY DEF Nothing
<1>6. CopiesFollowRecords'
  BY <1>1, <1>2, <1>3, <1>4 DEF CopiesOK, CopiesFollowRecords, Precedes
<1>7. SequenceOrdersUpdates'
  BY <1>1, <1>2 DEF CopiesOK, SequenceOrdersUpdates, Precedes
<1>8. CancelledWasRequested'
  BY <1>1, <1>2, <1>5 DEF CopiesOK, CancelledWasRequested
<1> QED
  BY <1>6, <1>7, <1>8 DEF CopiesOK

LEMMA PrecedesTransitive ==
  ASSUME NEW a \in Snapshot, NEW b \in Snapshot, NEW c \in Snapshot,
         Precedes(a, b), Precedes(b, c)
  PROVE  Precedes(a, c)
  BY DEF Precedes, Snapshot

\* A new copy with a number of its own that follows the record is the last.
LEMMA OneNewCopy ==
  ASSUME IInv, TypeOK', NEW t \in Threads, NEW r \in Runs, NEW s \in Snapshot, Assign(t, r, s),
         s.run = r, s.seq = nextUpdateSequence, Precedes(record[r], s),
         s.status = "CANCELLED" => s.requested,
         UNCHANGED <<queue, view>>
  PROVE  CopiesOK'
<1>1. TypeOK /\ CopiesOK /\ Copies \subseteq Snapshot
  BY Elements DEF IInv, CopiesOK
<1>2. Copies' \subseteq Copies \cup {s}
  <2> SUFFICES ASSUME NEW a \in Copies' PROVE a \in Copies \cup {s}
    OBVIOUS
  <2>1. CASE \E q \in Runs : a = record'[q]
    BY <1>1, <2>1, Elements DEF Assign, TypeOK
  <2>2. CASE \E q \in Threads : a = held'[q]
    BY <1>1, <2>2, Elements DEF Assign, TypeOK
  <2> QED
    BY <2>1, <2>2, Elements, <1>1 DEF Copies
<1>3. /\ nextUpdateSequence \in Nat \ {0} /\ nextUpdateSequence' = nextUpdateSequence + 1
      /\ \A a \in Copies : a.seq \in Nat
      /\ \A q \in Runs : record[q] \in Snapshot
      /\ record' = [record EXCEPT ![r] = s] /\ DOMAIN record = Runs
  BY <1>1 DEF TypeOK, Assign, Snapshot
<1>4. /\ record'[r] = s /\ \A q \in Runs \ {r} : record'[q] = record[q]
      /\ s # Nothing
  BY <1>3 DEF Nothing
<1>5. Precedes(s, s)
  BY DEF Precedes, Snapshot
<1>6. \A a \in Copies \ {Nothing} : a.run = r => a.seq < s.seq /\ Precedes(a, s)
  BY <1>1, <1>3, PrecedesTransitive DEF CopiesOK, CopiesFollowRecords
<1>7. \A a \in Copies \ {Nothing} : a.seq < s.seq
  BY <1>1, <1>3 DEF CopiesOK, CopiesFollowRecords
<1>8. CopiesFollowRecords'
  <2> SUFFICES ASSUME NEW a \in Copies', a # Nothing
               PROVE  /\ a.run \in Runs /\ record'[a.run] # Nothing
                      /\ 0 < a.seq /\ a.seq < nextUpdateSequence'
                      /\ a.seq <= record'[a.run].seq
                      /\ Precedes(a, record'[a.run])
    BY DEF CopiesFollowRecords, Precedes, Nothing
  <2>1. CASE a = s
    BY <2>1, <1>3, <1>4, <1>5
  <2>2. CASE a \in Copies /\ a.run = r
    BY <2>2, <1>1, <1>3, <1>4, <1>6 DEF CopiesOK, CopiesFollowRecords
  <2>3. CASE a \in Copies /\ a.run # r
    BY <2>3, <1>1, <1>3, <1>4 DEF CopiesOK, CopiesFollowRecords
  <2> QED
    BY <1>2, <2>1, <2>2, <2>3
<1>9. SequenceOrdersUpdates'
  BY <1>1, <1>2, <1>3, <1>6, <1>7 DEF CopiesOK, SequenceOrdersUpdates, Precedes, Nothing
<1>10. CancelledWasRequested'
  BY <1>1, <1>2 DEF CopiesOK, CancelledWasRequested
<1> QED
  BY <1>8, <1>9, <1>10 DEF CopiesOK

\* No step of any thread disturbs the order of the copies.
LEMMA CopiesStep == IInv /\ [Next]_vars => CopiesOK'
<1> SUFFICES ASSUME IInv, [Next]_vars PROVE CopiesOK'
  OBVIOUS
<1>0. /\ TypeOK /\ TypeOK' /\ RecordsFollowChains /\ CopiesFollowRecords
      /\ InterfaceFollowsCalls
  BY TypeStep DEF IInv
<1>a. /\ nextUpdateSequence \in Nat /\ record \in [Runs -> Snapshot]
      /\ queue \in Seq(Snapshot)
  BY <1>0 DEF TypeOK
<1> USE DEF cancelVars, managerVars, modelVars, interfaceVars
<1>1. ASSUME UNCHANGED <<managerVars, held, modelVars>> PROVE CopiesOK'
  BY <1>0, <1>1, <1>a, Elements, NoNewCopy
<1>2. ASSUME NEW r \in Runs, UpdateRun(r) PROVE CopiesOK'
  <2> DEFINE s == [record[r] EXCEPT !.revision = chain[r].revision, !.status = chain[r].status,
                                    !.seq = nextUpdateSequence]
  <2>1. s \in Snapshot
    BY <1>0, NewSnapshots
  <2>2. /\ record[r] \in Snapshot /\ chain[r].revision \in Nat
        /\ chain[r].revision > record[r].revision
    BY <1>0, <1>2 DEF UpdateRun, TypeOK
  <2>3. record[r].revision \in Nat /\ record[r].revision # chain[r].revision
    BY <2>2 DEF Snapshot
  <2>4. record[r] # Nothing
    BY <1>0, <1>2 DEF UpdateRun, Goto, RecordsFollowChains, RecordFollowsChain
  <2>5. record[r].run = r /\ record[r].status \notin Terminal
    BY <1>0, <2>3, <2>4 DEF RecordsFollowChains, RecordFollowsChain
  <2>6. s.run = r /\ s.seq = nextUpdateSequence /\ Precedes(record[r], s)
    BY <2>2, <2>3, <2>5 DEF Precedes, Snapshot
  <2>7. s.status = "CANCELLED" => s.requested
    BY <1>0, <2>2 DEF RecordsFollowChains, RecordFollowsChain, Snapshot
  <2>8. Assign(r, r, s) /\ UNCHANGED <<queue, view>> /\ r \in Threads
    BY <1>2, Constants DEF UpdateRun
  <2> HIDE DEF s
  <2> QED
    BY <1>0, <2>1, <2>6, <2>7, <2>8, OneNewCopy
<1>3. ASSUME NEW t \in Threads, notifyRunChanged(t), UNCHANGED <<managerVars, view>>
      PROVE  CopiesOK'
  <2>1. \A q \in Threads : held'[q] \in Copies \cup {Nothing}
    BY <1>0, <1>3, Elements DEF notifyRunChanged, TypeOK
  <2>2. \A i \in 1 .. Len(queue') : queue'[i] \in Copies
    BY <1>0, <1>a, <1>3, Elements DEF notifyRunChanged, TypeOK
  <2> QED
    BY <1>0, <1>3, <1>a, <2>1, <2>2, Elements, NoNewCopy
<1>4. ASSUME NEW r \in Runs, RequestRunCancellation(r) PROVE CopiesOK'
  <2> DEFINE s == [record[r] EXCEPT !.requested = TRUE, !.seq = nextUpdateSequence]
  <2>1. s \in Snapshot
    BY <1>0, NewSnapshots
  <2>2. record[r] # Nothing
    <3>1. view[r] # Nothing /\ view[r].run = r /\ view[r] \in Copies
      BY <1>0, <1>4, Elements DEF RequestRunCancellation, RecordsFollowChains, RecordFollowsChain
    <3> QED
      BY <1>0, <3>1 DEF CopiesFollowRecords
  <2>3. record[r] \in Snapshot /\ record[r].run = r
    BY <1>0, <1>a, <2>2 DEF RecordsFollowChains, RecordFollowsChain
  <2>4. s.run = r /\ s.seq = nextUpdateSequence /\ Precedes(record[r], s) /\ s.requested
    BY <2>3 DEF Precedes, Snapshot
  <2>5. Assign(Interface, r, s) /\ UNCHANGED <<queue, view>> /\ Interface \in Threads
    BY <1>4, Constants DEF RequestRunCancellation
  <2> HIDE DEF s
  <2> QED
    BY <1>0, <2>1, <2>4, <2>5, OneNewCopy
<1>5. CASE StartRun
  <2> DEFINE r == nextRunId
             s == Initial(r, nextUpdateSequence)
  <2>1. r \in Runs
    BY <1>0, <1>5 DEF StartRun, Runs, TypeOK
  <2>2. s \in Snapshot
    BY <1>0, <2>1, NewSnapshots
  <2>3. r >= nextRunId
    BY <1>0 DEF TypeOK
  <2>4. record[r] = Nothing
    BY <1>0, <2>1, <2>3 DEF RecordsFollowChains, RecordFollowsChain
  <2>5. s.run = r /\ s.seq = nextUpdateSequence /\ Precedes(record[r], s) /\ s.status = "PENDING"
    BY <2>4 DEF Precedes, Initial, Nothing, Terminal
  <2>6. Assign(Interface, r, s) /\ UNCHANGED <<queue, view>> /\ Interface \in Threads
    BY <1>5, Constants DEF StartRun
  <2> HIDE DEF s, r
  <2> QED
    BY <1>0, <2>1, <2>2, <2>5, <2>6, OneNewCopy
<1>6. CASE StartRunFails
  BY <1>0, <1>6, <1>a, Elements, NoNewCopy DEF StartRunFails
<1>7. CASE Refresh
  <2>1. record[current] \in Copies
    BY <1>0, <1>7, Elements DEF Refresh, Goto, InterfaceFollowsCalls
  <2>2. \A q \in Runs : view'[q] \in Copies
    BY <1>0, <1>7, <2>1, Elements DEF Refresh, Show, TypeOK
  <2> QED
    BY <1>0, <1>7, <1>a, <2>2, Elements, NoNewCopy DEF Refresh
<1>8. CASE ProcessUpdate
  <2>1. /\ Head(queue) \in Copies
        /\ \A i \in 1 .. Len(Tail(queue)) : Tail(queue)[i] \in Copies
    BY <1>0, <1>8, <1>a, Elements DEF ProcessUpdate
  <2>2. \A q \in Runs : view'[q] \in Copies
    BY <1>0, <1>8, <2>1, Elements DEF ProcessUpdate, Show, TypeOK
  <2> QED
    BY <1>0, <1>8, <1>a, <2>1, <2>2, Elements, NoNewCopy DEF ProcessUpdate
<1>9. CASE RequestStop
  <2>1. \A i \in 1 .. Len(queue') : queue'[i] \in Copies
    BY <1>9 DEF RequestStop
  <2> QED
    BY <1>0, <1>9, <1>a, <2>1, Elements, NoNewCopy DEF RequestStop
<1>10. ASSUME NEW r \in Runs, Notify(r) PROVE CopiesOK'
  BY <1>3, <1>10, Constants DEF Notify
<1>11. CASE NotifyOfAction
  BY <1>3, <1>11, Constants DEF NotifyOfAction
<1>12. ASSUME NEW r \in Runs,
              \/ EnterRun(r) \/ SkipRun(r) \/ DropUpdate(r) \/ AbandonRun(r) \/ CancelRunReturns(r)
              \/ ChainChanges(r) \/ ChainCancelled(r) \/ CancellationRefused(r)
       PROVE  CopiesOK'
  BY <1>1, <1>12 DEF EnterRun, SkipRun, DropUpdate, AbandonRun, CancelRunReturns, ChainChanges, ChainCancelled,
     CancellationRefused
<1>13. CASE FinishAction \/ EnterEventLoop \/ StopAndWait \/ UNCHANGED vars
  BY <1>1, <1>13 DEF FinishAction, EnterEventLoop, StopAndWait, vars
<1> QED
  BY <1>2, <1>4, <1>5, <1>6, <1>7, <1>8, <1>9, <1>10, <1>11, <1>12, <1>13
  DEF Next, RunThread, InterfaceContinues
-----------------------------------------------------------------------------
(***************************************************************************)
(* Records and chains.                                                     *)
(***************************************************************************)
\* The state of a run that no action is about.
Others(r) == /\ record'[r] = record[r] /\ view'[r] = view[r] /\ held'[r] = held[r]
             /\ pc'[r] = pc[r] /\ chain'[r] = chain[r]
             /\ (r \in signalled') = (r \in signalled)
             /\ (r \in openGates') = (r \in openGates)
             /\ (r >= nextRunId') => (r >= nextRunId)

LEMMA RecordsStep == IInv /\ [Next]_vars => RecordsFollowChains'
<1> SUFFICES ASSUME IInv, [Next]_vars, NEW q \in Runs
             PROVE  RecordFollowsChain(q)'
  BY DEF RecordsFollowChains
<1>0. /\ TypeOK /\ TypeOK' /\ RecordFollowsChain(q)
      /\ CopiesFollowRecords /\ InterfaceFollowsCalls
  BY TypeStep DEF IInv, RecordsFollowChains
<1>a. /\ q \in Threads /\ q # Interface /\ q \in Nat
      /\ record[q] \in Snapshot /\ view[q] \in Snapshot /\ held[q] \in Snapshot
      /\ chain[q] \in [revision : Nat, status : ChainStatus]
      /\ record \in [Runs -> Snapshot] /\ view \in [Runs -> Snapshot]
      /\ held \in [Threads -> Snapshot] /\ pc \in [Threads -> Pc] 
      /\ chain \in [Runs -> [revision : Nat, status : ChainStatus]]
      /\ nextUpdateSequence \in Nat \ {0} /\ nextRunId \in Nat
      /\ queue \in Seq(Snapshot)
  BY <1>0, Constants, ManagerAssumption DEF TypeOK
<1> USE DEF cancelVars, managerVars, modelVars, interfaceVars, Goto
<1>1. ASSUME Others(q) PROVE RecordFollowsChain(q)'
  BY <1>0, <1>1 DEF Others, RecordFollowsChain, Nothing
<1>2. ASSUME NEW r \in Runs, EnterRun(r) \/ SkipRun(r) \/ DropUpdate(r) \/ AbandonRun(r) \/ CancelRunReturns(r)
      PROVE  RecordFollowsChain(q)'
  BY <1>0, <1>a, <1>2 DEF EnterRun, SkipRun, DropUpdate, AbandonRun, CancelRunReturns, RecordFollowsChain, Nothing
<1>3. ASSUME NEW r \in Runs, UpdateRun(r) PROVE RecordFollowsChain(q)'
  <2>1. CASE r # q
    BY <1>1, <1>3, <1>a, <2>1 DEF UpdateRun, Assign, Others
  <2>2. CASE r = q
    <3> DEFINE s == [record[q] EXCEPT !.revision = chain[q].revision,
                                      !.status = chain[q].status,
                                      !.seq = nextUpdateSequence]
    <3>1. /\ s.run = record[q].run /\ s.requested = record[q].requested
          /\ s.revision = chain[q].revision /\ s.status = chain[q].status
          /\ s.seq # 0 /\ Nothing.seq = 0
      BY <1>a DEF Snapshot, Nothing
    <3>2. /\ record'[q] = s /\ held'[q] = s /\ pc'[q] = "notify"
          /\ UNCHANGED <<view, chain, signalled, nextRunId, openGates>> /\ pc[q] = "update"
      BY <1>3, <1>a, <2>2 DEF UpdateRun, Assign
    <3> HIDE DEF s
    <3> QED
      BY <1>0, <1>a, <3>1, <3>2 DEF RecordFollowsChain
  <2> QED
    BY <2>1, <2>2
<1>4. ASSUME NEW t \in Threads, notifyRunChanged(t),
             UNCHANGED <<chain, signalled, managerVars, view, interfaceVars>>,
             pc'[q] = pc[q] \/ (pc[q] = "notify" /\ pc'[q] # "none")
      PROVE  RecordFollowsChain(q)'
  BY <1>0, <1>a, <1>4 DEF notifyRunChanged, RecordFollowsChain, Nothing
<1>5. ASSUME NEW r \in Runs, Notify(r) PROVE RecordFollowsChain(q)'
  <2>1. pc'[q] = pc[q] \/ (pc[q] = "notify" /\ pc'[q] # "none")
    BY <1>5, <1>a DEF Notify
  <2>2. notifyRunChanged(r) /\ r \in Threads
    BY <1>5, Constants DEF Notify
  <2> QED
    BY <1>4, <1>5, <2>1, <2>2 DEF Notify
<1>6. ASSUME NEW r \in Runs, ChainChanges(r) \/ ChainCancelled(r)
      PROVE  RecordFollowsChain(q)'
  <2>1. CASE r # q
    BY <1>1, <1>6, <1>a, <2>1 DEF ChainChanges, ChainCancelled, Others
  <2>2. CASE r = q
    <3>1. /\ chain'[q].revision = chain[q].revision + 1 /\ chain[q].status \notin Terminal
          /\ chain'[q].status = "CANCELLED" => q \in signalled
          /\ pc[q] = "executing" /\ pc'[q] = "update"
          /\ UNCHANGED <<record, view, held, signalled, nextRunId, openGates>>
      BY <1>a, <1>6, <2>2 DEF ChainChanges, ChainCancelled, NextStatus, Terminal
    <3>2. chain[q].revision \in Nat /\ record[q].revision \in Nat
      BY <1>a DEF Snapshot
    <3> QED
      BY <1>0, <3>1, <3>2 DEF RecordFollowsChain, Nothing
  <2> QED
    BY <2>1, <2>2
<1>7. ASSUME NEW r \in Runs, RequestRunCancellation(r) PROVE RecordFollowsChain(q)'
  <2>1. CASE r # q
    BY <1>1, <1>7, <1>a, <2>1, Constants DEF RequestRunCancellation, Assign, Others
  <2>2. CASE r = q
    <3> DEFINE s == [record[q] EXCEPT !.requested = TRUE, !.seq = nextUpdateSequence]
    <3>1. /\ s.run = record[q].run /\ s.requested
          /\ s.revision = record[q].revision /\ s.status = record[q].status
          /\ s.seq # 0 /\ Nothing.seq = 0
      BY <1>a DEF Snapshot, Nothing
    <3>2. /\ record'[q] = s /\ held'[q] = held[q] /\ pc'[q] = pc[q] /\ q \in signalled'
          /\ UNCHANGED <<view, chain, nextRunId, openGates>> /\ view[q] # Nothing
      BY <1>7, <1>a, <2>2, Constants DEF RequestRunCancellation, Assign
    <3>3. record[q] # Nothing
      <4>1. view[q].run = q /\ view[q] \in Copies
        BY <1>0, <3>2, Elements DEF RecordFollowsChain
      <4> QED
        BY <1>0, <3>2, <4>1 DEF CopiesFollowRecords
    <3> HIDE DEF s
    <3> QED
      BY <1>0, <1>a, <3>1, <3>2, <3>3 DEF RecordFollowsChain
  <2> QED
    BY <2>1, <2>2
<1>8. CASE StartRun
  <2>1. CASE nextRunId # q
    BY <1>1, <1>8, <1>a, <2>1, Constants DEF StartRun, Assign, Others
  <2>2. CASE nextRunId = q
    <3> DEFINE s == Initial(q, nextUpdateSequence)
    <3>1. /\ s.run = q /\ ~s.requested /\ s.revision = 0 /\ s.status = "PENDING"
          /\ s.seq # 0 /\ Nothing.seq = 0 /\ ~Nothing.requested
          /\ Nothing.revision = 0 /\ Nothing.status = "PENDING"
      BY <1>a DEF Initial, Nothing
    <3>2. /\ record'[q] = s /\ held'[q] = held[q] /\ pc'[q] = "gate" /\ nextRunId' = q + 1
          /\ UNCHANGED <<view, chain, signalled, openGates>>
      BY <1>8, <1>a, <2>2, Constants DEF StartRun, Assign
    <3>3. record[q] = Nothing
      BY <1>0, <1>a, <2>2 DEF RecordFollowsChain
    <3> HIDE DEF s
    <3> QED
      BY <1>0, <1>a, <3>1, <3>2, <3>3 DEF RecordFollowsChain, Terminal
  <2> QED
    BY <2>1, <2>2
<1>9. CASE StartRunFails
  BY <1>1, <1>9, <1>a DEF StartRunFails, Others
<1>10. CASE NotifyOfAction
  <2>1. pc'[q] = pc[q]
    BY <1>10, <1>a DEF NotifyOfAction
  <2> QED
    BY <1>4, <1>10, <2>1, Constants DEF NotifyOfAction
<1>11. CASE FinishAction
  <2>1. pc[Interface] = "notified"
    BY <1>11 DEF FinishAction
  <2>2. current \in Runs /\ pc[current] # "none"
    BY <1>0, <2>1 DEF InterfaceFollowsCalls
  <2> QED
    BY <1>0, <1>11, <1>a, <2>2, Constants DEF FinishAction, RecordFollowsChain, Nothing
<1>12. ASSUME NEW s \in Copies, Show(s),
             UNCHANGED <<chain, signalled, managerVars, held, interfaceVars>>, pc'[q] = pc[q]
       PROVE  RecordFollowsChain(q)'
  <2>1. view'[q] = view[q] \/ (view'[q] = s /\ s.run = q)
    BY <1>12, <1>a DEF Show
  <2> QED
    BY <1>0, <1>12, <2>1 DEF RecordFollowsChain, Nothing
<1>13. CASE Refresh
  <2>1. record[current] \in Copies
    BY <1>0, <1>13, Elements DEF Refresh, InterfaceFollowsCalls
  <2> QED
    BY <1>12, <1>13, <1>a, <2>1, Constants DEF Refresh
<1>14. CASE ProcessUpdate
  <2>1. Head(queue) \in Copies
    BY <1>0, <1>14, <1>a, Elements DEF ProcessUpdate
  <2> QED
    BY <1>12, <1>14, <2>1 DEF ProcessUpdate
<1>15. CASE RequestStop
  BY <1>1, <1>15, <1>a, Constants DEF RequestStop, Others
<1>16. ASSUME NEW r \in Runs, CancellationRefused(r) PROVE RecordFollowsChain(q)'
  BY <1>1, <1>16, <1>a, Constants DEF CancellationRefused, Others
<1>17. CASE EnterEventLoop \/ StopAndWait \/ UNCHANGED vars
  BY <1>1, <1>17, <1>a, Constants DEF EnterEventLoop, StopAndWait, vars, Others
<1> QED
  BY <1>2, <1>3, <1>5, <1>6, <1>7, <1>8, <1>9, <1>10, <1>11, <1>13, <1>14, <1>15, <1>16, <1>17
  DEF Next, RunThread, InterfaceContinues
-----------------------------------------------------------------------------
(***************************************************************************)
(* The calls of the interface.                                             *)
(***************************************************************************)
\* A run that is not registered has no copies, and its gate is shut.
LEMMA UnknownRun ==
  ASSUME IInv, NEW r \in Runs, record[r] = Nothing
  PROVE  /\ view[r] = Nothing /\ held[r] = Nothing /\ r \notin openGates
         /\ \A i \in 1 .. Len(queue) : queue[i].run # r
<1>1. TypeOK /\ RecordFollowsChain(r) /\ CopiesFollowRecords /\ r # 0 /\ r \in Threads
  BY Constants DEF IInv, RecordsFollowChains
<1>2. \A a \in Copies : a.run # r
  BY <1>1 DEF CopiesFollowRecords, Nothing
<1> QED
  BY <1>1, <1>2, Elements DEF RecordFollowsChain

LEMMA InterfaceStep == IInv /\ [Next]_vars => InterfaceFollowsCalls'
<1> SUFFICES ASSUME IInv, [Next]_vars PROVE InterfaceFollowsCalls'
  OBVIOUS
<1>0. /\ TypeOK /\ TypeOK' /\ RecordsFollowChains /\ InterfaceFollowsCalls
  BY TypeStep DEF IInv
<1>a. /\ record \in [Runs -> Snapshot] /\ view \in [Runs -> Snapshot]
      /\ held \in [Threads -> Snapshot] /\ pc \in [Threads -> Pc]
      /\ Interface \in Threads /\ Interface \notin Runs /\ Runs \subseteq Threads
      /\ queue \in Seq(Snapshot)
  BY <1>0, Constants DEF TypeOK
<1> USE DEF cancelVars, managerVars, modelVars, interfaceVars, Goto
\* The thread of a run is not the one being announced.
<1>1. ASSUME NEW r \in Runs,
             \/ EnterRun(r) \/ SkipRun(r) \/ DropUpdate(r) \/ AbandonRun(r) \/ CancelRunReturns(r)
             \/ ChainChanges(r) \/ ChainCancelled(r)
      PROVE  InterfaceFollowsCalls'
  BY <1>0, <1>1, <1>a DEF EnterRun, SkipRun, DropUpdate, AbandonRun, CancelRunReturns, ChainChanges, ChainCancelled,
     InterfaceFollowsCalls, StartIsAnnouncedFirst, Nothing
<1>2. ASSUME NEW r \in Runs, UpdateRun(r) PROVE InterfaceFollowsCalls'
  BY <1>0, <1>2, <1>a DEF UpdateRun, Assign, InterfaceFollowsCalls, StartIsAnnouncedFirst, Nothing
<1>3. ASSUME NEW r \in Runs, Notify(r) PROVE InterfaceFollowsCalls'
  <2>1. held[r].run # current \/ current = r \/ current \notin Runs
    BY <1>0, <1>3, Constants DEF RecordsFollowChains, RecordFollowsChain, Nothing
  <2>2. \A i \in 1 .. Len(queue') : \/ queue'[i] = held[r]
                                    \/ i \in 1 .. Len(queue) /\ queue'[i] = queue[i]
    BY <1>3, <1>a DEF Notify, notifyRunChanged
  <2>3. /\ held'[Interface] = held[Interface] /\ pc'[Interface] = pc[Interface]
        /\ pc[r] = "notify" /\ pc'[r] # "none"
        /\ \A q \in Runs \ {r} : held'[q] = held[q] /\ pc'[q] = pc[q]
        /\ UNCHANGED <<stopping, current, view, openGates>>
    BY <1>3, <1>a DEF Notify, notifyRunChanged
  <2> QED
    BY <1>0, <1>a, <2>1, <2>2, <2>3 DEF InterfaceFollowsCalls, StartIsAnnouncedFirst, Nothing
<1>4. ASSUME NEW r \in Runs, RequestRunCancellation(r) PROVE InterfaceFollowsCalls'
  <2>1. record[r] # Nothing
    BY <1>4, UnknownRun DEF RequestRunCancellation
  <2>2. record[r].run = r /\ pc[r] # "none"
    BY <1>0, <2>1 DEF RecordsFollowChains, RecordFollowsChain
  <2>3. held'[Interface].run = r /\ held'[Interface].requested
    BY <1>4, <1>a, <2>2 DEF RequestRunCancellation, Assign, Snapshot
  <2>4. /\ pc'[r] = pc[r] /\ pc'[Interface] = "notify" /\ pc[Interface] = "idle"
        /\ current' = r /\ stopping' = stopping
    BY <1>4, <1>a DEF RequestRunCancellation
  <2> QED
    BY <1>0, <2>2, <2>3, <2>4 DEF InterfaceFollowsCalls, StartIsAnnouncedFirst
<1>5. ASSUME NEW r \in Runs, CancellationRefused(r) PROVE InterfaceFollowsCalls'
  <2>1. record[r] # Nothing
    BY <1>5, UnknownRun DEF CancellationRefused
  <2>2. pc[r] # "none"
    BY <1>0, <2>1 DEF RecordsFollowChains, RecordFollowsChain
  <2>3. /\ pc'[r] = pc[r] /\ pc'[Interface] = "refresh" /\ pc[Interface] = "idle"
        /\ current' = r /\ stopping' = stopping
    BY <1>5, <1>a DEF CancellationRefused
  <2> QED
    BY <1>0, <2>2, <2>3 DEF InterfaceFollowsCalls, StartIsAnnouncedFirst
<1>6. CASE StartRun
  <2> DEFINE r == nextRunId
  <2>1. r \in Runs /\ r >= nextRunId
    BY <1>0, <1>6 DEF StartRun, Runs, TypeOK
  <2>2. record[r] = Nothing
    BY <1>0, <2>1 DEF RecordsFollowChains, RecordFollowsChain
  <2>3. /\ view[r] = Nothing /\ held[r] = Nothing /\ r \notin openGates
        /\ \A i \in 1 .. Len(queue) : queue[i].run # r
    BY <2>1, <2>2, UnknownRun
  <2>4. /\ held'[Interface].run = r /\ held'[r] = held[r]
        /\ pc'[Interface] = "notify" /\ pc'[r] = "gate"
    BY <1>6, <1>a, <2>1 DEF StartRun, Assign, Initial, Nothing
  <2>5. /\ current' = r /\ ~stopping' /\ UNCHANGED <<view, queue, openGates>>
    BY <1>0, <1>6 DEF StartRun, InterfaceFollowsCalls
  <2> HIDE DEF r
  <2> QED
    BY <2>1, <2>3, <2>4, <2>5 DEF InterfaceFollowsCalls, StartIsAnnouncedFirst, Nothing
<1>7. CASE StartRunFails
  BY <1>0, <1>7 DEF StartRunFails, InterfaceFollowsCalls, StartIsAnnouncedFirst
<1>8. CASE NotifyOfAction \/ FinishAction
  <2>1. /\ pc[Interface] \in {"notify", "notified"}
        /\ pc'[Interface] \in {"notified", "startup", "refresh"}
        /\ UNCHANGED <<stopping, current>>
        /\ \A q \in Runs : pc'[q] = pc[q]
    BY <1>8, <1>a DEF NotifyOfAction, FinishAction
  <2> QED
    BY <1>0, <2>1 DEF InterfaceFollowsCalls, StartIsAnnouncedFirst
<1>9. CASE Refresh \/ EnterEventLoop \/ RequestStop \/ StopAndWait
  <2>1. /\ pc'[Interface] \in {"idle", "stopping", "joined"}
        /\ stopping' => pc'[Interface] \in {"stopping", "joined"}
    BY <1>0, <1>9, <1>a DEF Refresh, EnterEventLoop, RequestStop, StopAndWait, InterfaceFollowsCalls
  <2> QED
    BY <2>1 DEF InterfaceFollowsCalls, StartIsAnnouncedFirst
<1>10. CASE ProcessUpdate
  BY <1>0, <1>10 DEF ProcessUpdate, InterfaceFollowsCalls, StartIsAnnouncedFirst
<1>11. CASE UNCHANGED vars
  BY <1>0, <1>11 DEF vars, InterfaceFollowsCalls, StartIsAnnouncedFirst, Nothing
<1> QED
  BY <1>1, <1>2, <1>3, <1>4, <1>5, <1>6, <1>7, <1>8, <1>9, <1>10, <1>11
  DEF Next, RunThread, InterfaceContinues
-----------------------------------------------------------------------------
LEMMA InitInvariant == Init => IInv
<1> SUFFICES ASSUME Init PROVE IInv
  OBVIOUS
<1>1. TypeOK
  BY InitType
<1>2. Copies \subseteq {Nothing}
  BY DEF Init, Copies
<1>3. RecordsFollowChains
  BY Constants DEF Init, RecordsFollowChains, RecordFollowsChain, Nothing, Terminal, Interface
<1>4. CopiesFollowRecords /\ SequenceOrdersUpdates /\ CancelledWasRequested
  BY <1>2 DEF CopiesFollowRecords, SequenceOrdersUpdates, CancelledWasRequested, Nothing
<1>5. InterfaceFollowsCalls
  BY Constants DEF Init, InterfaceFollowsCalls, StartIsAnnouncedFirst, Interface
<1> QED
  BY <1>1, <1>3, <1>4, <1>5 DEF IInv

(***************************************************************************)
(* The invariant holds: the copies of run states the threads of the        *)
(* manager and of the interface hold are all earlier states of the record. *)
(***************************************************************************)
THEOREM InvariantHolds == Spec => []IInv
<1>1. IInv /\ [Next]_vars => IInv'
  BY TypeStep, RecordsStep, CopiesStep, InterfaceStep DEF IInv, CopiesOK
<1> QED
  BY <1>1, InitInvariant, PTL DEF Spec

(***************************************************************************)
(* updateRun, startRun and requestRunCancellation number the states of a   *)
(* run so that the numbers order every copy on its way to the interface.   *)
(***************************************************************************)
THEOREM UpdatesAreOrdered == Spec => []SequenceOrdersUpdates
<1>1. IInv => SequenceOrdersUpdates
  BY DEF IInv
<1> QED
  BY <1>1, InvariantHolds, PTL

(***************************************************************************)
(* No thread and no view of the interface ever holds a run that is         *)
(* cancelled without the request that cancelled it.                        *)
(***************************************************************************)
THEOREM CancellationIsExplained == Spec => []CancelledWasRequested
<1>1. IInv => CancelledWasRequested
  BY DEF IInv
<1> QED
  BY <1>1, InvariantHolds, PTL

(***************************************************************************)
(* While startRun announces a run, the gate keeps its thread from being    *)
(* heard first.                                                            *)
(***************************************************************************)
THEOREM StartComesFirst == Spec => []StartIsAnnouncedFirst
<1>1. IInv => StartIsAnnouncedFirst
  BY DEF IInv, InterfaceFollowsCalls
<1> QED
  BY <1>1, InvariantHolds, PTL
-----------------------------------------------------------------------------
\* OperationChainRunModel::updateRun with any copy only moves the view forward.
LEMMA ShowMovesForward ==
  ASSUME IInv, NEW s \in Copies, Show(s), NEW r \in Runs
  PROVE  Precedes(view[r], view'[r])
<1>1. /\ TypeOK /\ SequenceOrdersUpdates /\ RecordFollowsChain(r)
      /\ view \in [Runs -> Snapshot] /\ view[r] \in Snapshot /\ view[r] \in Copies
      /\ s \in Snapshot
  BY Elements DEF IInv, TypeOK, RecordsFollowChains
<1>2. Precedes(view[r], view[r]) /\ Precedes(Nothing, s)
  BY <1>1 DEF Precedes, Snapshot, Nothing, Terminal
<1>3. view'[r] = view[r] \/ (view'[r] = s /\ s.run = r /\ ~(view[r].seq >= s.seq))
  BY <1>1 DEF Show
<1>4. ASSUME view'[r] = s, s.run = r, ~(view[r].seq >= s.seq), view[r] # Nothing
      PROVE  Precedes(view[r], s)
  <2>1. view[r].run = r /\ s # Nothing /\ view[r].seq < s.seq
    BY <1>1, <1>4, Constants DEF RecordFollowsChain, Snapshot, Nothing
  <2> QED
    BY <1>1, <1>4, <2>1 DEF SequenceOrdersUpdates
<1> QED
  BY <1>2, <1>3, <1>4

(***************************************************************************)
(* What the interface shows of a run never goes back, whatever the order   *)
(* in which the threads of the manager post their updates.                 *)
(***************************************************************************)
THEOREM ViewOnlyMovesForward == Spec => ViewNeverGoesBack
<1>1. ASSUME IInv, [Next]_vars, NEW r \in Runs PROVE Precedes(view[r], view'[r])
  <2>0. /\ TypeOK /\ view[r] \in Snapshot /\ InterfaceFollowsCalls
        /\ queue \in Seq(Snapshot)
    BY <1>1 DEF IInv, TypeOK
  <2>1. Precedes(view[r], view[r])
    BY <2>0 DEF Precedes, Snapshot
  <2>2. CASE view' = view
    BY <2>1, <2>2
  <2>3. CASE Refresh
    <3>1. record[current] \in Copies /\ Show(record[current])
      BY <2>0, <2>3, Elements DEF Refresh, Goto, InterfaceFollowsCalls
    <3> QED
      BY <1>1, <3>1, ShowMovesForward
  <2>4. CASE ProcessUpdate
    <3>1. Head(queue) \in Copies /\ Show(Head(queue))
      BY <2>0, <2>4, Elements DEF ProcessUpdate
    <3> QED
      BY <1>1, <3>1, ShowMovesForward
  <2>5. view' = view \/ Refresh \/ ProcessUpdate
    BY <1>1 DEF Next, RunThread, InterfaceContinues, EnterRun, SkipRun, UpdateRun, DropUpdate,
       Notify, ChainChanges, ChainCancelled, AbandonRun, CancelRunReturns, RequestRunCancellation,
       CancellationRefused, StartRun, StartRunFails, NotifyOfAction, FinishAction, EnterEventLoop,
       StopAndWait, RequestStop, vars, modelVars
  <2> QED
    BY <2>2, <2>3, <2>4, <2>5
<1>2. IInv /\ [Next]_vars => [\A r \in Runs : Precedes(view[r], view'[r])]_vars
  BY <1>1
<1> QED
  BY <1>2, InvariantHolds, PTL DEF Spec, ViewNeverGoesBack
=============================================================================
