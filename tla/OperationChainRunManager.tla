----------------------- MODULE OperationChainRunManager -----------------------
(***************************************************************************)
(* The run manager with several runs, and the model of the interface that  *)
(* observes it.  The thread of a run changes its chain and calls           *)
(* updateRun; updateRun numbers the update under the manager's lock and    *)
(* notifies outside of it; the handler posts the update to the event loop  *)
(* of the interface thread, which shows it.  The interface thread starts   *)
(* runs, requests cancellations, and shuts the program down.               *)
(*                                                                         *)
(* A chain is here only its status and revision: what a real one does is   *)
(* in OperationChain, what a simulated one does in                         *)
(* SimulatedOperationChainRun; of the cancellation worker of a real run    *)
(* only that it may be in a call of the exchange.  The first Simulated     *)
(* runs are started before the event loop, all others by the user.         *)
(***************************************************************************)
EXTENDS Naturals, Sequences

CONSTANTS MaxRuns,       \* bound: runs started
          Simulated,     \* how many of them are simulated
          MaxRevision,   \* bound: changes of one chain before it ends
          MaxPosted      \* bound: a thread of a run posts when fewer updates wait

ASSUME ManagerAssumption ==
  /\ MaxRuns \in Nat /\ MaxRevision \in Nat /\ MaxPosted \in Nat
  /\ Simulated \in 0 .. MaxRuns

VARIABLES
  pc,                    \* where each thread is
  chain,                 \* the snapshot of each chain: revision and status
  signalled,             \* the runs whose coordinator or simulation was told to cancel
  cancelling,            \* the runs whose cancellationWorker has not returned
  record,                \* run->second->snapshot
  held,                  \* the copy a thread is notifying about: changedSnapshot
  nextRunId, nextUpdateSequence,
  stopping,
  handlerSet,            \* is runChangeHandler set?
  queue,                 \* the updates posted to the event loop
  view,                  \* OperationChainRunModel::runs
  current,               \* the run the interface thread is starting or cancelling
  openGates              \* the runs whose start gate is open

cancelVars == <<signalled, cancelling>>
managerVars == <<record, nextRunId, nextUpdateSequence, stopping, handlerSet>>
modelVars == <<queue, view>>
interfaceVars == <<current, openGates>>
vars == <<pc, chain, cancelVars, managerVars, held, modelVars, interfaceVars>>

Runs == 1 .. MaxRuns

Interface == 0

Threads == Runs \cup {Interface}

IsSimulated(r) == r <= Simulated

Terminal == {"COMPLETED", "FAILED", "CANCELLED"}

\* The entry of a run that is not in a map; real update sequences start at 1.
Nothing == [run |-> 0, seq |-> 0, revision |-> 0, status |-> "PENDING", requested |-> FALSE]

Initial(r, seq) == [Nothing EXCEPT !.run = r, !.seq = seq]

Registered(r) == record[r] # Nothing
-----------------------------------------------------------------------------
Init ==
  /\ pc = [t \in Threads |-> IF t = Interface THEN "startup" ELSE "none"]
  /\ chain = [r \in Runs |-> [revision |-> 0, status |-> "PENDING"]]
  /\ signalled = {} /\ cancelling = {}
  /\ record = [r \in Runs |-> Nothing]
  /\ held = [t \in Threads |-> Nothing]
  /\ nextRunId = 1 /\ nextUpdateSequence = 1
  /\ stopping = FALSE /\ handlerSet = TRUE
  /\ queue = <<>>
  /\ view = [r \in Runs |-> Nothing]
  /\ current = 0 /\ openGates = {}

Goto(t, from, to) == pc[t] = from /\ pc' = [pc EXCEPT ![t] = to]

\* Mutated: the number is read but not advanced.
AssignUnnumbered(t, r, snapshot) ==
  /\ record' = [record EXCEPT ![r] = snapshot]
  /\ held' = [held EXCEPT ![t] = snapshot]
  /\ UNCHANGED nextUpdateSequence

\* Under the lock: number the new state of a run and keep a copy to notify.
Assign(t, r, snapshot) ==
  /\ record' = [record EXCEPT ![r] = snapshot]
  /\ held' = [held EXCEPT ![t] = snapshot]
  /\ nextUpdateSequence' = nextUpdateSequence + 1
-----------------------------------------------------------------------------
(***************************************************************************)
(* notifyRunChanged, by any thread t: the handler is copied under the      *)
(* lock and called outside of it, where the handler of the model posts the *)
(* update to the event loop.  The handler is only ever cleared after the   *)
(* last turn of that loop, when what is posted is never delivered, so both *)
(* steps are one.                                                          *)
(***************************************************************************)
notifyRunChanged(t) ==
  /\ queue' = IF handlerSet THEN Append(queue, held[t]) ELSE queue
  /\ held' = [held EXCEPT ![t] = Nothing]

(***************************************************************************)
(* The thread of run r.                                                    *)
(***************************************************************************)
\* Mutated: the thread does not wait at its gate.
EnterRunUngated(r) ==
  /\ ~stopping
  /\ Goto(r, "gate", "executing")
  /\ UNCHANGED <<chain, cancelVars, managerVars, held, modelVars, interfaceVars>>

\* Mutated: executeRun does not check the stop token.
EnterRunUnchecked(r) ==
  /\ r \in openGates
  /\ Goto(r, "gate", "executing")
  /\ UNCHANGED <<chain, cancelVars, managerVars, held, modelVars, interfaceVars>>

\* waitForRunStart, and the check of the stop token in executeRun.
EnterRun(r) ==
  /\ r \in openGates /\ ~stopping
  /\ Goto(r, "gate", "executing")
  /\ UNCHANGED <<chain, cancelVars, managerVars, held, modelVars, interfaceVars>>

SkipRun(r) ==
  /\ stopping
  /\ Goto(r, "gate", "exit")
  /\ UNCHANGED <<chain, cancelVars, managerVars, held, modelVars, interfaceVars>>

\* Where a chain of this kind may go from its status.
NextStatus(r) ==
  CASE chain[r].status = "PENDING" -> {"RUNNING"}
    [] chain[r].status = "RUNNING" /\ IsSimulated(r) -> {"RUNNING"}
    [] chain[r].status = "RUNNING" /\ ~IsSimulated(r) -> {"RUNNING", "COMPLETED", "FAILED"}
    [] OTHER -> {}

\* The chain changes its snapshot and calls the manager.
ChainChanges(r) ==
  /\ Goto(r, "executing", "update")
  /\ \E status \in NextStatus(r) :
       /\ chain[r].revision < MaxRevision \/ status \in Terminal
       /\ status = "RUNNING" /\ chain[r].status = "PENDING" => r \notin signalled
       /\ chain' = [chain EXCEPT ![r] = [revision |-> @.revision + 1, status |-> status]]
  /\ UNCHANGED <<cancelVars, managerVars, held, modelVars, interfaceVars>>

ChainCancelled(r) ==
  /\ r \in signalled
  /\ chain[r].status \in {"PENDING", "RUNNING"}
  /\ Goto(r, "executing", "update")
  /\ chain' = [chain EXCEPT ![r] = [revision |-> @.revision + 1, status |-> "CANCELLED"]]
  /\ UNCHANGED <<cancelVars, managerVars, held, modelVars, interfaceVars>>

\* A simulated run returns without a terminal snapshot when it is stopped.
AbandonRun(r) ==
  /\ stopping /\ IsSimulated(r)
  /\ Goto(r, "executing", "exit")
  /\ UNCHANGED <<chain, cancelVars, managerVars, held, modelVars, interfaceVars>>

\* Mutated: the whole record is replaced, not the chain's part of it.
UpdateRunReplacesRecord(r) ==
  /\ chain[r].revision > record[r].revision
  /\ Goto(r, "update", "notify")
  /\ Assign(r, r, [Initial(r, nextUpdateSequence) EXCEPT !.revision = chain[r].revision,
                                                         !.status = chain[r].status])
  /\ UNCHANGED <<chain, cancelVars, nextRunId, stopping, handlerSet, modelVars, interfaceVars>>

\* updateRun: a revision the record already has is dropped.
UpdateRun(r) ==
  /\ chain[r].revision > record[r].revision
  /\ Goto(r, "update", "notify")
  /\ Assign(r, r, [record[r] EXCEPT !.revision = chain[r].revision,
                                    !.status = chain[r].status,
                                    !.seq = nextUpdateSequence])
  /\ UNCHANGED <<chain, cancelVars, nextRunId, stopping, handlerSet, modelVars, interfaceVars>>

DropUpdate(r) ==
  /\ chain[r].revision <= record[r].revision
  /\ Goto(r, "update", "exit")
  /\ UNCHANGED <<chain, cancelVars, managerVars, held, modelVars, interfaceVars>>

\* It notifies, and is back in execute, which goes on, ends, or (in a real run)
\* throws what failed it; executeRun then calls updateRun once more.
Notify(r) ==
  /\ Len(queue) < MaxPosted
  /\ Goto(r, "notify", CASE chain[r].status \notin Terminal -> "executing"
                         [] chain[r].status = "FAILED" -> "update"
                         [] OTHER -> "exit")
  /\ notifyRunChanged(r)
  /\ UNCHANGED <<chain, cancelVars, managerVars, view, interfaceVars>>

RunThread(r) == EnterRun(r) \/ SkipRun(r) \/ UpdateRun(r) \/ DropUpdate(r) \/ Notify(r)
-----------------------------------------------------------------------------
(***************************************************************************)
(* The interface thread.                                                   *)
(***************************************************************************)
\* Mutated: the update shown last wins.
ShowAlways(snapshot) == view' = [view EXCEPT ![snapshot.run] = snapshot]

\* Mutated: an update is compared with those of all runs.
ShowNewestOfAll(snapshot) ==
  view' = IF \E r \in Runs : view[r].seq >= snapshot.seq THEN view
          ELSE [view EXCEPT ![snapshot.run] = snapshot]

\* OperationChainRunModel::updateRun
Show(snapshot) ==
  view' = IF view[snapshot.run].seq >= snapshot.seq THEN view
          ELSE [view EXCEPT ![snapshot.run] = snapshot]

\* startRun and startSimulatedRun as far as the lock: the thread of the run is
\* created and waits at its gate.
StartRun ==
  LET r == nextRunId IN
  /\ r <= MaxRuns
  /\ pc[Interface] = IF IsSimulated(r) THEN "startup" ELSE "idle"
  /\ pc' = [pc EXCEPT ![Interface] = "notify", ![r] = "gate"]
  /\ Assign(Interface, r, Initial(r, nextUpdateSequence))
  /\ nextRunId' = nextRunId + 1
  /\ current' = r
  /\ UNCHANGED <<chain, cancelVars, stopping, handlerSet, modelVars, openGates>>

\* The thread could not be created: the record is erased, its numbers are lost.
StartRunFails ==
  /\ nextRunId <= MaxRuns /\ ~IsSimulated(nextRunId)
  /\ pc[Interface] = "idle"
  /\ nextRunId' = nextRunId + 1
  /\ nextUpdateSequence' = nextUpdateSequence + 1
  /\ UNCHANGED <<pc, chain, cancelVars, record, stopping, handlerSet, held, modelVars, interfaceVars>>

EnterEventLoop ==
  /\ nextRunId > Simulated
  /\ Goto(Interface, "startup", "idle")
  /\ UNCHANGED <<chain, cancelVars, managerVars, held, modelVars, interfaceVars>>

\* Mutated: the request is recorded but not passed to the chain.
RequestRecordedOnly(r) ==
  /\ view[r] # Nothing
  /\ ~record[r].requested /\ record[r].status \notin Terminal
  /\ Goto(Interface, "idle", "notify")
  /\ Assign(Interface, r, [record[r] EXCEPT !.requested = TRUE, !.seq = nextUpdateSequence])
  /\ current' = r
  /\ UNCHANGED <<chain, cancelVars, nextRunId, stopping, handlerSet, modelVars, openGates>>

\* requestRunCancellation as far as the lock, for a run that is shown.  A real run gets a
\* cancellation worker, unless its thread cannot be created.
RequestRunCancellation(r) ==
  /\ view[r] # Nothing
  /\ ~record[r].requested /\ record[r].status \notin Terminal
  /\ Goto(Interface, "idle", "notify")
  /\ Assign(Interface, r, [record[r] EXCEPT !.requested = TRUE, !.seq = nextUpdateSequence])
  /\ signalled' = signalled \cup {r}
  /\ cancelling' \in IF IsSimulated(r) THEN {cancelling} ELSE {cancelling, cancelling \cup {r}}
  /\ current' = r
  /\ UNCHANGED <<chain, nextRunId, stopping, handlerSet, modelVars, openGates>>

\* The cancellation worker of run r: cancelRun returns, whatever the exchange answered.
CancelRunReturns(r) ==
  /\ r \in cancelling
  /\ cancelling' = cancelling \ {r}
  /\ UNCHANGED <<pc, chain, signalled, managerVars, held, modelVars, interfaceVars>>

\* It returns at once when there is nothing to do.
CancellationRefused(r) ==
  /\ view[r] # Nothing
  /\ record[r].requested \/ record[r].status \in Terminal
  /\ Goto(Interface, "idle", "refresh")
  /\ current' = r
  /\ UNCHANGED <<chain, cancelVars, managerVars, held, modelVars, openGates>>

NotifyOfAction ==
  /\ Goto(Interface, "notify", "notified")
  /\ notifyRunChanged(Interface)
  /\ UNCHANGED <<chain, cancelVars, managerVars, view, interfaceVars>>

\* The rest of startRun or requestRunCancellation, called by the model, which
\* takes the record with getRun next, or of startSimulatedRun, called before the
\* event loop.
FinishAction ==
  /\ Goto(Interface, "notified",
          IF IsSimulated(current) /\ current \notin openGates THEN "startup" ELSE "refresh")
  /\ openGates' = openGates \cup {current}
  /\ UNCHANGED <<chain, cancelVars, managerVars, held, modelVars, current>>

Refresh ==
  /\ Goto(Interface, "refresh", "idle")
  /\ Show(record[current])
  /\ UNCHANGED <<chain, cancelVars, managerVars, held, queue, interfaceVars>>

\* The event loop delivers a posted update.
ProcessUpdate ==
  /\ pc[Interface] = "idle"
  /\ queue # <<>>
  /\ Show(Head(queue))
  /\ queue' = Tail(queue)
  /\ UNCHANGED <<pc, chain, cancelVars, managerVars, held, interfaceVars>>

\* The event loop has ended: what is left in it is never delivered.
RequestStop ==
  /\ Goto(Interface, "idle", "stopping")
  /\ stopping' = TRUE
  /\ handlerSet' = FALSE
  /\ queue' = <<>>
  /\ UNCHANGED <<chain, cancelVars, record, nextRunId, nextUpdateSequence, held, view,
                 interfaceVars>>

\* Every run's worker and cancellationWorker is joined.
StopAndWait ==
  /\ \A r \in Runs : pc[r] \in {"none", "exit"} /\ r \notin cancelling
  /\ Goto(Interface, "stopping", "joined")
  /\ UNCHANGED <<chain, cancelVars, managerVars, held, modelVars, interfaceVars>>

InterfaceContinues ==
  \/ IsSimulated(nextRunId) /\ StartRun
  \/ NotifyOfAction \/ FinishAction \/ Refresh \/ EnterEventLoop \/ StopAndWait

Next ==
  \/ \E r \in Runs : \/ RunThread(r) \/ ChainChanges(r) \/ ChainCancelled(r) \/ AbandonRun(r)
                     \/ RequestRunCancellation(r) \/ CancellationRefused(r)
                     \/ CancelRunReturns(r)
  \/ StartRun \/ StartRunFails \/ InterfaceContinues \/ ProcessUpdate \/ RequestStop

(***************************************************************************)
(* The threads run; the event loop delivers what was posted even if the    *)
(* user keeps clicking, because it takes its events in order.  A simulated *)
(* run that is stopped returns, which SimulatedOperationChainRun shows of  *)
(* its waits (StopEndsRun).  Nothing obliges a chain to change, a          *)
(* cancellation worker to get an answer, or the user to act.               *)
(***************************************************************************)
Fairness ==
  /\ \A r \in Runs : WF_vars(RunThread(r)) /\ WF_vars(AbandonRun(r))
  /\ WF_vars(InterfaceContinues)
  /\ SF_vars(ProcessUpdate)

Spec == Init /\ [][Next]_vars /\ Fairness
-----------------------------------------------------------------------------
Pc == {"none", "gate", "executing", "update", "notify", "notified", "exit",
       "startup", "idle", "refresh", "stopping", "joined"}

ChainStatus == {"PENDING", "RUNNING"} \cup Terminal

Snapshot == [run : Threads, seq : Nat, revision : Nat, status : ChainStatus, requested : BOOLEAN]

\* Every variable has its type.
TypeOK ==
  /\ pc \in [Threads -> Pc]
  /\ chain \in [Runs -> [revision : Nat, status : ChainStatus]]
  /\ signalled \subseteq Runs /\ cancelling \subseteq signalled
  /\ record \in [Runs -> Snapshot] /\ view \in [Runs -> Snapshot]
  /\ held \in [Threads -> Snapshot]
  /\ queue \in Seq(Snapshot)
  /\ nextRunId \in 1 .. MaxRuns + 1 /\ nextUpdateSequence \in Nat \ {0}
  /\ stopping \in BOOLEAN /\ handlerSet \in BOOLEAN
  /\ current \in Threads /\ openGates \subseteq Runs

\* The copies of run states there are.
Copies == {record[r] : r \in Runs} \cup {view[r] : r \in Runs} \cup {held[t] : t \in Threads}
            \cup {queue[i] : i \in 1 .. Len(queue)}

\* a is an earlier state of the same run than b, or the same.
Precedes(a, b) ==
  /\ a.revision <= b.revision
  /\ a.requested => b.requested
  /\ a.status \in Terminal => b.status = a.status

(***************************************************************************)
(* The update sequence orders everything any thread holds, wherever it is  *)
(* on its way: no two states share a number, and of two states of a run    *)
(* the one with the smaller number is the earlier one.  This is what lets  *)
(* the model drop late updates by their number alone, although threads     *)
(* overtake each other between the manager's lock and the event loop.      *)
(***************************************************************************)
SequenceOrdersUpdates ==
  \A a, b \in Copies \ {Nothing} :
    /\ a.seq = b.seq => a = b
    /\ a.run = b.run /\ a.seq < b.seq => Precedes(a, b)

(***************************************************************************)
(* A run is nowhere shown as cancelled without the request being shown     *)
(* with it, although chain and request are updated by different threads.   *)
(***************************************************************************)
CancelledWasRequested ==
  \A a \in Copies : a.status = "CANCELLED" => a.requested

(***************************************************************************)
(* Nobody hears of a run before its start is announced: while startRun     *)
(* notifies, the thread of the run is held at its gate.                    *)
(***************************************************************************)
StartIsAnnouncedFirst ==
  pc[Interface] = "notify" /\ held[Interface].revision = 0
    /\ ~held[Interface].requested
  => LET r == current IN
     /\ view[r] = Nothing /\ held[r] = Nothing
     /\ \A i \in 1 .. Len(queue) : queue[i].run # r

(***************************************************************************)
(* What the interface shows of a run never goes back: neither an update    *)
(* that was overtaken, nor the record taken after a request, undoes what   *)
(* is shown.                                                               *)
(***************************************************************************)
ViewNeverGoesBack == [][\A r \in Runs : Precedes(view[r], view'[r])]_vars

(***************************************************************************)
(* The end of a run reaches the screen, unless the program stops first.    *)
(***************************************************************************)
ViewCatchesUp ==
  \A r \in Runs : record[r].status \in Terminal ~> (view[r] = record[r] \/ stopping)

(***************************************************************************)
(* The program stops as soon as its real chains and their cancellation     *)
(* workers have returned, and nothing else holds it up: runs that have not *)
(* passed their gate, simulated runs wherever they are, and threads that   *)
(* are still notifying are all joined.  Whether a chain or a worker in a   *)
(* call of the exchange ever returns is not up to the manager.             *)
(***************************************************************************)
StopWaitsForExchangeOnly ==
  (stopping /\ \A r \in Runs : /\ r \notin cancelling
                               /\ \/ IsSimulated(r) \/ chain[r].status \in Terminal
                                  \/ pc[r] \in {"none", "gate"})
    ~> (pc[Interface] = "joined")
-----------------------------------------------------------------------------
(***************************************************************************)
(* The inductive invariant.                                                *)
(***************************************************************************)
\* The record of a run says what its chain was at the revision of the record,
\* and whether the chain was told to cancel; the chain ends once.
RecordFollowsChain(r) ==
  /\ record[r] = Nothing <=> pc[r] = "none"
  /\ record[r] # Nothing => record[r].run = r
  /\ view[r] # Nothing => view[r].run = r
  /\ held[r] # Nothing => held[r].run = r
  /\ r >= nextRunId => pc[r] = "none"
  /\ pc[r] = "none" => r \notin openGates
  /\ record[r].requested <=> r \in signalled
  /\ record[r].revision <= chain[r].revision
  /\ record[r].revision = chain[r].revision => record[r].status = chain[r].status
  /\ record[r].status \in Terminal => record[r].revision = chain[r].revision
  /\ chain[r].revision = 0 => chain[r].status = "PENDING"
  /\ chain[r].status = "CANCELLED" => r \in signalled

RecordsFollowChains == \A r \in Runs : RecordFollowsChain(r)

\* Every copy is an earlier state of the record of its run, or its state.
CopiesFollowRecords ==
  \A a \in Copies \ {Nothing} :
    /\ a.run \in Runs /\ record[a.run] # Nothing
    /\ 0 < a.seq /\ a.seq < nextUpdateSequence
    /\ a.seq <= record[a.run].seq
    /\ Precedes(a, record[a.run])

\* What the interface thread is doing.
InterfaceFollowsCalls ==
  /\ stopping => pc[Interface] \in {"stopping", "joined"}
  /\ pc[Interface] \in {"notify", "notified", "refresh"} =>
       current \in Runs /\ pc[current] # "none"
  /\ pc[Interface] = "notify" => held[Interface].run = current
  /\ StartIsAnnouncedFirst
  /\ pc[Interface] = "notify" /\ held[Interface].revision = 0 /\ ~held[Interface].requested
       => pc[current] = "gate" /\ current \notin openGates

(***************************************************************************)
(* The invariant of the proofs: where every copy of the state of a run can *)
(* be while threads overtake each other between the manager's lock and the *)
(* event loop.                                                             *)
(***************************************************************************)
IInv ==
  /\ TypeOK
  /\ RecordsFollowChains /\ CopiesFollowRecords /\ InterfaceFollowsCalls
  /\ SequenceOrdersUpdates /\ CancelledWasRequested
=============================================================================
