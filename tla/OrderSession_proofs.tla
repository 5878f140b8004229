-------------------------- MODULE OrderSession_proofs --------------------------
(***************************************************************************)
(* For any number of entries and of actions on them, and for both          *)
(* exchanges: an entry is shown filled or ended only when its orders are,  *)
(* and stays so, but for an order of Bybit that is shown ended because its *)
(* cancellation was acknowledged.                                          *)
(*                                                                         *)
(* The invariant says what makes a late result harmless: an outcome that   *)
(* reports the end of an order is true when the work returns and can only  *)
(* stay true, an acknowledgement answers a cancellation only and meets no  *)
(* entry that is shown filled or ended, every completion in the event loop *)
(* belongs to one task that has exited, and nothing but its own submission *)
(* touches an entry that is being submitted.                               *)
(***************************************************************************)
EXTENDS OrderSession, FiniteSetTheorems, TLAPS

Statuses == {"none", "NEW", "FILLED", "CANCELED"}

Shown == {"FILLED", "TERMINAL"}

\* Of an entry that nobody but its submission changes.
Early == {"absent", "SUBMITTING"}

EntryStatuses == Early \cup Shown \cup {"ACCEPTED", "WAITING", "MONITORING_FAILED", "SUBMISSION_FAILED"}

Actions == {"NONE", "REFRESHING", "CANCELLING", "CANCELLING_ALL"}

\* What the program may know of an order.
Told == Statuses \cup {"ACKNOWLEDGED"}

EntryOf(e) ==
  [status : EntryStatuses, action : Actions, revision : Nat, identified : BOOLEAN, known : [Legs(e) -> Told]]

\* Only an acknowledgement tells of the end of the entry x of e.
Acked(e, x) == Exchange = "BYBIT" /\ e \in BasicOrders /\ x.known["order"] = "ACKNOWLEDGED"

Continuation(e) == [kind |-> "continue", entry |-> e]

Events == {Completion(s) : s \in Slots} \cup {Continuation(e) : e \in Entries}

Submission(e) == <<e, "submission">>
Wait(e) == <<e, "wait">>
Action(e) == <<e, "action">>

OrderType ==
  /\ order = [e \in Entries |-> order[e]]
  /\ \A e \in Entries : order[e] \in [Legs(e) -> Statuses]

TaskType ==
  /\ worker \in [Slots -> {"none", "place", "await", "read", "cancel", "exited"}]
  /\ outcome = [s \in Slots |-> outcome[s]] /\ uiTaskState \in [Slots -> {"IDLE", "LOADING"}]
  /\ \A s \in Slots : worker[s] # "none" => uiTaskState[s] = "LOADING"
  /\ stopping = FALSE

\* A completion in the loop is the only one of its slot, whose task has exited.
LoopTrue ==
  /\ loop \in Seq(Events)
  /\ \A i \in 1 .. Len(loop) : loop[i].kind = "completeTask" => worker[loop[i].slot] = "exited"
  /\ \A i, j \in 1 .. Len(loop) :
       loop[i].kind = "completeTask" /\ loop[j].kind = "completeTask" /\ i # j => loop[i].slot # loop[j].slot

RequestType ==
  /\ request = [e \in Entries |-> request[e]]
  /\ entry = [e \in Entries |-> entry[e]]

\* An entry x of e says nothing of the ends of its orders o that is not true, but for an
\* acknowledged end.
Good(e, x, o) ==
  /\ x \in EntryOf(e)
  /\ \A l \in Legs(e) : Ended(x.known[l]) => o[l] = x.known[l]
  /\ \A l \in Legs(e) : x.known[l] = "ACKNOWLEDGED" => Acked(e, x) /\ x.status = "TERMINAL"
  /\ x.status = "FILLED" => (\A l \in Legs(e) : Ended(o[l])) /\ \E l \in Legs(e) : o[l] = "FILLED"
  /\ x.status = "TERMINAL" => Acked(e, x) \/ \A l \in Legs(e) : o[l] = "CANCELED"

\* What a submission, a wait and an action may bring back.
SubmissionAnswer(e, value, o) ==
  \/ value = Failure
  \/ \E known \in [Legs(e) -> Statuses], identified \in BOOLEAN :
       /\ value = Success([known |-> known, identified |-> identified])
       /\ \A l \in Legs(e) : Ended(known[l]) => o[l] = known[l]

WaitAnswer(e, value, o) ==
  \/ value = Failure
  \/ \E known \in [Legs(e) -> Statuses] :
       /\ value = Success(known)
       /\ \A l \in Legs(e) : Ended(known[l]) /\ o[l] = known[l]
       /\ \E l \in Legs(e) : o[l] = "FILLED"

Result(x, action, result, o) ==
  /\ result \in [Legs(x) -> Told \cup {"error"}]
  /\ \A l \in Legs(x) : Ended(result[l]) => o[l] = result[l]
  /\ \A l \in Legs(x) :
       result[l] = "ACKNOWLEDGED" => Exchange = "BYBIT" /\ x \in BasicOrders /\ action = "CANCELLING"

ActionAnswer(xs, action, value, orders) ==
  \/ value = Failure
  \/ \E results : value = Success(results) /\ \A x \in xs : Result(x, action, results[x], orders[x])

\* A cancellation whose entry x has still the revision it was started for finds it without
\* an end.
StillOpen(action, revision, x) == action = "CANCELLING" /\ revision = x.revision => x.status \notin Shown

\* What a submission relies on when its task is at w with the outcome value, for the entry
\* x of e with the orders o; the same for a wait, and for an action with the request r.
SubmissionFits(e, w, value, x, o) ==
  /\ w # "none" => x.status = "SUBMITTING"
  /\ x.status \in Early => ~x.identified
  /\ x.status = "absent" \/ w = "place" => \A l \in Legs(e) : o[l] = "none"
  /\ w = "exited" => SubmissionAnswer(e, value, o)

WaitFits(e, w, value, o) == w = "exited" => WaitAnswer(e, value, o)

ActionFits(e, w, value, r, xs, orders) ==
  /\ \A x \in DOMAIN r.revisions :
       /\ x \in Entries /\ xs[x].status \notin Early
       /\ r.revisions[x] \in Nat /\ r.revisions[x] <= xs[x].revision
       /\ StillOpen(r.action, r.revisions[x], xs[x])
  /\ r.action = "CANCELLING" => DOMAIN r.revisions = {e}
  /\ w = "exited" => ActionAnswer(DOMAIN r.revisions, r.action, value, orders)

TasksTrue ==
  \A e \in Entries :
    /\ SubmissionFits(e, worker[Submission(e)], outcome[Submission(e)], entry[e], order[e])
    /\ WaitFits(e, worker[Wait(e)], outcome[Wait(e)], order[e])
    /\ ActionFits(e, worker[Action(e)], outcome[Action(e)], request[e], entry, order)

EntriesGood == \A e \in Entries : Good(e, entry[e], order[e])

(***************************************************************************)
(* The inductive invariant.                                                *)
(***************************************************************************)
IInv ==
  OrderType /\ TaskType /\ LoopTrue /\ RequestType /\ EntriesGood /\ TasksTrue
-----------------------------------------------------------------------------
LEMMA SlotFacts ==
  /\ \A e \in Entries : Submission(e) \in Slots /\ Wait(e) \in Slots /\ Action(e) \in Slots
  /\ \A e, x : /\ Submission(e) # Wait(x) /\ Submission(e) # Action(x) /\ Wait(e) # Action(x)
               /\ Submission(e) = Submission(x) <=> e = x
               /\ Wait(e) = Wait(x) <=> e = x
               /\ Action(e) = Action(x) <=> e = x
  /\ \A s \in Slots : /\ s[1] \in Entries
                      /\ \/ s[2] = "submission" /\ s = Submission(s[1])
                         \/ s[2] = "wait" /\ s = Wait(s[1])
                         \/ s[2] = "action" /\ s = Action(s[1])
  BY SessionAssumption DEF Submission, Wait, Action

LEMMA EndedFacts ==
  /\ \A status : Ended(status) <=> status = "FILLED" \/ status = "CANCELED"
  /\ Ended("FILLED") /\ Ended("CANCELED") /\ ~Ended("NEW") /\ ~Ended("none") /\ ~Ended("error")
  /\ ~Ended("ACKNOWLEDGED")
  /\ \A status : LooksEnded(status) <=> Ended(status) \/ status = "ACKNOWLEDGED"
  BY DEF Ended, LooksEnded

LEMMA LegFacts ==
  /\ \A e : \E l : l \in Legs(e)
  /\ \A e \in BasicOrders : Legs(e) = {"order"}
  BY SessionAssumption DEF Legs

LEMMA OutcomeFacts ==
  /\ \A v : Success(v) # Failure /\ Success(v)[2] = v
  /\ \A v, w : Success(v) = Success(w) => v = w
  BY DEF Success, Failure

LEMMA EventFacts ==
  /\ \A s \in Slots : Completion(s) \in Events /\ Completion(s).kind = "completeTask" /\ Completion(s).slot = s
  /\ \A e \in Entries : Continuation(e) \in Events /\ Continuation(e).kind = "continue" /\ Continuation(e).entry = e
  /\ \A event \in Events : event.kind = "completeTask" => event.slot \in Slots
<1>1. \A s : Completion(s).kind = "completeTask" /\ Completion(s).slot = s
  BY DEF Completion
<1>2. \A e : Continuation(e).kind = "continue" /\ Continuation(e).entry = e
  BY DEF Continuation
<1> QED
  BY <1>1, <1>2 DEF Events
-----------------------------------------------------------------------------
(***************************************************************************)
(* The executor.                                                           *)
(***************************************************************************)
\* Only the task of slot s moves.
Others(s) == \A t \in Slots \ {s} : worker'[t] = worker[t] /\ outcome'[t] = outcome[t]

LEMMA TaskStarts ==
  ASSUME TaskType, LoopTrue, NEW s \in Slots, NEW first \in {"place", "await", "read", "cancel"},
         Starts(s, first), UNCHANGED <<stopping, loop>>
  PROVE  TaskType' /\ LoopTrue' /\ Others(s) /\ worker[s] = "none" /\ worker'[s] = first
<1>1. worker[s] = "none"
  BY DEF Starts, StartTasks, CanStart, IsLoading, TaskType
<1>2. /\ worker' = [t \in Slots |-> IF t = s THEN first ELSE worker[t]]
      /\ uiTaskState' = [t \in Slots |-> IF t = s THEN "LOADING" ELSE uiTaskState[t]]
      /\ outcome' = [t \in Slots |-> IF t = s THEN <<>> ELSE outcome[t]]
  BY DEF Starts, StartTasks
<1>3. TaskType'
  BY <1>2 DEF TaskType
<1>4. LoopTrue'
  <2>1. ASSUME NEW i \in 1 .. Len(loop), loop[i].kind = "completeTask" PROVE worker'[loop[i].slot] = "exited"
    <3>1. loop[i].slot \in Slots /\ worker[loop[i].slot] = "exited"
      BY <2>1, EventFacts DEF LoopTrue
    <3> QED
      BY <1>1, <1>2, <3>1
  <2> QED
    BY <2>1 DEF LoopTrue
<1> QED
  BY <1>1, <1>2, <1>3, <1>4 DEF Others, TaskType

LEMMA TaskReturns ==
  ASSUME TaskType, LoopTrue, NEW s \in Slots, NEW from \in {"place", "await", "read", "cancel"}, NEW value,
         WorkReturns(s, from, value), UNCHANGED stopping
  PROVE  TaskType' /\ LoopTrue' /\ Others(s) /\ worker[s] = from /\ worker'[s] = "exited" /\ outcome'[s] = value
<1>1. /\ worker[s] = from /\ worker' = [worker EXCEPT ![s] = "exited"] /\ outcome' = [outcome EXCEPT ![s] = value]
      /\ UNCHANGED uiTaskState /\ loop' = Append(loop, Completion(s))
  BY DEF WorkReturns, WorkGoes, Post, TaskType
<1>2. TaskType' /\ Others(s) /\ worker'[s] = "exited" /\ outcome'[s] = value
  BY <1>1 DEF TaskType, Others
<1> DEFINE n == Len(loop)
<1>3. /\ loop' \in Seq(Events) /\ n \in Nat /\ Len(loop') = n + 1 /\ loop'[n + 1] = Completion(s)
      /\ \A i \in 1 .. n : loop'[i] = loop[i]
  BY <1>1, EventFacts DEF LoopTrue
<1>4. \A i \in 1 .. n : loop[i] \in Events /\ (loop[i].kind = "completeTask" =>
        loop[i].slot \in Slots /\ loop[i].slot # s /\ worker'[loop[i].slot] = "exited")
  BY <1>1, EventFacts DEF LoopTrue, TaskType
<1> HIDE DEF n
<1>5. \A i \in 1 .. Len(loop') : i \in 1 .. n \/ i = n + 1
  BY <1>3
<1>6. \A i \in 1 .. Len(loop') : loop'[i].kind = "completeTask" => worker'[loop'[i].slot] = "exited"
  BY <1>2, <1>3, <1>4, <1>5, EventFacts
<1>7. ASSUME NEW i \in 1 .. Len(loop'), NEW j \in 1 .. Len(loop'), i # j,
             loop'[i].kind = "completeTask", loop'[j].kind = "completeTask"
      PROVE  loop'[i].slot # loop'[j].slot
  <2>1. CASE i \in 1 .. n /\ j \in 1 .. n
    BY <1>3, <1>7, <2>1 DEF LoopTrue, n
  <2>2. CASE i = n + 1 \/ j = n + 1
    BY <1>3, <1>4, <1>5, <1>7, <2>2, EventFacts
  <2> QED
    BY <1>5, <2>1, <2>2
<1> QED
  BY <1>1, <1>2, <1>3, <1>6, <1>7 DEF LoopTrue

\* The first event is taken.
LEMMA EventTaken ==
  ASSUME LoopTrue, loop # <<>>
  PROVE  /\ Head(loop) \in Events /\ Tail(loop) \in Seq(Events)
         /\ \A i \in 1 .. Len(Tail(loop)) : Tail(loop)[i] = loop[i + 1] /\ i + 1 \in 1 .. Len(loop)
         /\ Head(loop) = loop[1] /\ 1 \in 1 .. Len(loop)
  BY DEF LoopTrue

LEMMA TaskDelivered ==
  ASSUME TaskType, LoopTrue, loop # <<>>, Head(loop).kind = "completeTask", TaskEnds(Head(loop).slot),
         loop' = Tail(loop) \/ \E e \in Entries : loop' = Append(Tail(loop), Continuation(e)),
         UNCHANGED stopping
  PROVE  /\ Head(loop).slot \in Slots /\ worker[Head(loop).slot] = "exited"
         /\ TaskType' /\ LoopTrue' /\ Others(Head(loop).slot) /\ worker'[Head(loop).slot] = "none"
<1> DEFINE s == Head(loop).slot
           rest == Tail(loop)
<1>1. s \in Slots /\ worker[s] = "exited"
  BY EventTaken, EventFacts DEF LoopTrue
<1>2. /\ worker' = [worker EXCEPT ![s] = "none"] /\ outcome' = [outcome EXCEPT ![s] = <<>>]
      /\ uiTaskState' = [uiTaskState EXCEPT ![s] = "IDLE"]
  BY DEF TaskEnds
<1>3. TaskType' /\ Others(s) /\ worker'[s] = "none"
  BY <1>1, <1>2 DEF TaskType, Others
<1>4. ASSUME NEW i \in 1 .. Len(rest), rest[i].kind = "completeTask" PROVE worker'[rest[i].slot] = "exited"
  <2>1. rest[i] = loop[i + 1] /\ i + 1 \in 1 .. Len(loop) /\ loop[i + 1] \in Events /\ i + 1 # 1
    BY EventTaken DEF LoopTrue
  <2>2. loop[i + 1].slot \in Slots /\ worker[loop[i + 1].slot] = "exited" /\ loop[i + 1].slot # loop[1].slot
    BY <1>4, <2>1, EventTaken, EventFacts DEF LoopTrue
  <2>3. s = loop[1].slot
    BY EventTaken
  <2> QED
    BY <1>1, <1>2, <2>1, <2>2, <2>3 DEF TaskType
<1>5. ASSUME NEW i \in 1 .. Len(rest), NEW j \in 1 .. Len(rest), i # j,
             rest[i].kind = "completeTask", rest[j].kind = "completeTask"
      PROVE  rest[i].slot # rest[j].slot
  <2>1. rest[i] = loop[i + 1] /\ rest[j] = loop[j + 1] /\ i + 1 # j + 1 /\ i + 1 \in 1 .. Len(loop) /\ j + 1 \in 1 .. Len(loop)
    BY <1>5, EventTaken
  <2> QED
    BY <1>5, <2>1 DEF LoopTrue
<1>6. rest \in Seq(Events)
  BY EventTaken
<1> HIDE DEF rest, s
<1>7. ASSUME loop' = rest PROVE LoopTrue'
  BY <1>4, <1>5, <1>6, <1>7 DEF LoopTrue
<1>8. ASSUME NEW e \in Entries, loop' = Append(rest, Continuation(e)) PROVE LoopTrue'
  <2>1. /\ loop' \in Seq(Events) /\ Len(rest) \in Nat /\ Len(loop') = Len(rest) + 1 /\ loop'[Len(rest) + 1] = Continuation(e)
        /\ \A i \in 1 .. Len(rest) : loop'[i] = rest[i]
    BY <1>6, <1>8, EventFacts
  <2>2. \A i \in 1 .. Len(loop') : loop'[i].kind = "completeTask" => i \in 1 .. Len(rest) /\ loop'[i] = rest[i]
    BY <2>1, EventFacts
  <2>3. \A i \in 1 .. Len(loop') : loop'[i].kind = "completeTask" => worker'[loop'[i].slot] = "exited"
    BY <1>4, <2>2
  <2>4. ASSUME NEW i \in 1 .. Len(loop'), NEW j \in 1 .. Len(loop'), i # j,
               loop'[i].kind = "completeTask", loop'[j].kind = "completeTask"
        PROVE  loop'[i].slot # loop'[j].slot
    <3>1. /\ i \in 1 .. Len(rest) /\ loop'[i] = rest[i]
          /\ j \in 1 .. Len(rest) /\ loop'[j] = rest[j]
      BY <2>2, <2>4
    <3> QED
      BY <1>5, <2>4, <3>1
  <2> QED
    BY <2>1, <2>3, <2>4 DEF LoopTrue
<1> QED
  BY <1>1, <1>3, <1>7, <1>8 DEF rest, s

\* An event of no task is taken.
LEMMA ContinuationTaken ==
  ASSUME TaskType, LoopTrue, loop # <<>>, loop' = Tail(loop), UNCHANGED worker
  PROVE  LoopTrue'
<1>1. \A i \in 1 .. Len(loop') : loop'[i] = loop[i + 1] /\ i + 1 \in 1 .. Len(loop)
  BY EventTaken
<1>2. \A i, j \in 1 .. Len(loop') : i # j => i + 1 # j + 1
  OBVIOUS
<1> QED
  BY <1>1, <1>2, EventTaken DEF LoopTrue
-----------------------------------------------------------------------------
(***************************************************************************)
(* What may be said of an order stays true while orders only end.          *)
(***************************************************************************)
\* The orders of e go from o to p: an end is not taken back.
Grown(e, o, p) ==
  /\ o \in [Legs(e) -> Statuses] /\ p \in [Legs(e) -> Statuses]
  /\ \A l \in Legs(e) : Ended(o[l]) => p[l] = o[l]

LEMMA GoodGrows ==
  ASSUME NEW e, NEW x, NEW o, NEW p, Grown(e, o, p), Good(e, x, o)
  PROVE  Good(e, x, p)
<1>1. \A l \in Legs(e) : Ended(x.known[l]) => p[l] = x.known[l]
  BY DEF Good, Grown
<1>2. \A l \in Legs(e) : Ended(o[l]) => p[l] = o[l]
  BY DEF Grown
<1>3. x.status = "FILLED" => (\A l \in Legs(e) : Ended(p[l])) /\ \E l \in Legs(e) : p[l] = "FILLED"
  BY <1>2, EndedFacts DEF Good
<1>4. x.status = "TERMINAL" => Acked(e, x) \/ \A l \in Legs(e) : p[l] = "CANCELED"
  BY <1>2, EndedFacts DEF Good
<1> QED
  BY <1>1, <1>3, <1>4 DEF Good

LEMMA AnswersGrow ==
  ASSUME NEW e, NEW value, NEW o, NEW p, Grown(e, o, p)
  PROVE  /\ SubmissionAnswer(e, value, o) => SubmissionAnswer(e, value, p)
         /\ WaitAnswer(e, value, o) => WaitAnswer(e, value, p)
<1>1. ASSUME NEW known \in [Legs(e) -> Statuses], \A l \in Legs(e) : Ended(known[l]) => o[l] = known[l]
      PROVE  \A l \in Legs(e) : Ended(known[l]) => p[l] = known[l]
  BY <1>1 DEF Grown
<1>2. SubmissionAnswer(e, value, o) => SubmissionAnswer(e, value, p)
  BY <1>1 DEF SubmissionAnswer
<1>3. ASSUME NEW known \in [Legs(e) -> Statuses], \A l \in Legs(e) : Ended(known[l]) /\ o[l] = known[l]
      PROVE  \A l \in Legs(e) : p[l] = o[l]
  BY <1>3 DEF Grown
<1>4. WaitAnswer(e, value, o) => WaitAnswer(e, value, p)
  BY <1>3 DEF WaitAnswer
<1> QED
  BY <1>2, <1>4

LEMMA ActionAnswerGrows ==
  ASSUME NEW xs, NEW action, NEW value, NEW o, NEW p, \A x \in xs : Grown(x, o[x], p[x]),
         ActionAnswer(xs, action, value, o)
  PROVE  ActionAnswer(xs, action, value, p)
<1>1. ASSUME NEW x \in xs, NEW result, Result(x, action, result, o[x]) PROVE Result(x, action, result, p[x])
  BY <1>1 DEF Grown, Result
<1> QED
  BY <1>1 DEF ActionAnswer
-----------------------------------------------------------------------------
(***************************************************************************)
(* What the results do to an entry.                                        *)
(***************************************************************************)
\* How an entry goes on while an action on it is under way: its submission ends once, and
\* it comes to its end with a new revision.
Moves(x, y) ==
  /\ x.status \notin Early => y.status \notin Early
  /\ x.revision \in Nat /\ y.revision \in Nat /\ x.revision <= y.revision
  /\ x.revision = y.revision /\ y.status \in Shown => x.status \in Shown

\* A shown end stays, but for the acknowledged end of an order that filled.
Stays(e, x, y, o) ==
  x.status \in Shown => \/ y.status = x.status
                        \/ Acked(e, x) /\ o["order"] = "FILLED" /\ y.status = "FILLED"

Onward(e, x, y, o) == Moves(x, y) /\ Stays(e, x, y, o)

LEMMA Unmoved ==
  ASSUME NEW e, NEW x, NEW y, NEW o, x.revision \in Nat, y.revision = x.revision, y.status = x.status
  PROVE  Onward(e, x, y, o)
  BY DEF Onward, Moves, Stays

\* x is the same but for the action on it.
LEMMA ActionChanges ==
  ASSUME NEW e, NEW x, NEW o, Good(e, x, o), NEW action \in Actions
  PROVE  LET y == [x EXCEPT !.action = action] IN
         /\ Good(e, y, o) /\ y.status = x.status /\ y.identified = x.identified
         /\ x.revision \in Nat /\ y.revision = x.revision
<1> DEFINE y == [x EXCEPT !.action = action]
<1>1. /\ y \in EntryOf(e) /\ y.status = x.status /\ y.known = x.known /\ y.identified = x.identified
      /\ x.revision \in Nat /\ y.revision = x.revision
  BY DEF Good, EntryOf
<1> QED
  BY <1>1 DEF Good, Acked

LEMMA StatusChanges ==
  ASSUME NEW e, NEW x \in EntryOf(e), NEW status \in EntryStatuses
  PROVE  LET y == WithStatus(x, status) IN
         /\ y \in EntryOf(e) /\ y.status = status /\ y.known = x.known /\ y.identified = x.identified
         /\ x.revision \in Nat /\ y.revision = x.revision + 1
<1> DEFINE z == [x EXCEPT !.status = status]
<1>1. /\ z \in EntryOf(e) /\ z.status = status /\ z.known = x.known /\ z.identified = x.identified
      /\ x.revision \in Nat /\ z.revision = x.revision
  BY DEF EntryOf
<1> HIDE DEF z
<1>2. Revised(z) \in EntryOf(e) /\ Revised(z).status = status /\ Revised(z).known = x.known
      /\ Revised(z).identified = x.identified /\ Revised(z).revision = x.revision + 1
  BY <1>1 DEF EntryOf, Revised
<1> QED
  BY <1>1, <1>2 DEF WithStatus, z

\* Another status, of an entry without an end, that is no end.
LEMMA MovesOn ==
  ASSUME NEW e, NEW x, NEW o, Good(e, x, o), x.status \notin Shown, NEW status \in EntryStatuses \ Shown
  PROVE  Good(e, WithStatus(x, status), o)
<1>1. x \in EntryOf(e) /\ \A l \in Legs(e) : x.known[l] # "ACKNOWLEDGED"
  BY DEF Good, Shown
<1> QED
  BY <1>1, StatusChanges DEF Good, Shown

LEMMA AppliedGood ==
  ASSUME NEW e, NEW x, NEW o, Good(e, x, o), NEW action, NEW result, Result(e, action, result, o),
         action = "CANCELLING" => x.status \notin Shown
  PROVE  /\ Good(e, Applied(x, result), o) /\ Onward(e, x, Applied(x, result), o)
         /\ Applied(x, result).identified = x.identified
<1> DEFINE known == Refreshed(x, result)
           status == EndOf(known, x.status)
           y == [x EXCEPT !.known = known]
<1>1. x \in EntryOf(e) /\ DOMAIN x.known = Legs(e) /\ x.revision \in Nat /\ x.status \in EntryStatuses
  BY DEF Good, EntryOf
<1>2. known \in [Legs(e) -> Told]
  BY <1>1 DEF Refreshed, Result, EntryOf, Told, Statuses
<1>3. \A l \in Legs(e) : Ended(known[l]) => o[l] = known[l]
  BY <1>1 DEF Refreshed, Good, Result
<1>4. /\ y \in EntryOf(e) /\ y.status = x.status /\ y.known = known /\ y.identified = x.identified
      /\ y.revision = x.revision
  <2> HIDE DEF known
  <2> QED
    BY <1>1, <1>2 DEF EntryOf
\* An acknowledgement is news of an entry without an end, or was known already.
<1>5. \A l \in Legs(e) : known[l] = "ACKNOWLEDGED" =>
        /\ Exchange = "BYBIT" /\ e \in BasicOrders
        /\ x.status \notin Shown \/ (x.status = "TERMINAL" /\ Acked(e, x))
  <2>1. ASSUME NEW l \in Legs(e), known[l] = "ACKNOWLEDGED"
        PROVE  x.known[l] = "ACKNOWLEDGED" \/ result[l] = "ACKNOWLEDGED"
    BY <1>1, <2>1 DEF Refreshed
  <2> HIDE DEF known
  <2> QED
    BY <2>1 DEF Good, Result, Acked
<1>6. Acked(e, x) => LooksEnded(known["order"])
  BY <1>1, LegFacts, EndedFacts DEF Refreshed, Acked
<1>7. \A l \in Legs(e) : LooksEnded(known[l]) => known[l] \in {"FILLED", "CANCELED", "ACKNOWLEDGED"}
  BY EndedFacts
<1>8. CASE \E l \in Legs(e) : ~LooksEnded(known[l])
  <2>1. status = x.status
    BY <1>2, <1>8 DEF EndOf
  <2> HIDE DEF status, known
  <2>2. ~Acked(e, x)
    BY <1>6, <1>8, LegFacts DEF Acked
  <2>3. \A l \in Legs(e) : known[l] # "ACKNOWLEDGED"
    BY <1>8, LegFacts, EndedFacts, <1>5
  <2>4. Good(e, y, o)
    <3> HIDE DEF y
    <3> QED
      BY <1>3, <1>4, <2>2, <2>3 DEF Good
  <2> HIDE DEF y
  <2>5. Applied(x, result) = x \/ Applied(x, result) = y
    BY <2>1 DEF Applied, status, known, y
  <2> QED
    BY <1>1, <1>4, <2>4, <2>5, Unmoved
<1>9. CASE \A l \in Legs(e) : LooksEnded(known[l])
  <2>1. /\ status \in Shown
        /\ status = "FILLED" <=> \E l \in Legs(e) : known[l] = "FILLED"
    <3> HIDE DEF known
    <3> QED
      BY <1>2, <1>9 DEF EndOf, Shown
  <2> HIDE DEF status, known
  <2>2. \A z : z \in EntryOf(e) /\ z.known = known /\ z.status = status => Good(e, z, o)
    <3> SUFFICES ASSUME NEW z \in EntryOf(e), z.known = known, z.status = status PROVE Good(e, z, o)
      OBVIOUS
    <3>1. CASE status = "FILLED"
      <4>1. \A l \in Legs(e) : known[l] # "ACKNOWLEDGED"
        BY <1>5, <2>1, <3>1, LegFacts
      <4>2. \A l \in Legs(e) : Ended(known[l]) /\ o[l] = known[l]
        BY <1>3, <1>7, <1>9, <4>1, EndedFacts
      <4> QED
        BY <2>1, <3>1, <4>1, <4>2 DEF Good
    <3>2. CASE status = "TERMINAL"
      <4>1. \A l \in Legs(e) : known[l] = "ACKNOWLEDGED" => Acked(e, z)
        BY <1>5, LegFacts DEF Acked
      <4>2. \A l \in Legs(e) : known[l] # "ACKNOWLEDGED" => known[l] = "CANCELED" /\ o[l] = "CANCELED"
        <5> SUFFICES ASSUME NEW l \in Legs(e), known[l] # "ACKNOWLEDGED"
                     PROVE  known[l] = "CANCELED" /\ o[l] = "CANCELED"
          OBVIOUS
        <5>1. known[l] # "FILLED"
          BY <2>1, <3>2
        <5>2. known[l] = "CANCELED"
          BY <1>7, <1>9, <5>1
        <5> QED
          BY <1>3, <5>2, EndedFacts
      <4> QED
        BY <1>3, <3>2, <4>1, <4>2 DEF Good
    <3> QED
      BY <2>1, <3>1, <3>2 DEF Shown
  <2>3. \A z : z.status = status => Stays(e, x, z, o)
    <3>1. CASE x.status = "FILLED"
      <4>1. \A l \in Legs(e) : known[l] # "ACKNOWLEDGED"
        BY <1>5, <3>1 DEF Shown
      <4>2. \A l \in Legs(e) : Ended(known[l]) /\ o[l] = known[l]
        BY <1>3, <1>7, <1>9, <4>1, EndedFacts
      <4>3. status = "FILLED"
        BY <2>1, <3>1, <4>2 DEF Good
      <4> QED
        BY <3>1, <4>3 DEF Stays
    <3>2. CASE x.status = "TERMINAL" /\ status = "FILLED"
      <4>1. PICK l \in Legs(e) : known[l] = "FILLED" /\ o[l] = "FILLED"
        BY <1>3, <2>1, <3>2, EndedFacts
      <4>2. Acked(e, x)
        BY <3>2, <4>1 DEF Good
      <4>3. o["order"] = "FILLED"
        BY <4>1, <4>2, LegFacts DEF Acked
      <4> QED
        BY <3>2, <4>2, <4>3 DEF Stays
    <3> QED
      BY <2>1, <3>1, <3>2 DEF Stays, Shown
  <2>4. CASE status = x.status
    <3>1. Good(e, y, o)
      BY <1>4, <2>2, <2>4
    <3> HIDE DEF y
    <3>2. Applied(x, result) = x \/ Applied(x, result) = y
      BY <2>4 DEF Applied, status, known, y
    <3> QED
      BY <1>1, <1>4, <3>1, <3>2, Unmoved
  <2>5. CASE status # x.status
    <3> DEFINE z == WithStatus(y, status)
    <3>1. z \in EntryOf(e) /\ z.status = status /\ z.known = known /\ z.identified = x.identified
          /\ z.revision = x.revision + 1
      <4> HIDE DEF y
      <4>1. status \in EntryStatuses
        BY <2>1 DEF EntryStatuses
      <4> QED
        BY <1>4, <4>1, StatusChanges
    <3>2. Applied(x, result) = x \/ Applied(x, result) = z
      BY <2>5 DEF Applied, status, known
    <3> HIDE DEF z
    <3>3. Moves(x, z)
      BY <1>1, <2>1, <3>1 DEF Moves, Shown, Early
    <3>4. Good(e, z, o) /\ Onward(e, x, z, o)
      BY <2>2, <2>3, <3>1, <3>3 DEF Onward
    <3> QED
      BY <1>1, <3>1, <3>2, <3>4, Unmoved
  <2> QED
    BY <2>4, <2>5
<1> QED
  BY <1>8, <1>9

LEMMA FinishedGood ==
  ASSUME NEW e, NEW x, NEW o, Good(e, x, o), NEW action, NEW revision, NEW result, Result(e, action, result, o),
         StillOpen(action, revision, x)
  PROVE  LET y == Finished(x, action, revision, result) IN
         Good(e, y, o) /\ Onward(e, x, y, o) /\ y.identified = x.identified
<1>1. "NONE" \in Actions
  BY DEF Actions
<1>2. \A z : Good(e, z, o) => /\ Good(e, finishEntryAction(z), o) /\ finishEntryAction(z).status = z.status
                              /\ finishEntryAction(z).identified = z.identified
                              /\ z.revision \in Nat /\ finishEntryAction(z).revision = z.revision
  BY <1>1, ActionChanges DEF finishEntryAction
<1>3. CASE isEntryActionCurrent(x, revision, action)
  <2> DEFINE z == Applied(x, result)
  <2>1. action = "CANCELLING" => x.status \notin Shown
    BY <1>3 DEF isEntryActionCurrent, StillOpen
  <2>2. Good(e, z, o) /\ Onward(e, x, z, o) /\ z.identified = x.identified
    BY <2>1, AppliedGood
  <2>3. Finished(x, action, revision, result) = finishEntryAction(z)
    BY <1>3 DEF Finished
  <2> HIDE DEF z
  <2>4. Onward(e, x, finishEntryAction(z), o)
    BY <1>2, <2>2 DEF Onward, Moves, Stays
  <2> QED
    BY <1>2, <2>2, <2>3, <2>4
<1>4. CASE ~isEntryActionCurrent(x, revision, action)
  <2>1. \/ Finished(x, action, revision, result) = finishEntryAction(x)
        \/ Finished(x, action, revision, result) = x
    BY <1>4 DEF Finished, finishPairAction
  <2> QED
    BY <1>2, <2>1, Unmoved
<1> QED
  BY <1>3, <1>4

LEMMA FailedGood ==
  ASSUME NEW e, NEW x, NEW o, Good(e, x, o), NEW action
  PROVE  LET y == failEntryAction(x, action) IN
         Good(e, y, o) /\ Onward(e, x, y, o) /\ y.identified = x.identified
<1>1. "NONE" \in Actions /\ x.revision \in Nat
  BY DEF Actions, Good, EntryOf
<1> DEFINE z == [x EXCEPT !.action = "NONE"]
<1>2. Good(e, z, o) /\ z.status = x.status /\ z.identified = x.identified /\ z.revision = x.revision
  BY <1>1, ActionChanges
<1>3. failEntryAction(x, action) = z \/ failEntryAction(x, action) = x
  BY DEF failEntryAction, finishPairAction, finishEntryAction
<1> HIDE DEF z
<1> QED
  BY <1>1, <1>2, <1>3, Unmoved
-----------------------------------------------------------------------------
(***************************************************************************)
(* What a step leaves alone.                                               *)
(***************************************************************************)
OrdersGrow == \A e \in Entries : Grown(e, order[e], order'[e])

\* Of an entry whose submission does not move.
Untouched(e) ==
  /\ \A l \in Legs(e) : order[e][l] = "none" => order'[e][l] = "none"
  /\ \/ entry'[e].status = entry[e].status /\ entry'[e].identified = entry[e].identified
     \/ entry[e].status \notin Early /\ entry'[e].status \notin Early

\* The tasks of the other slots may rely on what they relied on.
LEMMA OtherTasks ==
  ASSUME IInv, NEW s, Others(s), OrdersGrow,
         \A e \in Entries : Submission(e) # s => Untouched(e),
         \A e \in Entries : Moves(entry[e], entry'[e]),
         NEW e \in Entries
  PROVE  /\ Submission(e) # s =>
              SubmissionFits(e, worker'[Submission(e)], outcome'[Submission(e)], entry'[e], order'[e])
         /\ Wait(e) # s => WaitFits(e, worker'[Wait(e)], outcome'[Wait(e)], order'[e])
         /\ Action(e) # s /\ request'[e] = request[e] =>
              ActionFits(e, worker'[Action(e)], outcome'[Action(e)], request'[e], entry', order')
<1>1. /\ SubmissionFits(e, worker[Submission(e)], outcome[Submission(e)], entry[e], order[e])
      /\ WaitFits(e, worker[Wait(e)], outcome[Wait(e)], order[e])
      /\ ActionFits(e, worker[Action(e)], outcome[Action(e)], request[e], entry, order)
      /\ Grown(e, order[e], order'[e])
  BY DEF IInv, TasksTrue, OrdersGrow
<1>2. ASSUME Submission(e) # s
      PROVE  SubmissionFits(e, worker'[Submission(e)], outcome'[Submission(e)], entry'[e], order'[e])
  <2>1. worker'[Submission(e)] = worker[Submission(e)] /\ outcome'[Submission(e)] = outcome[Submission(e)] /\ Untouched(e)
    BY <1>2, SlotFacts DEF Others
  <2>2. CASE entry[e].status \notin Early /\ entry'[e].status \notin Early
    BY <1>1, <2>1, <2>2 DEF SubmissionFits, Early
  <2>3. CASE entry'[e].status = entry[e].status /\ entry'[e].identified = entry[e].identified
    BY <1>1, <2>1, <2>3, AnswersGrow DEF SubmissionFits, Untouched
  <2> QED
    BY <2>1, <2>2, <2>3 DEF Untouched
<1>3. ASSUME Wait(e) # s PROVE WaitFits(e, worker'[Wait(e)], outcome'[Wait(e)], order'[e])
  <2>1. worker'[Wait(e)] = worker[Wait(e)] /\ outcome'[Wait(e)] = outcome[Wait(e)]
    BY <1>3, SlotFacts DEF Others
  <2> QED
    BY <1>1, <2>1, AnswersGrow DEF WaitFits
<1>4. ASSUME Action(e) # s, request'[e] = request[e]
      PROVE  ActionFits(e, worker'[Action(e)], outcome'[Action(e)], request'[e], entry', order')
  <2> DEFINE r == request[e]
  <2>1. worker'[Action(e)] = worker[Action(e)] /\ outcome'[Action(e)] = outcome[Action(e)]
    BY <1>4, SlotFacts DEF Others
  <2>2. \A x \in DOMAIN r.revisions :
          /\ x \in Entries /\ entry'[x].status \notin Early
          /\ r.revisions[x] \in Nat /\ r.revisions[x] <= entry'[x].revision
          /\ StillOpen(r.action, r.revisions[x], entry'[x])
    <3> SUFFICES ASSUME NEW x \in DOMAIN r.revisions
                 PROVE  /\ x \in Entries /\ entry'[x].status \notin Early
                        /\ r.revisions[x] \in Nat /\ r.revisions[x] <= entry'[x].revision
                        /\ StillOpen(r.action, r.revisions[x], entry'[x])
      OBVIOUS
    <3>1. /\ x \in Entries /\ entry[x].status \notin Early
          /\ r.revisions[x] \in Nat /\ r.revisions[x] <= entry[x].revision
          /\ StillOpen(r.action, r.revisions[x], entry[x])
      BY <1>1 DEF ActionFits
    <3>2. Moves(entry[x], entry'[x])
      BY <3>1
    <3> QED
      BY <3>1, <3>2 DEF Moves, StillOpen
  <2>3. ActionAnswer(DOMAIN r.revisions, r.action, outcome[Action(e)], order)
        => ActionAnswer(DOMAIN r.revisions, r.action, outcome[Action(e)], order')
    <3>1. \A x \in DOMAIN request[e].revisions : Grown(x, order[x], order'[x])
      BY <2>2 DEF OrdersGrow
    <3> QED
      BY <3>1, ActionAnswerGrows
  <2> QED
    BY <1>1, <1>4, <2>1, <2>2, <2>3 DEF ActionFits
<1> QED
  BY <1>2, <1>3, <1>4

\* The task of slot s moves and finds what it relies on.
LEMMA TasksStep ==
  ASSUME IInv, NEW s, Others(s), OrdersGrow,
         \A e \in Entries : Submission(e) # s => Untouched(e),
         \A e \in Entries : Moves(entry[e], entry'[e]),
         \A e \in Entries : Submission(e) = s =>
           SubmissionFits(e, worker'[Submission(e)], outcome'[Submission(e)], entry'[e], order'[e]),
         \A e \in Entries : Wait(e) = s => WaitFits(e, worker'[Wait(e)], outcome'[Wait(e)], order'[e]),
         \A e \in Entries : Action(e) = s \/ request'[e] # request[e] =>
           ActionFits(e, worker'[Action(e)], outcome'[Action(e)], request'[e], entry', order')
  PROVE  TasksTrue'
<1>1. ASSUME NEW e \in Entries
      PROVE  /\ SubmissionFits(e, worker'[Submission(e)], outcome'[Submission(e)], entry'[e], order'[e])
             /\ WaitFits(e, worker'[Wait(e)], outcome'[Wait(e)], order'[e])
             /\ ActionFits(e, worker'[Action(e)], outcome'[Action(e)], request'[e], entry', order')
  <2>1. /\ Submission(e) # s =>
             SubmissionFits(e, worker'[Submission(e)], outcome'[Submission(e)], entry'[e], order'[e])
        /\ Wait(e) # s => WaitFits(e, worker'[Wait(e)], outcome'[Wait(e)], order'[e])
        /\ Action(e) # s /\ request'[e] = request[e] =>
             ActionFits(e, worker'[Action(e)], outcome'[Action(e)], request'[e], entry', order')
    BY OtherTasks
  <2> QED
    BY <2>1
<1> QED
  BY <1>1 DEF TasksTrue

LEMMA SameOrders ==
  ASSUME OrderType, UNCHANGED order
  PROVE  /\ OrderType' /\ OrdersGrow
         /\ \A e \in Entries : \A l \in Legs(e) : order[e][l] = "none" => order'[e][l] = "none"
  BY DEF OrderType, OrdersGrow, Grown

\* The entries that do not change.
LEMMA SameEntries ==
  ASSUME IInv, OrdersGrow
  PROVE  \A e \in Entries : entry'[e] = entry[e] =>
           Good(e, entry'[e], order'[e]) /\ Onward(e, entry[e], entry'[e], order[e])
<1>1. \A e \in Entries : Good(e, entry[e], order[e]) /\ entry[e].revision \in Nat
  BY DEF IInv, EntriesGood, Good, EntryOf
<1> QED
  BY <1>1, GoodGrows, Unmoved DEF OrdersGrow

EntriesMove == \A e \in Entries : Onward(e, entry[e], entry'[e], order[e])

\* Only the entry e changes.
LEMMA EntryChanges ==
  ASSUME RequestType, NEW e \in Entries, NEW x, Change(e, x), UNCHANGED request
  PROVE  /\ RequestType' /\ entry'[e] = x
         /\ \A y \in Entries : y # e => entry'[y] = entry[y]
  BY DEF RequestType, Change
-----------------------------------------------------------------------------
(***************************************************************************)
(* The user.                                                               *)
(***************************************************************************)
LEMMA PlaceStep ==
  ASSUME IInv, NEW e \in Entries, Place(e)
  PROVE  IInv' /\ EntriesMove
<1> DEFINE s == Submission(e)
<1>1. s \in Slots /\ Starts(s, "place") /\ UNCHANGED <<stopping, loop>> /\ UNCHANGED order /\ UNCHANGED request
  BY SlotFacts DEF Place, Submission
<1>2. TaskType' /\ LoopTrue' /\ Others(s) /\ worker'[s] = "place"
  BY <1>1, TaskStarts DEF IInv
<1>3. OrderType' /\ OrdersGrow /\ \A y \in Entries : \A l \in Legs(y) : order[y][l] = "none" => order'[y][l] = "none"
  BY <1>1, SameOrders DEF IInv
<1>4. /\ RequestType' /\ entry'[e] = WithStatus(entry[e], "SUBMITTING")
      /\ \A y \in Entries : y # e => entry'[y] = entry[y]
  BY <1>1, EntryChanges DEF IInv, Place
<1>5. /\ Good(e, entry[e], order[e]) /\ entry[e].status = "absent" /\ entry[e] \in EntryOf(e)
      /\ SubmissionFits(e, worker[s], outcome[s], entry[e], order[e])
  BY DEF IInv, EntriesGood, TasksTrue, Good, Place
<1>6. "SUBMITTING" \in EntryStatuses \ Shown
  BY DEF EntryStatuses, Early, Shown
<1>7. /\ Good(e, entry'[e], order'[e]) /\ entry'[e].status = "SUBMITTING" /\ entry'[e].identified = entry[e].identified
      /\ entry[e].revision \in Nat /\ entry'[e].revision = entry[e].revision + 1
  BY <1>1, <1>4, <1>5, <1>6, MovesOn, StatusChanges DEF Shown
<1>8. EntriesGood'
  BY <1>3, <1>4, <1>7, SameEntries DEF EntriesGood
<1>9. SubmissionFits(e, worker'[s], outcome'[s], entry'[e], order'[e])
  BY <1>1, <1>2, <1>5, <1>7 DEF SubmissionFits, Early
<1>10. \A y \in Entries : Submission(y) # s => Untouched(y)
  BY <1>3, <1>4, SlotFacts DEF Untouched
<1>11. EntriesMove
  <2>1. Onward(e, entry[e], entry'[e], order[e])
    BY <1>5, <1>7 DEF Onward, Moves, Stays, Early, Shown
  <2> QED
    BY <1>3, <1>4, <2>1, SameEntries DEF EntriesMove
<1>12. TasksTrue'
  <2>1. ASSUME NEW y \in Entries
        PROVE  /\ Submission(y) # s =>
                    SubmissionFits(y, worker'[Submission(y)], outcome'[Submission(y)], entry'[y], order'[y])
               /\ WaitFits(y, worker'[Wait(y)], outcome'[Wait(y)], order'[y])
               /\ ActionFits(y, worker'[Action(y)], outcome'[Action(y)], request'[y], entry', order')
    BY <1>1, <1>2, <1>3, <1>10, <1>11, OtherTasks, SlotFacts DEF EntriesMove, Onward
  <2> QED
    BY <1>9, <2>1, SlotFacts DEF TasksTrue
<1> QED
  BY <1>2, <1>3, <1>4, <1>8, <1>11, <1>12 DEF IInv

LEMMA RequestStep ==
  ASSUME IInv, NEW e \in Entries, NEW first \in {"read", "cancel"}, NEW action \in Actions, NEW es \in SUBSET Entries,
         Starts(<<e, "action">>, first), Request(e, action, es),
         \A x \in es : entry[x].status \notin Early,
         action = "CANCELLING" => es = {e} /\ entry[e].status \notin Shown
  PROVE  IInv' /\ EntriesMove
<1> DEFINE s == Action(e)
<1>1. s \in Slots /\ Starts(s, first) /\ UNCHANGED <<stopping, loop>> /\ UNCHANGED order
  BY SlotFacts DEF Action, Request
<1>2. TaskType' /\ LoopTrue' /\ Others(s) /\ worker'[s] = first
  BY <1>1, TaskStarts DEF IInv
<1>3. OrderType' /\ OrdersGrow /\ \A y \in Entries : \A l \in Legs(y) : order[y][l] = "none" => order'[y][l] = "none"
  BY <1>1, SameOrders DEF IInv
<1>4. /\ \A y \in Entries : entry'[y] = entry[y] \/ entry'[y] = [entry[y] EXCEPT !.action = action]
      /\ entry' = [y \in Entries |-> entry'[y]]
  BY DEF Request
<1>5. \A y \in Entries : /\ Good(y, entry'[y], order'[y])
                         /\ entry'[y].status = entry[y].status /\ entry'[y].identified = entry[y].identified
                         /\ entry[y].revision \in Nat /\ entry'[y].revision = entry[y].revision
  <2> SUFFICES ASSUME NEW y \in Entries
               PROVE  /\ Good(y, entry'[y], order'[y])
                      /\ entry'[y].status = entry[y].status /\ entry'[y].identified = entry[y].identified
                      /\ entry[y].revision \in Nat /\ entry'[y].revision = entry[y].revision
    OBVIOUS
  <2> DEFINE x == [entry[y] EXCEPT !.action = action]
  <2>1. Good(y, entry[y], order[y]) /\ order'[y] = order[y]
    BY <1>1 DEF IInv, EntriesGood
  <2>2. /\ Good(y, x, order[y]) /\ x.status = entry[y].status /\ x.identified = entry[y].identified
        /\ entry[y].revision \in Nat /\ x.revision = entry[y].revision
    BY <2>1, ActionChanges
  <2> HIDE DEF x
  <2>3. entry'[y] = entry[y] \/ entry'[y] = x
    BY <1>4 DEF x
  <2> QED
    BY <2>1, <2>2, <2>3
<1>6. /\ request'[e].action = action /\ DOMAIN request'[e].revisions = es
      /\ \A x \in es : request'[e].revisions[x] = entry[x].revision
      /\ \A y \in Entries : y # e => request'[y] = request[y]
      /\ request' = [y \in Entries |-> request'[y]]
  BY DEF Request, IInv, RequestType
<1>7. RequestType'
  BY <1>4, <1>6 DEF RequestType
<1>8. ActionFits(e, worker'[s], outcome'[s], request'[e], entry', order')
  <2>1. \A x \in es : /\ entry'[x].status \notin Early
                      /\ request'[e].revisions[x] \in Nat /\ request'[e].revisions[x] <= entry'[x].revision
    BY <1>5, <1>6
  <2>2. \A x \in es : StillOpen(action, request'[e].revisions[x], entry'[x])
    BY <1>5 DEF StillOpen
  <2> QED
    BY <1>2, <1>6, <2>1, <2>2 DEF ActionFits
<1>9. EntriesMove
  BY <1>5, Unmoved DEF EntriesMove
<1>10. TasksTrue'
  <2>1. \A y \in Entries : Untouched(y)
    BY <1>3, <1>5 DEF Untouched
  <2>2. \A y \in Entries : /\ Submission(y) # s /\ Wait(y) # s
                           /\ Action(y) = s \/ request'[y] # request[y] => y = e
    BY <1>6, SlotFacts
  <2> QED
    BY <1>2, <1>3, <1>8, <1>9, <2>1, <2>2, TasksStep DEF EntriesMove, Onward
<1>11. EntriesGood'
  BY <1>5 DEF EntriesGood
<1> QED
  BY <1>2, <1>3, <1>7, <1>9, <1>10, <1>11 DEF IInv

LEMMA UserStep ==
  ASSUME IInv, NEW e \in Entries, Place(e) \/ refreshOrder(e) \/ cancelOrder(e) \/ cancelAllOpenOrders(e)
  PROVE  IInv' /\ EntriesMove
<1>1. \A x \in Entries : entry[x].identified => entry[x].status \notin Early
  BY DEF IInv, TasksTrue, SubmissionFits
<1>2. "REFRESHING" \in Actions /\ "CANCELLING" \in Actions /\ "CANCELLING_ALL" \in Actions
  BY DEF Actions
<1>3. CASE Place(e)
  BY <1>3, PlaceStep
<1>4. CASE refreshOrder(e)
  <2>1. Starts(<<e, "action">>, "read") /\ Request(e, "REFRESHING", {e}) /\ \A x \in {e} : entry[x].status \notin Early
    BY <1>1, <1>4 DEF refreshOrder, HasRequest
  <2> QED
    BY <1>2, <2>1, RequestStep
<1>5. CASE cancelOrder(e)
  <2>1. Starts(<<e, "action">>, "cancel") /\ Request(e, "CANCELLING", {e}) /\ \A x \in {e} : entry[x].status \notin Early
    BY <1>1, <1>5 DEF cancelOrder, HasRequest
  <2>2. entry[e].status \notin Shown
    BY <1>5 DEF cancelOrder, Shown
  <2> QED
    BY <1>2, <2>1, <2>2, RequestStep
<1>6. CASE cancelAllOpenOrders(e)
  <2>1. Starts(<<e, "action">>, "cancel") /\ Request(e, "CANCELLING_ALL", Listed) /\ \A x \in Listed : entry[x].status \notin Early
    BY <1>6 DEF cancelAllOpenOrders, Listed, Early
  <2>2. Listed \in SUBSET Entries
    BY DEF Listed
  <2> QED
    BY <1>2, <2>1, <2>2, RequestStep
<1> QED
  BY <1>3, <1>4, <1>5, <1>6
-----------------------------------------------------------------------------
(***************************************************************************)
(* The exchange and the works.                                             *)
(***************************************************************************)
\* The orders of some entries go on, and nothing else.
LEMMA OrderEndsStep ==
  ASSUME IInv, OrderEnds
  PROVE  IInv' /\ EntriesMove
<1>1. PICK e \in Entries : \E l \in Legs(e), status \in {"FILLED", "CANCELED"} :
        order[e][l] = "NEW" /\ order' = [order EXCEPT ![e][l] = status]
  BY DEF OrderEnds
<1>2. PICK l \in Legs(e), status \in {"FILLED", "CANCELED"} :
        order[e][l] = "NEW" /\ order' = [order EXCEPT ![e][l] = status]
  BY <1>1
<1>3. UNCHANGED <<executorVars, sessionVars>>
  BY DEF OrderEnds
<1>4. OrderType /\ order' = [y \in Entries |-> IF y = e THEN [order[e] EXCEPT ![l] = status] ELSE order[y]]
  BY <1>2 DEF IInv, OrderType
<1>5. /\ order[e] \in [Legs(e) -> Statuses] /\ order'[e] \in [Legs(e) -> Statuses]
      /\ \A k \in Legs(e) : order[e][k] # "NEW" => order'[e][k] = order[e][k]
      /\ \A y \in Entries : y # e => order'[y] = order[y]
  BY <1>2, <1>4 DEF OrderType, Statuses
<1>6. OrderType'
  BY <1>4, <1>5 DEF OrderType
<1>7. OrdersGrow /\ \A y \in Entries : \A k \in Legs(y) : order[y][k] = "none" => order'[y][k] = "none"
  BY <1>4, <1>5, EndedFacts DEF OrdersGrow, Grown, OrderType
<1>8. TaskType' /\ LoopTrue' /\ RequestType' /\ UNCHANGED <<worker, outcome, request, entry>>
  BY <1>3 DEF executorVars, taskVars, sessionVars, IInv, TaskType, LoopTrue, RequestType
<1>9. EntriesGood' /\ EntriesMove /\ \A y \in Entries : Moves(entry[y], entry'[y])
  BY <1>7, <1>8, SameEntries DEF EntriesGood, EntriesMove, Onward
<1>10. TasksTrue'
  <2>1. \A s : Others(s)
    BY <1>8 DEF Others
  <2>2. \A y \in Entries : Untouched(y)
    BY <1>7, <1>8 DEF Untouched
  <2>3. ASSUME NEW y \in Entries
        PROVE  /\ SubmissionFits(y, worker'[Submission(y)], outcome'[Submission(y)], entry'[y], order'[y])
               /\ WaitFits(y, worker'[Wait(y)], outcome'[Wait(y)], order'[y])
               /\ ActionFits(y, worker'[Action(y)], outcome'[Action(y)], request'[y], entry', order')
    <3>1. SubmissionFits(y, worker'[Submission(y)], outcome'[Submission(y)], entry'[y], order'[y])
      <4>1. Others(Wait(y)) /\ Submission(y) # Wait(y)
        BY <2>1, SlotFacts
      <4> QED
        BY <1>7, <1>8, <1>9, <2>2, <4>1, OtherTasks
    <3>2. /\ WaitFits(y, worker'[Wait(y)], outcome'[Wait(y)], order'[y])
          /\ ActionFits(y, worker'[Action(y)], outcome'[Action(y)], request'[y], entry', order')
      <4>1. Others(Submission(y)) /\ Submission(y) # Wait(y) /\ Submission(y) # Action(y)
        BY <2>1, SlotFacts
      <4> QED
        BY <1>7, <1>8, <1>9, <2>2, <4>1, OtherTasks
    <3> QED
      BY <3>1, <3>2
  <2> QED
    BY <2>3 DEF TasksTrue
<1> QED
  BY <1>6, <1>8, <1>9, <1>10 DEF IInv

\* The work of slot s returns a value that may be relied on.
LEMMA WorkStep ==
  ASSUME IInv, NEW s \in Slots, NEW from \in {"place", "await", "read", "cancel"}, NEW value,
         WorkReturns(s, from, value), UNCHANGED <<stopping, sessionVars>>, OrderType', OrdersGrow,
         \A e \in Entries : Submission(e) # s => \A l \in Legs(e) : order[e][l] = "none" => order'[e][l] = "none",
         \A e \in Entries : Submission(e) = s => SubmissionAnswer(e, value, order'[e]),
         \A e \in Entries : Wait(e) = s => WaitAnswer(e, value, order'[e]),
         \A e \in Entries : Action(e) = s => ActionAnswer(DOMAIN request[e].revisions, request[e].action, value, order')
  PROVE  IInv' /\ EntriesMove
<1>1. TaskType' /\ LoopTrue' /\ Others(s) /\ worker[s] = from /\ worker'[s] = "exited" /\ outcome'[s] = value
  BY TaskReturns DEF IInv
<1>2. entry' = entry /\ request' = request
  BY DEF sessionVars
<1>3. RequestType'
  BY <1>2 DEF IInv, RequestType
<1>4. EntriesGood' /\ EntriesMove /\ \A e \in Entries : Moves(entry[e], entry'[e])
  BY <1>2, SameEntries DEF EntriesGood, EntriesMove, Onward
<1>5. TasksTrue'
  <2>1. \A e \in Entries : Submission(e) # s => Untouched(e)
    BY <1>2 DEF Untouched
  <2>2. ASSUME NEW e \in Entries, Submission(e) = s
        PROVE  SubmissionFits(e, worker'[Submission(e)], outcome'[Submission(e)], entry'[e], order'[e])
    <3>1. SubmissionFits(e, worker[s], outcome[s], entry[e], order[e])
      BY <2>2 DEF IInv, TasksTrue
    <3> QED
      BY <1>1, <1>2, <2>2, <3>1 DEF SubmissionFits, Early
  <2>3. ASSUME NEW e \in Entries, Wait(e) = s PROVE WaitFits(e, worker'[Wait(e)], outcome'[Wait(e)], order'[e])
    BY <1>1, <2>3 DEF WaitFits
  <2>4. ASSUME NEW e \in Entries, Action(e) = s \/ request'[e] # request[e]
        PROVE  ActionFits(e, worker'[Action(e)], outcome'[Action(e)], request'[e], entry', order')
    <3>1. ActionFits(e, worker[s], outcome[s], request[e], entry, order) /\ Action(e) = s
      BY <1>2, <2>4 DEF IInv, TasksTrue
    <3> QED
      BY <1>1, <1>2, <2>4, <3>1 DEF ActionFits
  <2> QED
    BY <1>1, <1>4, <2>1, <2>2, <2>3, <2>4, TasksStep
<1> QED
  BY <1>1, <1>3, <1>4, <1>5 DEF IInv

LEMMA SubmissionWorkStep ==
  ASSUME IInv, NEW e \in Entries, SubmissionWork(e)
  PROVE  IInv' /\ EntriesMove
<1> DEFINE s == Submission(e)
<1>1. s \in Slots /\ UNCHANGED <<stopping, sessionVars>>
  BY SlotFacts DEF SubmissionWork
<1>2. \A y \in Entries : Wait(y) # s /\ Action(y) # s /\ (Submission(y) = s <=> y = e)
  BY SlotFacts
<1>3. CASE WorkReturns(s, "place", Failure) /\ UNCHANGED order
  <2>1. OrderType' /\ OrdersGrow /\ \A y \in Entries : \A l \in Legs(y) : order[y][l] = "none" => order'[y][l] = "none"
    BY <1>3, SameOrders DEF IInv
  <2>2. \A y \in Entries : SubmissionAnswer(y, Failure, order'[y])
    BY DEF SubmissionAnswer
  <2> QED
    BY <1>1, <1>2, <1>3, <2>1, <2>2, WorkStep
<1>4. ASSUME NEW first \in {"NEW", "FILLED"}, NEW identified \in BOOLEAN,
             order' = [order EXCEPT ![e] = [l \in Legs(e) |-> first]],
             WorkReturns(s, "place", Success([known |-> Accepted(e, order'[e]), identified |-> identified]))
      PROVE  IInv' /\ EntriesMove
  <2> DEFINE known == [l \in Legs(e) |-> first]
  <2>1. order'[e] = known /\ known \in [Legs(e) -> Statuses] /\ \A y \in Entries : y # e => order'[y] = order[y]
    BY <1>4 DEF IInv, OrderType, Statuses
  <2>2. OrderType'
    <3>1. order' = [y \in Entries |-> IF y = e THEN known ELSE order[y]]
      BY <1>4 DEF IInv, OrderType
    <3> HIDE DEF known
    <3> QED
      BY <2>1, <3>1 DEF IInv, OrderType
  <2>3. worker[s] = "place"
    BY <1>4 DEF WorkReturns, WorkGoes
  <2>4. \A l \in Legs(e) : order[e][l] = "none"
    BY <2>3 DEF IInv, TasksTrue, SubmissionFits
  <2>5. OrdersGrow
    BY <2>1, <2>4, EndedFacts DEF OrdersGrow, Grown, IInv, OrderType
  <2>6. SubmissionAnswer(e, Success([known |-> Accepted(e, order'[e]), identified |-> identified]), order'[e])
    <3> HIDE DEF known
    <3> DEFINE accepted == Accepted(e, order'[e])
    <3>1. /\ accepted \in [Legs(e) -> Statuses]
          /\ \A l \in Legs(e) : accepted[l] = "NEW" \/ accepted[l] = order'[e][l]
      BY <2>1 DEF Accepted, Statuses
    <3> HIDE DEF accepted
    <3>2. SubmissionAnswer(e, Success([known |-> accepted, identified |-> identified]), order'[e])
      BY <3>1, EndedFacts DEF SubmissionAnswer
    <3> QED
      BY <3>2 DEF accepted
  <2> HIDE DEF known
  <2>7. \E value : WorkReturns(s, "place", value) /\ SubmissionAnswer(e, value, order'[e])
    BY <1>4, <2>6
  <2>8. PICK value : WorkReturns(s, "place", value) /\ SubmissionAnswer(e, value, order'[e])
    BY <2>7
  <2>9. \A y \in Entries : y # e => \A l \in Legs(y) : order[y][l] = "none" => order'[y][l] = "none"
    BY <2>1
  <2> QED
    BY <1>1, <1>2, <2>2, <2>5, <2>8, <2>9, WorkStep
<1> QED
  BY <1>3, <1>4 DEF SubmissionWork, Submission

LEMMA WaitWorkStep ==
  ASSUME IInv, NEW e \in Entries, WaitWork(e)
  PROVE  IInv' /\ EntriesMove
<1> DEFINE s == Wait(e)
<1>1. s \in Slots /\ UNCHANGED <<stopping, sessionVars>> /\ UNCHANGED order
  BY SlotFacts DEF WaitWork
<1>2. \A y \in Entries : Submission(y) # s /\ Action(y) # s /\ (Wait(y) = s <=> y = e)
  BY SlotFacts
<1>3. OrderType' /\ OrdersGrow /\ \A y \in Entries : \A l \in Legs(y) : order[y][l] = "none" => order'[y][l] = "none"
  BY <1>1, SameOrders DEF IInv
<1>4. CASE WorkReturns(s, "await", Failure)
  <2>1. WaitAnswer(e, Failure, order'[e])
    BY DEF WaitAnswer
  <2> QED
    BY <1>1, <1>2, <1>3, <1>4, <2>1, WorkStep
<1>5. CASE FilledAsAwaited(e) /\ WorkReturns(s, "await", Success(order[e]))
  <2>1. order[e] \in [Legs(e) -> Statuses] /\ order'[e] = order[e] /\ \A l \in Legs(e) : Ended(order[e][l])
    BY <1>1, <1>5 DEF IInv, OrderType, FilledAsAwaited
  <2>2. \E l \in Legs(e) : order[e][l] = "FILLED"
    <3>1. Cardinality({l \in Legs(e) : order[e][l] = "FILLED"}) = 1
      BY <1>5 DEF FilledAsAwaited
    <3>2. {l \in Legs(e) : order[e][l] = "FILLED"} # {}
      BY <3>1, FS_EmptySet
    <3> QED
      BY <3>2
  <2>3. WaitAnswer(e, Success(order[e]), order'[e])
    BY <2>1, <2>2 DEF WaitAnswer
  <2> QED
    BY <1>1, <1>2, <1>3, <1>5, <2>3, WorkStep
<1> QED
  BY <1>4, <1>5 DEF WaitWork, Wait

\* The answers to queries, when the orders are as in now.
LEMMA AnswerTrue ==
  ASSUME IInv, NEW e \in Entries, NEW now, \A x \in Entries : now[x] \in [Legs(x) -> Statuses], NEW failed
  PROVE  ActionAnswer(DOMAIN request[e].revisions, request[e].action, Success(Answer(e, now, failed)), now)
<1> DEFINE xs == DOMAIN request[e].revisions
           results == Answer(e, now, failed)
<1>1. \A x \in xs : x \in Entries
  BY DEF IInv, TasksTrue, ActionFits
<1>2. ASSUME NEW x \in xs PROVE Result(x, request[e].action, results[x], now[x])
  <2>1. \A l \in Legs(x) : \/ results[x][l] \in {"none", "error"}
                           \/ results[x][l] = now[x][l]
    BY <1>2 DEF Answer
  <2>2. results[x] = [l \in Legs(x) |-> results[x][l]]
    BY <1>2 DEF Answer
  <2>3. now[x] \in [Legs(x) -> Statuses] /\ "none" \in Statuses /\ "ACKNOWLEDGED" \notin Statuses \cup {"error"}
    BY <1>1, <1>2 DEF Statuses
  <2> HIDE DEF results, xs
  <2>4. \A l \in Legs(x) : results[x][l] \in Told \cup {"error"} /\ results[x][l] # "ACKNOWLEDGED"
    BY <2>1, <2>3 DEF Told
  <2> QED
    BY <2>1, <2>2, <2>4, EndedFacts DEF Result
<1> QED
  BY <1>2 DEF ActionAnswer

LEMMA ReadWorkStep ==
  ASSUME IInv, NEW e \in Entries, ReadWork(e)
  PROVE  IInv' /\ EntriesMove
<1> DEFINE s == Action(e)
<1>1. s \in Slots /\ UNCHANGED <<stopping, sessionVars>> /\ UNCHANGED order
  BY SlotFacts DEF ReadWork
<1>2. \A y \in Entries : Submission(y) # s /\ Wait(y) # s /\ (Action(y) = s <=> y = e)
  BY SlotFacts
<1>3. OrderType' /\ OrdersGrow /\ \A y \in Entries : \A l \in Legs(y) : order[y][l] = "none" => order'[y][l] = "none"
  BY <1>1, SameOrders DEF IInv
<1>4. PICK failed : WorkReturns(s, "read", Success(Answer(e, order, failed)))
  BY DEF ReadWork, Action
<1>5. ActionAnswer(DOMAIN request[e].revisions, request[e].action, Success(Answer(e, order, failed)), order')
  <2>1. \A x \in Entries : order[x] \in [Legs(x) -> Statuses]
    BY DEF IInv, OrderType
  <2> QED
    BY <1>1, <2>1, AnswerTrue
<1>6. PICK value : /\ WorkReturns(s, "read", value)
                   /\ ActionAnswer(DOMAIN request[e].revisions, request[e].action, value, order')
  BY <1>4, <1>5
<1> QED
  BY <1>1, <1>2, <1>3, <1>6, WorkStep

LEMMA CancelWorkStep ==
  ASSUME IInv, NEW e \in Entries, CancelWork(e)
  PROVE  IInv' /\ EntriesMove
<1> DEFINE s == Action(e)
           xs == DOMAIN request[e].revisions
           action == request[e].action
<1>1. s \in Slots /\ UNCHANGED <<stopping, sessionVars>>
  BY SlotFacts DEF CancelWork
<1>2. \A y \in Entries : Submission(y) # s /\ Wait(y) # s /\ (Action(y) = s <=> y = e)
  BY SlotFacts
<1>3. PICK es \in {Entries, {e}} : order' \in {order, Cancelled(es)}
  BY DEF CancelWork
<1>4. \A x \in Entries : /\ order'[x] \in [Legs(x) -> Statuses]
                         /\ \A l \in Legs(x) : order[x][l] # "NEW" => order'[x][l] = order[x][l]
  <2>1. \A x \in Entries : order[x] \in [Legs(x) -> Statuses]
    BY DEF IInv, OrderType
  <2>2. CASE order' = order
    BY <2>1, <2>2
  <2>3. CASE order' = Cancelled(es)
    BY <2>1, <2>3 DEF Cancelled, Statuses
  <2> QED
    BY <1>3, <2>2, <2>3
<1>5. OrderType'
  <2>1. order' = [x \in Entries |-> order'[x]]
    BY <1>3 DEF IInv, OrderType, Cancelled
  <2> QED
    BY <1>4, <2>1 DEF OrderType
<1>6. OrdersGrow /\ \A y \in Entries : \A l \in Legs(y) : order[y][l] = "none" => order'[y][l] = "none"
  BY <1>4, EndedFacts DEF OrdersGrow, Grown, IInv, OrderType
<1>7. \E value : WorkReturns(s, "cancel", value) /\ ActionAnswer(xs, action, value, order')
  <2>1. CASE WorkReturns(s, "cancel", Failure)
    BY <2>1 DEF ActionAnswer
  <2>2. ASSUME NEW failed, WorkReturns(s, "cancel", Success(Answer(e, order', failed)))
        PROVE  \E value : WorkReturns(s, "cancel", value) /\ ActionAnswer(xs, action, value, order')
    <3>1. ActionAnswer(xs, action, Success(Answer(e, order', failed)), order')
      BY <1>4, AnswerTrue
    <3> QED
      BY <2>2, <3>1
  <2>3. CASE /\ action = "CANCELLING" /\ e \in BasicOrders
             /\ WorkReturns(s, "cancel", Success([x \in {e} |-> CancelAnswer(e, order'[e])]))
    <3> DEFINE answer == CancelAnswer(e, order'[e])
    <3>1. xs = {e}
      BY <2>3 DEF IInv, TasksTrue, ActionFits
    <3> HIDE DEF xs
    <3>2. Result(e, action, answer, order'[e])
      <4>1. CASE Exchange = "BYBIT"
        <5>1. answer = [l \in Legs(e) |-> "ACKNOWLEDGED"]
          BY <4>1 DEF CancelAnswer
        <5> HIDE DEF answer
        <5>2. \A l \in Legs(e) : answer[l] = "ACKNOWLEDGED"
          BY <5>1
        <5> QED
          BY <2>3, <4>1, <5>1, <5>2, EndedFacts DEF Result, Told
      <4>2. CASE Exchange # "BYBIT"
        <5>1. answer = order'[e] /\ order'[e] \in [Legs(e) -> Statuses]
          BY <1>4, <4>2 DEF CancelAnswer
        <5> HIDE DEF answer
        <5>2. \A l \in Legs(e) : answer[l] # "ACKNOWLEDGED" /\ answer[l] \in Told
          BY <5>1 DEF Statuses, Told
        <5> QED
          BY <5>1, <5>2 DEF Result
      <4> QED
        BY <4>1, <4>2
    <3> HIDE DEF answer
    <3>3. ActionAnswer(xs, action, Success([x \in {e} |-> answer]), order')
      <4> DEFINE results == [x \in {e} |-> answer]
      <4>1. \A x \in xs : Result(x, action, results[x], order'[x])
        BY <3>1, <3>2
      <4> HIDE DEF results
      <4>2. ActionAnswer(xs, action, Success(results), order')
        BY <4>1 DEF ActionAnswer
      <4> QED
        BY <4>2 DEF results
    <3> QED
      BY <2>3, <3>3 DEF answer
  <2> QED
    BY <2>1, <2>2, <2>3 DEF CancelWork, Action
<1>8. PICK value : WorkReturns(s, "cancel", value) /\ ActionAnswer(xs, action, value, order')
  BY <1>7
<1> QED
  BY <1>1, <1>2, <1>5, <1>6, <1>8, WorkStep
-----------------------------------------------------------------------------
(***************************************************************************)
(* The event loop.                                                         *)
(***************************************************************************)
LEMMA CompletionFirst ==
  ASSUME LoopTrue, loop # <<>>, Head(loop).kind = "completeTask"
  PROVE  Head(loop).slot \in Slots /\ worker[Head(loop).slot] = "exited"
  BY EventTaken, EventFacts DEF LoopTrue

\* The outcome of slot s is delivered.
LEMMA DeliveryStep ==
  ASSUME IInv, loop # <<>>, Head(loop).kind = "completeTask", NEW s, s = Head(loop).slot, TaskEnds(s),
         loop' = Tail(loop) \/ \E e \in Entries : loop' = Append(Tail(loop), Continuation(e)),
         UNCHANGED <<stopping, order>>, RequestType', EntriesGood',
         \A e \in Entries : Submission(e) # s => Untouched(e),
         EntriesMove, \A e \in Entries : Submission(e) = s => entry'[e].status \notin Early,
         \A e \in Entries : request'[e] = IF Action(e) = s THEN NoRequest ELSE request[e]
  PROVE  IInv'
<1>1. TaskType' /\ LoopTrue' /\ Others(s) /\ worker'[s] = "none"
  BY TaskDelivered DEF IInv
<1>2. OrderType' /\ OrdersGrow
  BY SameOrders DEF IInv
<1>3. \A e \in Entries : Submission(e) = s =>
        SubmissionFits(e, worker'[Submission(e)], outcome'[Submission(e)], entry'[e], order'[e])
  BY <1>1 DEF SubmissionFits, Early
<1>4. \A e \in Entries : Wait(e) = s => WaitFits(e, worker'[Wait(e)], outcome'[Wait(e)], order'[e])
  BY <1>1 DEF WaitFits
<1>5. ASSUME NEW e \in Entries, Action(e) = s \/ request'[e] # request[e]
      PROVE  ActionFits(e, worker'[Action(e)], outcome'[Action(e)], request'[e], entry', order')
  <2>1. request'[e] = NoRequest /\ Action(e) = s
    BY <1>5
  <2>2. DOMAIN NoRequest.revisions = {} /\ NoRequest.action # "CANCELLING"
    BY DEF NoRequest
  <2> QED
    BY <1>1, <2>1, <2>2 DEF ActionFits
<1>6. TasksTrue'
  BY <1>1, <1>2, <1>3, <1>4, <1>5, TasksStep DEF EntriesMove, Onward
<1> QED
  BY <1>1, <1>2, <1>6 DEF IInv

LEMMA SubmissionDeliveredStep ==
  ASSUME IInv, NEW e \in Entries, loop # <<>>, Head(loop).kind = "completeTask", Head(loop).slot = Submission(e),
         TaskEnds(Submission(e)), SubmissionDelivered(e), UNCHANGED <<stopping, order>>
  PROVE  IInv' /\ EntriesMove
<1> DEFINE s == Submission(e)
           x == entry[e]
<1>1. worker[s] = "exited"
  BY CompletionFirst DEF IInv
<1>2. /\ Good(e, x, order[e]) /\ x \in EntryOf(e) /\ x.status = "SUBMITTING"
      /\ SubmissionAnswer(e, outcome[s], order[e])
  BY <1>1 DEF IInv, TasksTrue, EntriesGood, SubmissionFits, Good
<1>3. PICK y : Change(e, y) /\ Good(e, y, order[e]) /\ y.status \notin Early
               /\ y.revision = x.revision + 1 /\ y.status \notin Shown
               /\ (loop' = Tail(loop) \/ loop' = Append(Tail(loop), Continuation(e)))
  <2>1. CASE outcome[s] = Failure
    <3>1. "SUBMISSION_FAILED" \in EntryStatuses \ Shown /\ "SUBMISSION_FAILED" \notin Early
      BY DEF EntryStatuses, Shown, Early
    <3>2. Good(e, WithStatus(x, "SUBMISSION_FAILED"), order[e])
      BY <1>2, <3>1, MovesOn DEF Shown
    <3>3. /\ WithStatus(x, "SUBMISSION_FAILED").status = "SUBMISSION_FAILED"
          /\ WithStatus(x, "SUBMISSION_FAILED").revision = x.revision + 1
      BY <1>2, <3>1, StatusChanges
    <3> QED
      BY <2>1, <3>1, <3>2, <3>3 DEF SubmissionDelivered, failSubmission, Submission
  <2>2. CASE outcome[s] # Failure
    <3>1. PICK known \in [Legs(e) -> Statuses], identified \in BOOLEAN :
            /\ outcome[s] = Success([known |-> known, identified |-> identified])
            /\ \A l \in Legs(e) : Ended(known[l]) => order[e][l] = known[l]
      BY <1>2, <2>2 DEF SubmissionAnswer
    <3> DEFINE accepted == [known |-> known, identified |-> identified]
               z == [x EXCEPT !.known = known, !.identified = identified]
    <3>2. outcome[s][2] = accepted /\ accepted.known = known /\ accepted.identified = identified
      BY <3>1, OutcomeFacts
    <3>3. z \in EntryOf(e) /\ z.status = "SUBMITTING" /\ z.known = known /\ z.revision = x.revision
      BY <1>2 DEF EntryOf, Told
    <3>4. Change(e, WithStatus(z, "ACCEPTED")) /\ loop' = Append(Tail(loop), Continuation(e))
      BY <2>2, <3>2 DEF SubmissionDelivered, acceptOrder, Submission, Continuation
    <3> HIDE DEF z
    <3>5. "ACCEPTED" \in EntryStatuses \ Shown /\ "ACCEPTED" \notin Early /\ "SUBMITTING" \notin Shown
      BY DEF EntryStatuses, Shown, Early
    <3>6. Good(e, z, order[e])
      <4>1. \A l \in Legs(e) : known[l] # "ACKNOWLEDGED"
        BY <3>1 DEF Statuses
      <4> QED
        BY <3>1, <3>3, <4>1 DEF Good
    <3>7. /\ Good(e, WithStatus(z, "ACCEPTED"), order[e]) /\ WithStatus(z, "ACCEPTED").status = "ACCEPTED"
          /\ WithStatus(z, "ACCEPTED").revision = x.revision + 1
      BY <3>3, <3>5, <3>6, MovesOn, StatusChanges
    <3> QED
      BY <3>4, <3>5, <3>7
  <2> QED
    BY <2>1, <2>2
<1>4. UNCHANGED request
  BY DEF SubmissionDelivered
<1>5. /\ RequestType' /\ entry'[e] = y
      /\ \A z \in Entries : z # e => entry'[z] = entry[z]
  BY <1>3, <1>4, EntryChanges DEF IInv
<1>6. EntriesGood'
  BY <1>3, <1>5, SameOrders, SameEntries DEF EntriesGood, IInv
<1>7. \A z \in Entries : Action(z) # s /\ (Submission(z) = s <=> z = e)
  BY SlotFacts
<1>8. \A z \in Entries : Submission(z) # s => Untouched(z)
  BY <1>5, <1>7, SameOrders DEF Untouched, IInv
<1>9. \A z \in Entries : Submission(z) = s => entry'[z].status \notin Early
  BY <1>3, <1>5, <1>7
<1>10. EntriesMove
  <2>1. Onward(e, x, y, order[e])
    BY <1>2, <1>3 DEF Onward, Moves, Stays, Shown, EntryOf
  <2> QED
    BY <1>5, <2>1, SameOrders, SameEntries DEF EntriesMove, IInv
<1> QED
  BY <1>3, <1>4, <1>5, <1>6, <1>7, <1>8, <1>9, <1>10, DeliveryStep

\* An end that holds for the orders may be shown.
LEMMA EndShown ==
  ASSUME NEW e, NEW x, NEW o, Good(e, x, o), x.status \notin Shown,
         \A l \in Legs(e) : Ended(o[l]), \E l \in Legs(e) : o[l] = "FILLED"
  PROVE  LET y == WithStatus(x, "FILLED") IN Good(e, y, o) /\ y.status = "FILLED" /\ y.revision = x.revision + 1
<1>1. x \in EntryOf(e) /\ "FILLED" \in EntryStatuses /\ \A l \in Legs(e) : x.known[l] # "ACKNOWLEDGED"
  BY DEF Good, EntryStatuses, Shown
<1> QED
  BY <1>1, StatusChanges DEF Good, Shown

LEMMA WaitDeliveredStep ==
  ASSUME IInv, NEW e \in Entries, loop # <<>>, Head(loop).kind = "completeTask", Head(loop).slot = Wait(e),
         TaskEnds(Wait(e)), WaitDelivered(e), UNCHANGED <<stopping, order>>
  PROVE  IInv' /\ EntriesMove
<1> DEFINE s == Wait(e)
           x == entry[e]
<1>1. worker[s] = "exited"
  BY CompletionFirst DEF IInv
<1>2. Good(e, x, order[e]) /\ x \in EntryOf(e) /\ WaitAnswer(e, outcome[s], order[e])
  BY <1>1 DEF IInv, TasksTrue, EntriesGood, WaitFits, Good
<1>3. PICK y : /\ Change(e, y) /\ Good(e, y, order[e])
               /\ \/ y = x
                  \/ x.status = "WAITING" /\ y.status = "FILLED" /\ y.revision = x.revision + 1
                  \/ /\ x.status = "WAITING" /\ y.status = "MONITORING_FAILED"
                     /\ y.revision \in {x.revision, x.revision + 1}
  <2>1. CASE ~isCurrentWaitingRevision(e)
    BY <1>2, <2>1 DEF WaitDelivered
  <2>2. CASE isCurrentWaitingRevision(e) /\ outcome[s] = Failure
    <3>1. "MONITORING_FAILED" \in EntryStatuses \ Shown /\ x.status = "WAITING"
      BY <2>2 DEF EntryStatuses, Shown, isCurrentWaitingRevision
    <3>2. Good(e, WithStatus(x, "MONITORING_FAILED"), order[e])
          /\ WithStatus(x, "MONITORING_FAILED").status = "MONITORING_FAILED"
          /\ WithStatus(x, "MONITORING_FAILED").revision = x.revision + 1
      BY <1>2, <3>1, MovesOn, StatusChanges DEF Shown
    <3> DEFINE z == [x EXCEPT !.status = "MONITORING_FAILED"]
    <3>3. z \in EntryOf(e) /\ z.status = "MONITORING_FAILED" /\ z.known = x.known /\ z.revision = x.revision
      BY <1>2, <3>1 DEF EntryOf
    <3>4. Change(e, z) \/ Change(e, WithStatus(x, "MONITORING_FAILED"))
      BY <2>2 DEF WaitDelivered, WaitFailed, Wait
    <3> HIDE DEF z
    <3>5. Good(e, z, order[e])
      BY <1>2, <3>1, <3>3 DEF Good
    <3> QED
      BY <3>1, <3>2, <3>3, <3>4, <3>5
  <2>3. CASE isCurrentWaitingRevision(e) /\ outcome[s] # Failure
    <3>1. PICK known \in [Legs(e) -> Statuses] :
            /\ outcome[s] = Success(known)
            /\ \A l \in Legs(e) : Ended(known[l]) /\ order[e][l] = known[l]
            /\ \E l \in Legs(e) : order[e][l] = "FILLED"
      BY <1>2, <2>3 DEF WaitAnswer
    <3> DEFINE z == IF e \in OcoGroups THEN [x EXCEPT !.known = known] ELSE x
    <3>2. Change(e, WithStatus(z, "FILLED")) /\ x.status = "WAITING"
      <4>1. outcome[Wait(e)][2] = known
        BY <3>1, OutcomeFacts
      <4> QED
        BY <2>3, <4>1 DEF WaitDelivered, WaitFinished, isCurrentWaitingRevision, Wait
    <3>3. /\ z \in EntryOf(e) /\ z.status = x.status /\ (z.known = known \/ z.known = x.known)
          /\ z.revision = x.revision
      BY <1>2 DEF EntryOf, Told
    <3> HIDE DEF z
    <3>4. Good(e, z, order[e]) /\ \A l \in Legs(e) : Ended(order[e][l])
      <4>1. \A l \in Legs(e) : known[l] # "ACKNOWLEDGED"
        BY <3>1, EndedFacts
      <4> QED
        BY <1>2, <3>1, <3>2, <3>3, <4>1 DEF Good
    <3>5. z.status \notin Shown
      BY <3>2, <3>3 DEF Shown
    <3>6. /\ Good(e, WithStatus(z, "FILLED"), order[e]) /\ WithStatus(z, "FILLED").status = "FILLED"
          /\ WithStatus(z, "FILLED").revision = z.revision + 1
      <4>1. (\A l \in Legs(e) : Ended(order[e][l])) /\ \E l \in Legs(e) : order[e][l] = "FILLED"
        BY <3>1, <3>4
      <4> QED
        BY <3>4, <3>5, <4>1, EndShown
    <3> QED
      BY <3>2, <3>3, <3>6
  <2> QED
    BY <2>1, <2>2, <2>3
<1>4. UNCHANGED request /\ loop' = Tail(loop)
  BY DEF WaitDelivered
<1>5. /\ RequestType' /\ entry'[e] = y
      /\ \A z \in Entries : z # e => entry'[z] = entry[z]
  BY <1>3, <1>4, EntryChanges DEF IInv
<1>6. EntriesGood'
  BY <1>3, <1>5, SameOrders, SameEntries DEF EntriesGood, IInv
<1>7. \A z \in Entries : Action(z) # s /\ Submission(z) # s
  BY SlotFacts
<1>8. \A z \in Entries : Untouched(z)
  BY <1>3, <1>5, SameOrders DEF Untouched, Early, IInv
<1>9. EntriesMove
  <2>1. x.revision \in Nat
    BY <1>2 DEF EntryOf
  <2>2. CASE y = x
    BY <1>5, <2>2, SameOrders, SameEntries DEF EntriesMove, IInv
  <2>3. CASE y # x
    <3>1. Onward(e, x, y, order[e])
      BY <1>3, <2>1, <2>3 DEF Onward, Moves, Stays, Shown, Early
    <3> QED
      BY <1>5, <3>1, SameOrders, SameEntries DEF EntriesMove, IInv
  <2> QED
    BY <2>2, <2>3
<1> QED
  BY <1>4, <1>5, <1>6, <1>7, <1>8, <1>9, DeliveryStep

LEMMA ActionDeliveredStep ==
  ASSUME IInv, NEW e \in Entries, loop # <<>>, Head(loop).kind = "completeTask", Head(loop).slot = Action(e),
         TaskEnds(Action(e)), ActionDelivered(e), UNCHANGED <<stopping, order>>
  PROVE  IInv' /\ EntriesMove
<1> DEFINE s == Action(e)
           r == request[e]
<1>1. worker[s] = "exited"
  BY CompletionFirst DEF IInv
<1>2. /\ ActionAnswer(DOMAIN r.revisions, r.action, outcome[s], order)
      /\ \A x \in DOMAIN r.revisions : entry[x].status \notin Early /\ StillOpen(r.action, r.revisions[x], entry[x])
  BY <1>1 DEF IInv, TasksTrue, ActionFits
<1>3. ASSUME NEW x \in Entries
      PROVE  /\ Good(x, entry'[x], order'[x]) /\ Onward(x, entry[x], entry'[x], order[x])
             /\ entry'[x].identified = entry[x].identified
             /\ entry'[x] = entry[x] \/ entry[x].status \notin Early
  <2>1. Good(x, entry[x], order[x]) /\ order'[x] = order[x]
    BY DEF IInv, EntriesGood
  <2>2. CASE x \notin DOMAIN r.revisions
    <3>1. entry'[x] = entry[x]
      BY <2>2 DEF ActionDelivered
    <3>2. entry[x].revision \in Nat
      BY <2>1 DEF Good, EntryOf
    <3> QED
      BY <2>1, <3>1, <3>2, Unmoved
  <2>3. CASE x \in DOMAIN r.revisions /\ outcome[s] = Failure
    <3>1. entry'[x] = failEntryAction(entry[x], r.action)
      BY <2>3 DEF ActionDelivered, Action
    <3> QED
      BY <1>2, <2>1, <2>3, <3>1, FailedGood
  <2>4. CASE x \in DOMAIN r.revisions /\ outcome[s] # Failure
    <3>1. PICK results : outcome[s] = Success(results) 
                       /\ \A z \in DOMAIN r.revisions : Result(z, r.action, results[z], order[z])
      BY <1>2, <2>4 DEF ActionAnswer
    <3>2. entry'[x] = Finished(entry[x], r.action, r.revisions[x], results[x])
      <4>1. outcome[s][2] = results
        BY <3>1, OutcomeFacts
      <4> QED
        BY <2>4, <4>1 DEF ActionDelivered, Action
    <3>3. Result(x, r.action, results[x], order[x])
      BY <2>4, <3>1
    <3> QED
      BY <1>2, <2>1, <2>4, <3>2, <3>3, FinishedGood
  <2> QED
    BY <2>2, <2>3, <2>4
<1>4. /\ RequestType' /\ loop' = Tail(loop)
      /\ \A z \in Entries : request'[z] = IF z = e THEN NoRequest ELSE request[z]
  BY DEF IInv, RequestType, ActionDelivered
<1>5. \A z \in Entries : Submission(z) # s /\ (Action(z) = s <=> z = e)
  BY SlotFacts
<1>6. EntriesGood'
  BY <1>3 DEF EntriesGood
<1>7. \A z \in Entries : Untouched(z)
  BY <1>3, SameOrders DEF Untouched, Onward, Moves, IInv
<1>8. \A z \in Entries : request'[z] = IF Action(z) = s THEN NoRequest ELSE request[z]
  BY <1>4, <1>5
<1>9. EntriesMove
  BY <1>3 DEF EntriesMove
<1> QED
  BY <1>4, <1>5, <1>6, <1>7, <1>8, <1>9, DeliveryStep

LEMMA ContinueStep ==
  ASSUME IInv, NEW e \in Entries, loop # <<>>, ContinueAfterAcceptance(e)
  PROVE  IInv' /\ EntriesMove
<1> DEFINE x == entry[e]
           s == Wait(e)
<1>1. UNCHANGED <<stopping, order, request, actions>> /\ loop' = Tail(loop)
  BY DEF ContinueAfterAcceptance
<1>2. OrderType' /\ OrdersGrow /\ \A y \in Entries : \A l \in Legs(y) : order[y][l] = "none" => order'[y][l] = "none"
  BY <1>1, SameOrders DEF IInv
<1>3. Good(e, x, order[e]) /\ x \in EntryOf(e) /\ s \in Slots
  BY SlotFacts DEF IInv, EntriesGood, Good
<1>4. {"WAITING", "MONITORING_FAILED"} \subseteq EntryStatuses \ (Shown \cup Early)
  BY DEF EntryStatuses, Shown, Early
<1>5. PICK y : /\ Change(e, y) /\ Good(e, y, order[e])
               /\ \/ y = x
                  \/ /\ x.status = "ACCEPTED" /\ y.status \in {"FILLED", "WAITING", "MONITORING_FAILED"}
                     /\ y.revision = x.revision + 1
               /\ UNCHANGED taskVars \/ Starts(s, "await")
  <2>1. CASE x.status # "ACCEPTED"
    <3>1. entry' = entry /\ UNCHANGED taskVars
      BY <2>1 DEF ContinueAfterAcceptance
    <3>2. Change(e, x)
      BY <3>1 DEF Change, IInv, RequestType
    <3> QED
      BY <1>3, <3>1, <3>2
  <2>2. CASE x.status = "ACCEPTED" /\ e \in BasicOrders /\ x.known["order"] = "FILLED"
    <3>1. Change(e, WithStatus(x, "FILLED")) /\ UNCHANGED taskVars
      BY <2>2 DEF ContinueAfterAcceptance
    <3>2. \A l \in Legs(e) : Ended(order[e][l]) /\ order[e][l] = "FILLED"
      BY <1>3, <2>2, LegFacts, EndedFacts DEF Good
    <3>3. x.status \notin Shown
      BY <2>2 DEF Shown
    <3>4. /\ Good(e, WithStatus(x, "FILLED"), order[e]) /\ WithStatus(x, "FILLED").status = "FILLED"
          /\ WithStatus(x, "FILLED").revision = x.revision + 1
      <4>1. (\A l \in Legs(e) : Ended(order[e][l])) /\ \E l \in Legs(e) : order[e][l] = "FILLED"
        BY <3>2, LegFacts
      <4> QED
        BY <1>3, <3>3, <4>1, EndShown
    <3> QED
      BY <2>2, <3>1, <3>4
  <2>3. CASE x.status = "ACCEPTED" /\ ~(e \in BasicOrders /\ x.known["order"] = "FILLED")
    <3>1. PICK status \in {"WAITING", "MONITORING_FAILED"} :
            Change(e, WithStatus(x, status)) /\ (UNCHANGED taskVars \/ Starts(s, "await"))
      BY <2>3 DEF ContinueAfterAcceptance, Wait
    <3>2. x.status \notin Shown
      BY <2>3 DEF Shown
    <3>3. /\ Good(e, WithStatus(x, status), order[e]) /\ WithStatus(x, status).status = status
          /\ WithStatus(x, status).revision = x.revision + 1
      BY <1>3, <1>4, <3>2, MovesOn, StatusChanges
    <3> QED
      BY <2>3, <3>1, <3>3
  <2> QED
    BY <2>1, <2>2, <2>3
<1>6. /\ RequestType' /\ entry'[e] = y
      /\ \A z \in Entries : z # e => entry'[z] = entry[z]
  BY <1>1, <1>5, EntryChanges DEF IInv
<1>7. EntriesGood'
  BY <1>1, <1>2, <1>5, <1>6, SameEntries DEF EntriesGood
<1>8. \A z \in Entries : Untouched(z)
  BY <1>2, <1>5, <1>6 DEF Untouched, Early
<1>9. EntriesMove
  <2>1. x.revision \in Nat
    BY <1>3 DEF EntryOf
  <2>2. CASE y = x
    BY <1>2, <1>6, <2>2, SameEntries DEF EntriesMove
  <2>3. CASE y # x
    <3>1. Onward(e, x, y, order[e])
      BY <1>5, <2>1, <2>3 DEF Onward, Moves, Stays, Shown, Early
    <3> QED
      BY <1>2, <1>6, <3>1, SameEntries DEF EntriesMove
  <2> QED
    BY <2>2, <2>3
<1>10. \A z \in Entries : /\ Submission(z) # s /\ Action(z) # s /\ (Wait(z) = s <=> z = e)
                          /\ request'[z] = request[z]
  BY <1>1, SlotFacts
<1>11. TaskType' /\ LoopTrue' /\ Others(s) /\ (UNCHANGED <<worker, outcome>> \/ worker'[s] = "await")
  <2>1. CASE UNCHANGED taskVars
    <3>1. TaskType' /\ Others(s) /\ UNCHANGED <<worker, outcome>>
      BY <1>1, <2>1 DEF taskVars, TaskType, Others, IInv
    <3>2. LoopTrue'
      BY <1>1, <3>1, ContinuationTaken DEF IInv
    <3> QED
      BY <3>1, <3>2
  <2>2. CASE Starts(s, "await")
    <3>1. worker[s] = "none"
      BY <1>3, <2>2 DEF Starts, StartTasks, CanStart, IsLoading, TaskType, IInv
    <3>2. /\ worker' = [t \in Slots |-> IF t = s THEN "await" ELSE worker[t]]
          /\ uiTaskState' = [t \in Slots |-> IF t = s THEN "LOADING" ELSE uiTaskState[t]]
          /\ outcome' = [t \in Slots |-> IF t = s THEN <<>> ELSE outcome[t]]
      BY <2>2 DEF Starts, StartTasks
    <3>3. TaskType' /\ Others(s) /\ worker'[s] = "await"
      BY <1>1, <1>3, <3>2 DEF TaskType, Others, IInv
    <3>4. \A i \in 1 .. Len(loop) : loop[i].kind = "completeTask" => worker'[loop[i].slot] = "exited"
      <4>1. \A i \in 1 .. Len(loop) : loop[i].kind = "completeTask" =>
              loop[i].slot \in Slots /\ worker[loop[i].slot] = "exited"
        <5>1. \A i \in 1 .. Len(loop) : loop[i] \in Events
          BY DEF LoopTrue, IInv
        <5> QED
          BY <5>1, EventFacts DEF LoopTrue, IInv
      <4>2. \A t \in Slots : worker[t] = "exited" => worker'[t] = "exited"
        BY <3>1, <3>2
      <4> QED
        BY <4>1, <4>2
    <3>5. LoopTrue'
      <4>1. \A i \in 1 .. Len(loop') : loop'[i] = loop[i + 1] /\ i + 1 \in 1 .. Len(loop)
        BY <1>1, EventTaken DEF IInv
      <4>2. \A i, j \in 1 .. Len(loop') : i # j => i + 1 # j + 1
        OBVIOUS
      <4>3. loop' \in Seq(Events)
        BY <1>1, EventTaken DEF IInv
      <4>4. \A i \in 1 .. Len(loop') : loop'[i].kind = "completeTask" => worker'[loop'[i].slot] = "exited"
        BY <3>4, <4>1
      <4>5. \A i, j \in 1 .. Len(loop) :
              loop[i].kind = "completeTask" /\ loop[j].kind = "completeTask" /\ i # j => loop[i].slot # loop[j].slot
        BY DEF LoopTrue, IInv
      <4> HIDE DEF s
      <4>6. \A i, j \in 1 .. Len(loop') :
              loop'[i].kind = "completeTask" /\ loop'[j].kind = "completeTask" /\ i # j => loop'[i].slot # loop'[j].slot
        BY <4>1, <4>2, <4>5
      <4> QED
        BY <4>3, <4>4, <4>6 DEF LoopTrue
    <3> QED
      BY <3>3, <3>5
  <2> QED
    BY <1>5, <2>1, <2>2
<1>12. WaitFits(e, worker'[Wait(e)], outcome'[Wait(e)], order'[e])
  <2>1. WaitFits(e, worker[Wait(e)], outcome[Wait(e)], order[e]) /\ order'[e] = order[e]
    BY <1>1 DEF IInv, TasksTrue
  <2> QED
    BY <1>11, <2>1 DEF WaitFits
<1>13. TasksTrue'
  BY <1>2, <1>8, <1>9, <1>10, <1>11, <1>12, TasksStep DEF EntriesMove, Onward
<1> QED
  BY <1>2, <1>6, <1>7, <1>9, <1>11, <1>13 DEF IInv

LEMMA CompleteTaskStep ==
  ASSUME IInv, NEW e \in Entries, loop # <<>>, CompleteTask(e)
  PROVE  IInv' /\ EntriesMove
<1> DEFINE s == Head(loop).slot
<1>1. s \in Slots /\ s[1] = e /\ Head(loop).kind = "completeTask" /\ TaskEnds(s) /\ UNCHANGED <<stopping, order>>
  BY CompletionFirst DEF CompleteTask, IInv
<1>2. CASE s[2] = "submission"
  <2>1. s = Submission(e) /\ SubmissionDelivered(e)
    BY <1>1, <1>2, SlotFacts DEF CompleteTask
  <2> QED
    BY <1>1, <2>1, SubmissionDeliveredStep
<1>3. CASE s[2] = "wait"
  <2>1. s = Wait(e) /\ WaitDelivered(e)
    BY <1>1, <1>3, SlotFacts DEF CompleteTask
  <2> QED
    BY <1>1, <2>1, WaitDeliveredStep
<1>4. CASE s[2] = "action"
  <2>1. s = Action(e) /\ ActionDelivered(e)
    BY <1>1, <1>4, SlotFacts DEF CompleteTask
  <2> QED
    BY <1>1, <2>1, ActionDeliveredStep
<1> QED
  BY <1>1, <1>2, <1>3, <1>4, SlotFacts
-----------------------------------------------------------------------------
LEMMA InitInv ==
  ASSUME Init
  PROVE  IInv
<1>1. OrderType /\ TaskType /\ RequestType
  BY DEF Init, ExecutorInit, OrderType, TaskType, RequestType, Statuses
<1>2. LoopTrue
  BY DEF Init, ExecutorInit, LoopTrue
<1>3. ASSUME NEW e \in Entries
      PROVE  /\ entry[e] \in EntryOf(e) /\ entry[e].status = "absent" /\ ~entry[e].identified
             /\ \A l \in Legs(e) : entry[e].known[l] = "none" /\ order[e][l] = "none"
  <2>1. [l \in Legs(e) |-> "none"] \in [Legs(e) -> Told]
    BY DEF Statuses, Told
  <2>2. "absent" \in EntryStatuses /\ "NONE" \in Actions
    BY DEF EntryStatuses, Early, Actions
  <2> QED
    BY <2>1, <2>2 DEF Init, EntryOf
<1>4. EntriesGood
  BY <1>3, EndedFacts DEF EntriesGood, Good
<1>5. ASSUME NEW e \in Entries PROVE request[e] = NoRequest
  BY DEF Init
<1>6. DOMAIN NoRequest.revisions = {} /\ NoRequest.action # "CANCELLING"
  BY DEF NoRequest
<1>7. \A s \in Slots : worker[s] = "none"
  BY DEF Init, ExecutorInit
<1>8. TasksTrue
  BY <1>3, <1>5, <1>6, <1>7, SlotFacts DEF TasksTrue, SubmissionFits, WaitFits, ActionFits
<1> QED
  BY <1>1, <1>2, <1>4, <1>8 DEF IInv

LEMMA StepInv ==
  ASSUME IInv, [Next]_vars
  PROVE  IInv' /\ EntriesMove
<1>1. ASSUME NEW e \in Entries, Place(e) \/ refreshOrder(e) \/ cancelOrder(e) \/ cancelAllOpenOrders(e)
      PROVE  IInv' /\ EntriesMove
  BY <1>1, UserStep
<1>2. CASE OrderEnds
  BY <1>2, OrderEndsStep
<1>3. ASSUME NEW e \in Entries, loop # <<>>, CompleteTask(e) \/ ContinueAfterAcceptance(e)
      PROVE  IInv' /\ EntriesMove
  BY <1>3, CompleteTaskStep, ContinueStep
<1>4. ASSUME NEW e \in Entries, Work(e)
      PROVE  IInv' /\ EntriesMove
  BY <1>4, SubmissionWorkStep, WaitWorkStep, ReadWorkStep, CancelWorkStep DEF Work, ActionWork
<1>5. CASE UNCHANGED vars
  <2>1. UNCHANGED <<uiTaskState, worker, outcome, stopping, loop, order, entry, request>>
    BY <1>5 DEF vars, executorVars, taskVars, sessionVars
  <2>2. OrderType' /\ TaskType' /\ LoopTrue' /\ RequestType' /\ EntriesGood' /\ TasksTrue'
    BY <2>1 DEF IInv, OrderType, TaskType, LoopTrue, RequestType, EntriesGood, TasksTrue, ActionFits
  <2>3. EntriesMove
    BY <2>1, Unmoved DEF EntriesMove, IInv, EntriesGood, Good, EntryOf
  <2> QED
    BY <2>2, <2>3 DEF IInv
<1> QED
  BY <1>1, <1>2, <1>3, <1>4, <1>5 DEF Next, UserActs, EventLoop

(***************************************************************************)
(* The inductive invariant holds: every end that an outcome on its way to  *)
(* the model, or an entry, reports is true of the orders.  The answer that *)
(* Bybit's cancelOrder writes itself is no report: it may be untrue, and   *)
(* it ends only an entry of Bybit's that showed no end yet.                *)
(***************************************************************************)
THEOREM InvariantHolds == Spec => []IInv
<1>1. Init => IInv
  BY InitInv
<1>2. IInv /\ [Next]_vars => IInv'
  BY StepInv
<1> QED
  BY <1>1, <1>2, PTL DEF Spec

(***************************************************************************)
(* An entry is shown filled or ended only when its orders are, for any     *)
(* number of orders, pairs and requests: finishOrderWait, applyOcoRefresh, *)
(* applyBasicOrderRefresh and continueAfterBasicAcceptance set such a      *)
(* status from outcomes that report the ends themselves.  What is excepted *)
(* is an order of Bybit shown ended by createOrderInfo of cancelOrder.     *)
(***************************************************************************)
THEOREM ShownEndsAreTrue == Spec => []ShownEndIsTrue
<1>1. IInv => ShownEndIsTrue
  BY DEF IInv, EntriesGood, Good, Acked, OnlyAcknowledged, ShownEndIsTrue
<1> QED
  BY <1>1, InvariantHolds, PTL

(***************************************************************************)
(* An entry that is shown filled or ended stays so, whatever is delivered  *)
(* later: isCurrentWaitingRevision, isEntryActionCurrent and the end that  *)
(* updateOcoChildAfterRefresh does not take back.  An end that Bybit's     *)
(* cancelOrder wrote itself gives way to the fill that happened, and to    *)
(* nothing else.                                                           *)
(***************************************************************************)
THEOREM ShownEndsAreFinal == Spec => ShownEndIsFinal
<1>1. IInv /\ [Next]_vars =>
        [\A e \in Entries :
           entry[e].status \in {"FILLED", "TERMINAL"} =>
             \/ entry'[e].status = entry[e].status
             \/ OnlyAcknowledged(e) /\ order[e]["order"] = "FILLED" /\ entry'[e].status = "FILLED"]_vars
  BY StepInv DEF EntriesMove, Onward, Stays, Acked, OnlyAcknowledged, Shown
<1> QED
  BY <1>1, InvariantHolds, PTL DEF Spec, ShownEndIsFinal
=============================================================================
