------------------------ MODULE BalanceCatalog_proofs ------------------------
(***************************************************************************)
(* The balances the interface shows, for any assets, any number of changes *)
(* of the account, and any number of loads.                                *)
(***************************************************************************)
EXTENDS BalanceCatalog, FiniteSetTheorems, TLAPS

USE DEF vars, executorVars, taskVars, streamVars, runnerVars, lockVars, balanceVars, catalogVars

Coin == [asset : Assets, value : Nat]

Events == {[kind |-> "status"], [kind |-> "balances"]} \cup {Completion(s) : s \in Slots}

(***************************************************************************)
(* What the proof is about: a message tells nothing the account has not    *)
(* been; coinsOnWay are the balances a message will still write.           *)
(***************************************************************************)
Told(msg) == msg \in Seq(Coin) /\ \A i \in 1 .. Len(msg) : msg[i].value <= account[msg[i].asset]

CoinsOf(msg) == {msg[i] : i \in 1 .. Len(msg)}

CoinsOnWay == CoinsOf(coins) \cup UNION {CoinsOf(inbox[i]) : i \in 1 .. Len(inbox)}

Latest(a) == [asset |-> a, value |-> account[a]]

(***************************************************************************)
(* The parts of the invariant.                                             *)
(***************************************************************************)
\* Results and events are delivered while the interface runs, and only then.
PhaseTrue ==
  /\ stopping \in BOOLEAN /\ observed \in BOOLEAN /\ hasSuccessfulSnapshot \in BOOLEAN
  /\ phase \in {"start", "running"} => ~stopping
  /\ phase = "running" => observed
  /\ phase = "start" => ~hasSuccessfulSnapshot

\* A load has at most one completion in the loop, and works no more when it has.
LoadTrue ==
  /\ DOMAIN uiTaskState = Slots /\ DOMAIN worker = Slots /\ DOMAIN outcome = Slots
  /\ loop \in Seq(Events)
  /\ worker["load"] # "none" => IsLoading("load")
  /\ \A i \in 1 .. Len(loop) :
       loop[i] = Completion("load") => IsLoading("load") /\ worker["load"] \in {"none", "exited"}
  /\ \A i, j \in 1 .. Len(loop) : loop[i] = Completion("load") /\ loop[j] = Completion("load") => i = j

\* Whoever makes the view old has not told the interface thread yet, or it has not listened yet.
News ==
  \/ runner = "coins" \/ worker["load"] = "write"
  \/ \E i \in 1 .. Len(loop) : loop[i] = [kind |-> "balances"]
  \/ outcome["load"] # Failure /\ \E i \in 1 .. Len(loop) : loop[i] = Completion("load")

ViewTrue == phase = "running" /\ hasSuccessfulSnapshot /\ shown # balances => News

\* Messages are read where a stream is, and say what was so.
MessagesTrue ==
  /\ account \in [Assets -> Nat]
  /\ \A i \in 1 .. Len(inbox) : inbox[i] # <<>> /\ Told(inbox[i])
  /\ inbox \in Seq(Seq(Coin))
  /\ runner \in {"none", "connecting", "subscribing", "closed", "finished"} => inbox = <<>>
  /\ Told(coins) /\ (runner = "coins" <=> coins # <<>>)
  /\ worker["load"] = "write" => Told(answer) /\ answer # <<>>

\* A cached balance is old only while its message is on the way, or it is known to be missed.
CacheTrue ==
  /\ balances \in [Assets -> Nat]
  /\ \A a \in Assets :
       /\ balances[a] <= account[a]
       /\ a \in missed \/ balances[a] = account[a] \/ Latest(a) \in CoinsOnWay

(***************************************************************************)
(* The inductive invariant.                                                *)
(***************************************************************************)
IInv == PhaseTrue /\ LoadTrue /\ ViewTrue /\ MessagesTrue /\ CacheTrue
-----------------------------------------------------------------------------
LEMMA SlotFacts ==
  /\ "load" \in Slots /\ "liveStart" \in Slots /\ Slots = {"load", "liveStart"}
  /\ \A s \in Slots : Completion(s) \in Events
  /\ [kind |-> "status"] \in Events /\ [kind |-> "balances"] \in Events
  /\ \A s : Completion(s).kind = "completeTask" /\ Completion(s).slot = s
  /\ \A s : Completion(s) # [kind |-> "status"] /\ Completion(s) # [kind |-> "balances"]
  /\ Completion("liveStart") # Completion("load")
<1>1. \A s : Completion(s).kind = "completeTask" /\ Completion(s).slot = s
  BY DEF Completion
<1>2. [kind |-> "status"].kind = "status" /\ [kind |-> "balances"].kind = "balances"
  OBVIOUS
<1> QED
  BY <1>1, <1>2, CatalogAssumption DEF Events

LEMMA OutcomeFacts == \A v : Success(v) # Failure
  BY DEF Success, Failure

LEMMA PlacesOfWork == First["load"] = "request" /\ First["liveStart"] = "check"
  BY SlotFacts DEF First
-----------------------------------------------------------------------------
(***************************************************************************)
(* The executor and the event loop.                                        *)
(***************************************************************************)
\* The load is left alone.
SameLoad ==
  /\ DOMAIN uiTaskState' = Slots /\ DOMAIN worker' = Slots /\ DOMAIN outcome' = Slots
  /\ uiTaskState'["load"] = uiTaskState["load"] /\ worker'["load"] = worker["load"]
  /\ outcome'["load"] = outcome["load"]

\* At most an event is posted, which is not the end of the load.
Posts == loop' = loop \/ \E event \in Events : event # Completion("load") /\ loop' = Append(loop, event)

LEMMA LoadStays ==
  ASSUME LoadTrue, UNCHANGED taskVars PROVE SameLoad
  BY DEF LoadTrue, SameLoad

\* What was posted is still there.
LEMMA LoopGrows ==
  ASSUME LoadTrue, Posts
  PROVE  /\ loop' \in Seq(Events) /\ Len(loop) \in Nat
         /\ \A i \in 1 .. Len(loop) : i \in 1 .. Len(loop') /\ loop'[i] = loop[i]
         /\ \A i \in 1 .. Len(loop') : i \in 1 .. Len(loop) \/ loop'[i] # Completion("load")
<1>1. CASE loop' = loop
  BY <1>1 DEF LoadTrue
<1>2. ASSUME NEW event \in Events, event # Completion("load"), loop' = Append(loop, event)
      PROVE  /\ loop' \in Seq(Events) /\ Len(loop) \in Nat
             /\ \A i \in 1 .. Len(loop) : i \in 1 .. Len(loop') /\ loop'[i] = loop[i]
             /\ \A i \in 1 .. Len(loop') : i \in 1 .. Len(loop) \/ loop'[i] # Completion("load")
  <2>1. loop \in Seq(Events)
    BY DEF LoadTrue
  <2>2. /\ loop' \in Seq(Events) /\ Len(loop) \in Nat /\ Len(loop') = Len(loop) + 1
        /\ loop'[Len(loop) + 1] = event /\ \A i \in 1 .. Len(loop) : loop'[i] = loop[i]
    BY <1>2, <2>1
  <2> QED
    BY <1>2, <2>2
<1> QED
  BY <1>1, <1>2 DEF Posts

LEMMA LoadPosts ==
  ASSUME LoadTrue, SameLoad, Posts PROVE LoadTrue'
<1>1. \A i \in 1 .. Len(loop') : loop'[i] = Completion("load") => i \in 1 .. Len(loop) /\ loop[i] = Completion("load")
  BY LoopGrows
<1>2. loop' \in Seq(Events)
  BY LoopGrows
<1> QED
  BY <1>1, <1>2 DEF LoadTrue, SameLoad, IsLoading

LEMMA NewsStays ==
  ASSUME LoadTrue, SameLoad, Posts, News, runner = "coins" => runner' = "coins" PROVE News'
<1>1. CASE runner = "coins" \/ worker["load"] = "write"
  BY <1>1 DEF News, SameLoad
<1>2. CASE \E i \in 1 .. Len(loop) : loop[i] = [kind |-> "balances"]
  BY <1>2, LoopGrows DEF News
<1>3. CASE outcome["load"] # Failure /\ \E i \in 1 .. Len(loop) : loop[i] = Completion("load")
  BY <1>3, LoopGrows DEF News, SameLoad
<1> QED
  BY <1>1, <1>2, <1>3 DEF News

\* The load returns.
LEMMA LoadReturns ==
  ASSUME LoadTrue, ~stopping, NEW from \in {"request", "write"}, NEW value, WorkReturns("load", from, value)
  PROVE  /\ LoadTrue' /\ worker["load"] = from /\ worker'["load"] = "exited" /\ outcome'["load"] = value
         /\ \A i \in 1 .. Len(loop) : i \in 1 .. Len(loop') /\ loop'[i] = loop[i] /\ loop[i] # Completion("load")
         /\ \E i \in 1 .. Len(loop') : loop'[i] = Completion("load")
<1>1. /\ worker["load"] = from /\ worker' = [worker EXCEPT !["load"] = "exited"]
      /\ outcome' = [outcome EXCEPT !["load"] = value] /\ UNCHANGED uiTaskState
      /\ loop' = Append(loop, Completion("load"))
  BY DEF WorkReturns, WorkGoes, Post
<1>2. worker'["load"] = "exited" /\ outcome'["load"] = value /\ DOMAIN worker' = Slots /\ DOMAIN outcome' = Slots
  BY <1>1, SlotFacts DEF LoadTrue
<1>3. \A i \in 1 .. Len(loop) : loop[i] # Completion("load")
  BY <1>1 DEF LoadTrue
<1>4. loop \in Seq(Events) /\ IsLoading("load")
  BY <1>1 DEF LoadTrue
<1>5. /\ loop' \in Seq(Events) /\ Len(loop) \in Nat /\ Len(loop') = Len(loop) + 1
      /\ loop'[Len(loop) + 1] = Completion("load")
      /\ \A i \in 1 .. Len(loop) : i \in 1 .. Len(loop') /\ loop'[i] = loop[i]
  BY <1>1, <1>4, SlotFacts
<1>6. \A i \in 1 .. Len(loop') : loop'[i] = Completion("load") => i = Len(loop) + 1
  BY <1>3, <1>5
<1>7. LoadTrue'
  BY <1>1, <1>2, <1>4, <1>5, <1>6 DEF LoadTrue, IsLoading
<1> QED
  BY <1>1, <1>2, <1>3, <1>5, <1>7

\* The first event is taken.
LEMMA EventTaken ==
  ASSUME LoadTrue, loop # <<>>, loop' = Tail(loop)
  PROVE  /\ loop' \in Seq(Events) /\ Head(loop) = loop[1] /\ Head(loop) \in Events /\ 1 \in 1 .. Len(loop)
         /\ \A i \in 1 .. Len(loop') : i + 1 \in 1 .. Len(loop) /\ loop'[i] = loop[i + 1] /\ i + 1 # 1
         /\ \A i \in 1 .. Len(loop) : i = 1 \/ (i - 1 \in 1 .. Len(loop') /\ loop'[i - 1] = loop[i])
  BY DEF LoadTrue

LEMMA OtherTaken ==
  ASSUME LoadTrue, SameLoad, loop # <<>>, loop' = Tail(loop) PROVE LoadTrue'
<1>1. \A i \in 1 .. Len(loop') : i + 1 \in 1 .. Len(loop) /\ loop'[i] = loop[i + 1]
  BY EventTaken
<1>2. \A i, j \in 1 .. Len(loop') : i + 1 = j + 1 => i = j
  <2>1. Len(loop') \in Nat
    BY EventTaken
  <2> QED
    BY <2>1
<1>3. \A i, j \in 1 .. Len(loop') : loop'[i] = Completion("load") /\ loop'[j] = Completion("load") => i = j
  BY <1>1, <1>2 DEF LoadTrue
<1>4. loop' \in Seq(Events)
  BY EventTaken
<1> QED
  BY <1>1, <1>3, <1>4 DEF LoadTrue, SameLoad, IsLoading

LEMMA LoadTaken ==
  ASSUME LoadTrue, loop # <<>>, loop' = Tail(loop), Head(loop) = Completion("load"), TaskEnds("load")
  PROVE  LoadTrue' /\ worker'["load"] = "none" /\ worker["load"] # "write"
<1>1. /\ DOMAIN uiTaskState' = Slots /\ DOMAIN worker' = Slots /\ DOMAIN outcome' = Slots
      /\ worker'["load"] = "none"
  BY SlotFacts DEF LoadTrue, TaskEnds
<1>2. \A i \in 1 .. Len(loop') : loop'[i] # Completion("load")
  BY EventTaken DEF LoadTrue
<1>3. loop' \in Seq(Events)
  BY EventTaken
<1>4. worker["load"] # "write"
  BY EventTaken DEF LoadTrue
<1> QED
  BY <1>1, <1>2, <1>3, <1>4 DEF LoadTrue

\* The failures of the threads that were not created are posted once each.
LEMMA FailuresPosted ==
  ASSUME NEW broken \in SUBSET Slots, NEW order \in [1 .. Cardinality(broken) -> broken],
         {order[i] : i \in DOMAIN order} = broken
  PROVE  /\ Cardinality(broken) \in Nat
         /\ \A i, j \in 1 .. Cardinality(broken) : order[i] = "load" /\ order[j] = "load" => i = j
<1>1. "load" # "liveStart"
  OBVIOUS
<1>2. /\ Cardinality({}) = 0 /\ Cardinality({"load"}) = 1 /\ Cardinality({"liveStart"}) = 1
      /\ Cardinality({"load", "liveStart"}) = 2
  <2>1. IsFiniteSet({"liveStart"}) /\ Cardinality({"liveStart"}) = 1
    BY FS_Singleton
  <2>2. Cardinality({"liveStart"} \cup {"load"}) = 2
    BY <1>1, <2>1, FS_AddElement
  <2>3. {"liveStart"} \cup {"load"} = {"load", "liveStart"}
    OBVIOUS
  <2> QED
    BY <2>1, <2>2, <2>3, FS_EmptySet, FS_Singleton
<1>3. broken = {} \/ broken = {"load"} \/ broken = {"liveStart"} \/ broken = {"load", "liveStart"}
  <2>1. broken \subseteq {"load", "liveStart"}
    BY SlotFacts
  <2>2. CASE "load" \in broken
    BY <2>1, <2>2
  <2>3. CASE "load" \notin broken
    BY <2>1, <2>3
  <2> QED
    BY <2>2, <2>3
<1>4. CASE broken # {"load", "liveStart"}
  <2>1. Cardinality(broken) = 0 \/ Cardinality(broken) = 1
    BY <1>2, <1>3, <1>4, Zenon
  <2> QED
    BY <2>1
<1>5. CASE broken = {"load", "liveStart"}
  <2>1. Cardinality(broken) = 2 /\ DOMAIN order = 1 .. 2
    BY <1>2, <1>5
  <2>2. PICK i \in 1 .. 2 : order[i] = "liveStart"
    BY <1>5, <2>1
  <2>3. \A j \in 1 .. 2 : order[j] = "load" => j # i
    BY <1>1, <2>2
  <2> QED
    BY <2>1, <2>3
<1> QED
  BY <1>4, <1>5

LEMMA TasksStart ==
  ASSUME LoadTrue, NEW ss \in SUBSET Slots, NEW broken \in SUBSET ss, Started(ss, broken)
  PROVE  /\ LoadTrue' /\ \A i \in 1 .. Len(loop) : i \in 1 .. Len(loop') /\ loop'[i] = loop[i]
         /\ "load" \notin ss => SameLoad
         /\ "load" \in ss => /\ worker["load"] = "none" /\ worker'["load"] # "write"
                             /\ \A i \in 1 .. Len(loop) : loop[i] # Completion("load")
<1>1. PICK order \in [1 .. Cardinality(broken) -> broken] :
        /\ {order[i] : i \in DOMAIN order} = broken
        /\ loop' = loop \o [i \in DOMAIN order |-> Completion(order[i])]
  BY DEF Started
<1> DEFINE n == Cardinality(broken)
           posted == [i \in DOMAIN order |-> Completion(order[i])]
<1>2. /\ uiTaskState' = [s \in Slots |-> IF s \in ss THEN "LOADING" ELSE uiTaskState[s]]
      /\ worker' = [s \in Slots |-> IF s \in ss \ broken THEN First[s] ELSE IF s \in ss THEN "none" ELSE worker[s]]
      /\ outcome' = [s \in Slots |-> IF s \in broken THEN Failure ELSE IF s \in ss THEN <<>> ELSE outcome[s]]
      /\ \A s \in ss : ~IsLoading(s)
  BY DEF Started, StartTasks, CanStart
<1>3. n \in Nat /\ \A i, j \in 1 .. n : order[i] = "load" /\ order[j] = "load" => i = j
  BY <1>1, FailuresPosted
<1>4. /\ posted \in Seq(Events) /\ Len(posted) = n
      /\ \A i \in 1 .. n : posted[i] \in Events /\ (posted[i] = Completion("load") <=> order[i] = "load")
  <2>1. DOMAIN order = 1 .. n
    OBVIOUS
  <2>2. \A i \in 1 .. n : posted[i] \in Events /\ (posted[i] = Completion("load") <=> order[i] = "load")
    BY <2>1, SlotFacts
  <2> QED
    BY <1>3, <2>1, <2>2
<1>5. loop \in Seq(Events) /\ loop' = loop \o posted
  BY <1>1 DEF LoadTrue
<1> HIDE DEF n, posted
<1>6. /\ loop' \in Seq(Events) /\ Len(loop) \in Nat /\ Len(loop') = Len(loop) + n
      /\ \A i \in 1 .. Len(loop) : i \in 1 .. Len(loop') /\ loop'[i] = loop[i]
      /\ \A i \in 1 .. Len(loop') :
           i \in 1 .. Len(loop) \/ (i - Len(loop) \in 1 .. n /\ loop'[i] = posted[i - Len(loop)])
  <2>0. loop \in Seq(Events) /\ posted \in Seq(Events) /\ Len(posted) = n /\ loop' = loop \o posted
    BY <1>4, <1>5
  <2>1. loop' \in Seq(Events) /\ Len(loop) \in Nat /\ Len(loop') = Len(loop) + n
    <3>1. loop \o posted \in Seq(Events) /\ Len(loop \o posted) = Len(loop) + Len(posted) /\ Len(loop) \in Nat
      BY <2>0
    <3> QED
      BY <2>0, <3>1
  <2>2. \A i \in 1 .. Len(loop) : i \in 1 .. Len(loop') /\ loop'[i] = loop[i]
    BY <1>3, <1>4, <1>5, <2>1
  <2>3. ASSUME NEW i \in 1 .. Len(loop'), i \notin 1 .. Len(loop)
        PROVE  i - Len(loop) \in 1 .. n /\ loop'[i] = posted[i - Len(loop)]
    BY <1>3, <1>4, <1>5, <2>1, <2>3
  <2> QED
    BY <2>1, <2>2, <2>3
<1>7. "load" \notin ss => SameLoad
  BY <1>2, SlotFacts DEF SameLoad
<1>8. ASSUME "load" \in ss
      PROVE  /\ worker["load"] = "none" /\ worker'["load"] \in {"none", "request"} /\ IsLoading("load")'
             /\ \A i \in 1 .. Len(loop) : loop[i] # Completion("load")
  BY <1>2, <1>8, SlotFacts, PlacesOfWork DEF LoadTrue, IsLoading
<1>9. ASSUME "load" \in ss PROVE LoadTrue'
  <2>1. ASSUME NEW i \in 1 .. Len(loop'), loop'[i] = Completion("load")
        PROVE  i - Len(loop) \in 1 .. n /\ order[i - Len(loop)] = "load" /\ worker'["load"] = "none"
    <3>1. i - Len(loop) \in 1 .. n /\ order[i - Len(loop)] = "load"
      BY <1>4, <1>6, <1>8, <1>9, <2>1
    <3>2. "load" \in broken
      BY <1>1, <3>1 DEF n
    <3> QED
      BY <1>2, <1>9, <3>1, <3>2, SlotFacts
  <2>2. \A i, j \in 1 .. Len(loop') : loop'[i] = Completion("load") /\ loop'[j] = Completion("load") => i = j
    <3>1. \A i, j \in 1 .. Len(loop') : i - Len(loop) = j - Len(loop) => i = j
      BY <1>3, <1>6
    <3> QED
      BY <1>3, <2>1, <3>1
  <2>3. DOMAIN uiTaskState' = Slots /\ DOMAIN worker' = Slots /\ DOMAIN outcome' = Slots
    BY <1>2
  <2> QED
    BY <1>6, <1>8, <1>9, <2>1, <2>2, <2>3 DEF LoadTrue, IsLoading
<1>10. ASSUME "load" \notin ss PROVE LoadTrue'
  <2>1. ASSUME NEW i \in 1 .. Len(loop'), loop'[i] = Completion("load")
        PROVE  i \in 1 .. Len(loop) /\ loop[i] = Completion("load")
    <3>1. \A k \in 1 .. n : order[k] # "load"
      BY <1>10 DEF n
    <3> QED
      BY <1>4, <1>6, <2>1, <3>1
  <2> QED
    BY <1>6, <1>7, <1>10, <2>1 DEF LoadTrue, SameLoad, IsLoading
<1> QED
  BY <1>6, <1>7, <1>8, <1>9, <1>10
-----------------------------------------------------------------------------
(***************************************************************************)
(* Messages.                                                               *)
(***************************************************************************)
\* A message about some assets names each with its balance.
LEMMA MessageFacts ==
  ASSUME NEW changed \in SUBSET Assets, changed # {}, NEW values \in [Assets -> Nat],
         NEW msg \in Coins(changed, values)
  PROVE  /\ msg \in Seq(Coin) /\ msg # <<>>
         /\ \A i \in 1 .. Len(msg) : msg[i].value = values[msg[i].asset]
         /\ \A a \in changed : [asset |-> a, value |-> values[a]] \in CoinsOf(msg)
<1>1. IsFiniteSet(changed)
  BY StreamAssumption, FS_Subset
<1>2. Cardinality(changed) \in Nat \ {0}
  BY <1>1, FS_CardinalityType, FS_EmptySet
<1>3. /\ msg \in [1 .. Cardinality(changed) -> [asset : changed, value : {values[a] : a \in changed}]]
      /\ {msg[i].asset : i \in DOMAIN msg} = changed
      /\ \A i \in DOMAIN msg : msg[i].value = values[msg[i].asset]
  BY DEF Coins
<1>4. \A i \in 1 .. Cardinality(changed) : msg[i] \in Coin
  <2>1. [asset : changed, value : {values[a] : a \in changed}] \subseteq Coin
    BY DEF Coin
  <2> QED
    BY <1>3, <2>1
<1>5. msg \in Seq(Coin) /\ Len(msg) = Cardinality(changed) /\ DOMAIN msg = 1 .. Len(msg)
  BY <1>2, <1>3, <1>4
<1>6. ASSUME NEW a \in changed PROVE [asset |-> a, value |-> values[a]] \in CoinsOf(msg)
  <2>1. PICK i \in DOMAIN msg : msg[i].asset = a
    BY <1>3
  <2>2. msg[i] \in Coin /\ msg[i].value = values[a]
    BY <1>3, <1>4, <1>5, <2>1
  <2>3. msg[i] = [asset |-> a, value |-> values[a]]
    BY <2>1, <2>2 DEF Coin
  <2> QED
    BY <1>5, <2>3 DEF CoinsOf
<1> QED
  BY <1>2, <1>3, <1>5, <1>6

\* What was said stays said while the account only grows.
LEMMA ToldGrows ==
  ASSUME account \in [Assets -> Nat], account' \in [Assets -> Nat], \A a \in Assets : account[a] <= account'[a],
         NEW msg, Told(msg)
  PROVE  msg \in Seq(Coin) /\ \A i \in 1 .. Len(msg) : msg[i].value <= account'[msg[i].asset]
<1>1. \A i \in 1 .. Len(msg) : msg[i] \in Coin /\ msg[i].value <= account[msg[i].asset]
  BY DEF Told
<1>2. \A i \in 1 .. Len(msg) : msg[i].asset \in Assets /\ msg[i].value \in Nat
  BY <1>1 DEF Coin
<1> QED
  BY <1>1, <1>2 DEF Told

\* One coin of a message is written to the cache.
LEMMA CoinTaken ==
  ASSUME NEW msg, Told(msg), msg # <<>>
  PROVE  /\ Head(msg) \in Coin /\ Head(msg).asset \in Assets /\ Head(msg).value \in Nat
         /\ Head(msg).value <= account[Head(msg).asset]
         /\ Len(msg) \in Nat /\ Told(Tail(msg)) /\ (Len(msg) = 1 <=> Tail(msg) = <<>>)
         /\ \A coin \in CoinsOf(msg) : coin = Head(msg) \/ coin \in CoinsOf(Tail(msg))
<1>1. msg \in Seq(Coin) /\ \A i \in 1 .. Len(msg) : msg[i].value <= account[msg[i].asset]
  BY DEF Told
<1>2. Head(msg) \in Coin /\ Head(msg) = msg[1] /\ 1 \in 1 .. Len(msg) /\ Len(msg) \in Nat
  BY <1>1
<1>3. /\ Tail(msg) \in Seq(Coin) /\ (Len(msg) = 1 <=> Tail(msg) = <<>>)
      /\ \A i \in 1 .. Len(Tail(msg)) : Tail(msg)[i] = msg[i + 1] /\ i + 1 \in 1 .. Len(msg)
      /\ \A i \in 1 .. Len(msg) : i = 1 \/ (i - 1 \in 1 .. Len(Tail(msg)) /\ Tail(msg)[i - 1] = msg[i])
  <2>1. msg \in Seq(Coin) /\ msg # <<>>
    BY <1>1
  <2>2. Tail(msg) \in Seq(Coin) /\ Len(Tail(msg)) = Len(msg) - 1 /\ Len(msg) \in Nat \ {0}
    BY <2>1
  <2>3. \A i \in 1 .. Len(Tail(msg)) : Tail(msg)[i] = msg[i + 1] /\ i + 1 \in 1 .. Len(msg)
    BY <2>1, <2>2
  <2>4. ASSUME NEW i \in 1 .. Len(msg), i # 1
        PROVE  i - 1 \in 1 .. Len(Tail(msg)) /\ Tail(msg)[i - 1] = msg[i]
    BY <2>1, <2>2, <2>4
  <2>5. Len(msg) = 1 <=> Tail(msg) = <<>>
    BY <2>2
  <2> QED
    BY <2>2, <2>3, <2>4, <2>5
<1>4. Told(Tail(msg))
  BY <1>1, <1>3 DEF Told
<1>5. \A coin \in CoinsOf(msg) : coin = Head(msg) \/ coin \in CoinsOf(Tail(msg))
  BY <1>2, <1>3 DEF CoinsOf
<1> QED
  BY <1>1, <1>2, <1>3, <1>4, <1>5 DEF Coin
-----------------------------------------------------------------------------
(***************************************************************************)
(* What leaves a part of the invariant alone.                              *)
(***************************************************************************)
Idle == {"none", "connecting", "subscribing", "closed", "finished"}

LEMMA MessagesStay ==
  ASSUME MessagesTrue, UNCHANGED <<account, inbox, coins, answer>>,
         worker'["load"] = "write" => worker["load"] = "write",
         runner' = "coins" <=> runner = "coins", runner' \in Idle => inbox = <<>>
  PROVE  MessagesTrue'
  BY DEF MessagesTrue, Told, Idle

LEMMA CacheStays ==
  ASSUME CacheTrue, UNCHANGED <<account, inbox, coins, balances>>, missed \subseteq missed'
  PROVE  CacheTrue'
  BY DEF CacheTrue, CoinsOnWay, CoinsOf, Latest

LEMMA NotifyPosts ==
  ASSUME NEW kind \in {"status", "balances"}, Notify(kind) PROVE Posts
  BY SlotFacts DEF Notify, Post, Posts

\* A thread that leaves the load and the balances alone.
LEMMA OthersKeepView ==
  ASSUME IInv, SameLoad, Posts, UNCHANGED <<stopping, observed, catalogVars, balances>>,
         runner = "coins" => runner' = "coins"
  PROVE  PhaseTrue' /\ LoadTrue' /\ ViewTrue'
<1>1. PhaseTrue'
  BY DEF IInv, PhaseTrue
<1>2. LoadTrue'
  BY LoadPosts DEF IInv
<1>3. ViewTrue'
  BY NewsStays DEF IInv, ViewTrue
<1> QED
  BY <1>1, <1>2, <1>3

\* An event is taken that does not tell of balances.
LEMMA NewsTaken ==
  ASSUME LoadTrue, SameLoad, loop # <<>>, loop' = Tail(loop), UNCHANGED runner, News,
         Head(loop) # [kind |-> "balances"], Head(loop) # Completion("load")
  PROVE  News'
<1>1. /\ Head(loop) = loop[1]
      /\ \A i \in 1 .. Len(loop) : i = 1 \/ (i - 1 \in 1 .. Len(loop') /\ loop'[i - 1] = loop[i])
  BY EventTaken
<1>2. CASE runner = "coins" \/ worker["load"] = "write"
  BY <1>2 DEF News, SameLoad
<1>3. CASE \E i \in 1 .. Len(loop) : loop[i] = [kind |-> "balances"]
  BY <1>1, <1>3 DEF News
<1>4. CASE outcome["load"] # Failure /\ \E i \in 1 .. Len(loop) : loop[i] = Completion("load")
  BY <1>1, <1>4 DEF News, SameLoad
<1> QED
  BY <1>2, <1>3, <1>4 DEF News
-----------------------------------------------------------------------------
(***************************************************************************)
(* The interface thread.                                                   *)
(***************************************************************************)
LEMMA StartupStep == ASSUME IInv, Startup PROVE IInv'
<1>1. PICK broken \in SUBSET Slots : Started(Slots, broken)
  BY DEF Startup
<1>2. LoadTrue' /\ worker'["load"] # "write"
  BY <1>1, SlotFacts, TasksStart DEF IInv
<1>3. PhaseTrue' /\ ViewTrue'
  BY DEF Startup, IInv, PhaseTrue, ViewTrue
<1>4. MessagesTrue' /\ CacheTrue'
  BY <1>2, MessagesStay, CacheStays DEF Startup, UnchangedStream, IInv, MessagesTrue, Idle
<1> QED
  BY <1>2, <1>3, <1>4 DEF IInv

LEMMA ProcessEventStep == ASSUME IInv, ProcessEvent PROVE IInv'
<1> DEFINE event == Head(loop)
<1>1. /\ loop # <<>> /\ loop' = Tail(loop) /\ event \in Events
      /\ UNCHANGED <<streamVars, balanceVars, missed, stopping, observed, phase>>
  BY EventTaken DEF ProcessEvent, UnchangedStream, IInv
<1>2. /\ PhaseTrue /\ LoadTrue /\ ViewTrue /\ MessagesTrue /\ CacheTrue /\ phase = "running"
  BY DEF IInv, ProcessEvent
<1>3. /\ event.kind = "status" <=> event = [kind |-> "status"]
      /\ event.kind = "balances" <=> event = [kind |-> "balances"]
      /\ event.kind = "completeTask" /\ event.slot = "load" <=> event = Completion("load")
      /\ event.kind = "completeTask" /\ event.slot = "liveStart" <=> event = Completion("liveStart")
  BY <1>1, SlotFacts DEF Events
<1>4. SameLoad \/ worker'["load"] = "none" => MessagesTrue' /\ CacheTrue'
  BY <1>1, <1>2, MessagesStay, CacheStays DEF SameLoad, MessagesTrue, Idle
<1>5. CASE /\ event.kind = "status" /\ handleUserStreamStatusChanged
           /\ UNCHANGED <<taskVars, shown, hasSuccessfulSnapshot>>
  <2>1. SameLoad
    BY <1>2, <1>5, LoadStays
  <2>2. LoadTrue'
    BY <1>1, <1>2, <2>1, OtherTaken
  <2>3. News => News'
    BY <1>1, <1>2, <1>3, <1>5, <2>1, NewsTaken, SlotFacts
  <2>4. ViewTrue' /\ PhaseTrue'
    BY <1>1, <1>2, <1>5, <2>3 DEF ViewTrue, PhaseTrue
  <2> QED
    BY <1>4, <2>1, <2>2, <2>4 DEF IInv
<1>6. CASE event.kind = "balances" /\ handleBalanceCacheChanged /\ UNCHANGED <<taskVars, liveRetryTimer>>
  <2>1. SameLoad
    BY <1>2, <1>6, LoadStays
  <2>2. LoadTrue'
    BY <1>1, <1>2, <2>1, OtherTaken
  <2>3. ViewTrue' /\ PhaseTrue'
    BY <1>1, <1>2, <1>6 DEF ViewTrue, PhaseTrue, handleBalanceCacheChanged, storeBalances
  <2> QED
    BY <1>4, <2>1, <2>2, <2>3 DEF IInv
<1>7. CASE /\ event.kind = "completeTask" /\ event.slot = "load"
           /\ TaskEnds("load") /\ LoadDelivered /\ UNCHANGED liveRetryTimer
  <2>1. LoadTrue' /\ worker'["load"] = "none" /\ worker["load"] # "write"
    BY <1>1, <1>2, <1>3, <1>7, LoadTaken
  <2>2. CASE outcome["load"] = Failure
    <3>1. UNCHANGED <<shown, hasSuccessfulSnapshot>>
      BY <1>7, <2>2 DEF LoadDelivered
    <3>2. ASSUME News PROVE News'
      <4>1. CASE runner = "coins"
        BY <1>1, <4>1 DEF News
      <4>2. CASE \E i \in 1 .. Len(loop) : loop[i] = [kind |-> "balances"]
        <5>1. PICK i \in 1 .. Len(loop) : loop[i] = [kind |-> "balances"]
          BY <4>2
        <5>2. i # 1
          BY <1>1, <1>2, <1>3, <1>7, <5>1, EventTaken, SlotFacts
        <5> QED
          BY <1>1, <1>2, <5>1, <5>2, EventTaken DEF News
      <4> QED
        BY <2>1, <2>2, <3>2, <4>1, <4>2 DEF News
    <3> QED
      BY <1>1, <1>2, <1>4, <2>1, <3>1, <3>2 DEF IInv, ViewTrue, PhaseTrue
  <2>3. CASE outcome["load"] # Failure
    <3>1. shown' = balances /\ hasSuccessfulSnapshot' = TRUE
      BY <1>7, <2>3 DEF LoadDelivered, storeBalances
    <3> QED
      BY <1>1, <1>2, <1>4, <2>1, <3>1 DEF IInv, ViewTrue, PhaseTrue
  <2> QED
    BY <2>2, <2>3
<1>8. CASE /\ event.kind = "completeTask" /\ event.slot = "liveStart"
           /\ TaskEnds("liveStart") /\ LiveStartDelivered /\ UNCHANGED <<shown, hasSuccessfulSnapshot>>
  <2>1. SameLoad
    BY <1>2, <1>8, SlotFacts DEF LoadTrue, SameLoad, TaskEnds
  <2>2. LoadTrue'
    BY <1>1, <1>2, <2>1, OtherTaken
  <2>3. News => News'
    BY <1>1, <1>2, <1>3, <1>8, <2>1, NewsTaken, SlotFacts
  <2>4. ViewTrue' /\ PhaseTrue'
    BY <1>1, <1>2, <1>8, <2>3 DEF ViewTrue, PhaseTrue
  <2> QED
    BY <1>4, <2>1, <2>2, <2>4 DEF IInv
<1> QED
  BY <1>5, <1>6, <1>7, <1>8 DEF ProcessEvent

LEMMA RetryTimeoutStep == ASSUME IInv, RetryTimeout PROVE IInv'
<1>1. UNCHANGED <<stopping, observed, phase, hasSuccessfulSnapshot, shown, streamVars, balanceVars, missed>>
  BY DEF RetryTimeout, UnchangedStream
<1>2. /\ SameLoad /\ LoadTrue'
      /\ \A i \in 1 .. Len(loop) : i \in 1 .. Len(loop') /\ loop'[i] = loop[i]
  <2>1. CASE UNCHANGED <<taskVars, loop>>
    BY <2>1, LoadStays, LoadPosts DEF IInv, Posts
  <2>2. ASSUME NEW broken \in SUBSET {"liveStart"}, Started({"liveStart"}, broken)
        PROVE  /\ SameLoad /\ LoadTrue'
               /\ \A i \in 1 .. Len(loop) : i \in 1 .. Len(loop') /\ loop'[i] = loop[i]
    <3>1. {"liveStart"} \in SUBSET Slots /\ "load" \notin {"liveStart"}
      BY SlotFacts
    <3> QED
      BY <2>2, <3>1, TasksStart DEF IInv
  <2> QED
    BY <2>1, <2>2 DEF RetryTimeout
<1>3. News => News'
  BY <1>1, <1>2 DEF News, SameLoad
<1>4. PhaseTrue' /\ ViewTrue'
  BY <1>1, <1>3 DEF IInv, PhaseTrue, ViewTrue
<1>5. MessagesTrue' /\ CacheTrue'
  BY <1>1, <1>2, MessagesStay, CacheStays DEF IInv, SameLoad, MessagesTrue, Idle
<1> QED
  BY <1>2, <1>4, <1>5 DEF IInv

LEMMA UserRefreshesStep == ASSUME IInv, UserRefreshes PROVE IInv'
<1>1. UNCHANGED <<stopping, observed, phase, hasSuccessfulSnapshot, shown, streamVars, balanceVars, missed>>
  BY DEF UserRefreshes, UnchangedStream
<1>2. PICK broken \in SUBSET {"load"} : Started({"load"}, broken)
  BY DEF UserRefreshes
<1>3. /\ LoadTrue' /\ worker["load"] = "none" /\ worker'["load"] # "write"
      /\ \A i \in 1 .. Len(loop) : i \in 1 .. Len(loop') /\ loop'[i] = loop[i] /\ loop[i] # Completion("load")
  <2>1. {"load"} \in SUBSET Slots /\ "load" \in {"load"}
    BY SlotFacts
  <2> QED
    BY <1>2, <2>1, TasksStart DEF IInv
<1>4. News => News'
  BY <1>1, <1>3 DEF News
<1>5. PhaseTrue' /\ ViewTrue'
  BY <1>1, <1>4 DEF IInv, PhaseTrue, ViewTrue
<1>6. MessagesTrue' /\ CacheTrue'
  BY <1>1, <1>3, MessagesStay, CacheStays DEF IInv, MessagesTrue, Idle
<1> QED
  BY <1>3, <1>5, <1>6 DEF IInv

LEMMA ShutdownStep == ASSUME IInv, Quit \/ Shutdown PROVE IInv'
<1>1. /\ UNCHANGED <<taskVars, streamVars, balanceVars, missed, hasSuccessfulSnapshot>>
      /\ phase' \in {"quit", "stop", "stopping", "join", "ended"}
      /\ UNCHANGED <<stopping, loop>> \/ (stopping' = TRUE /\ loop' = <<>>)
      /\ observed' \in {observed, FALSE}
  BY DEF Quit, Shutdown, StopLiveUpdates, EnterStop, Stopped, JoinTasks, Advance, UnchangedView,
         UnchangedStream, ExecutorStops
<1>2. PhaseTrue' /\ ViewTrue'
  BY <1>1 DEF IInv, PhaseTrue, ViewTrue
<1>3. SameLoad
  BY <1>1, LoadStays DEF IInv
<1>4. LoadTrue'
  <2>1. CASE loop' = loop
    BY <1>3, <2>1, LoadPosts DEF IInv, Posts
  <2>2. CASE loop' = <<>>
    BY <1>3, <2>2 DEF IInv, LoadTrue, SameLoad, IsLoading
  <2> QED
    BY <1>1, <2>1, <2>2
<1>5. MessagesTrue' /\ CacheTrue'
  BY <1>1, <1>3, MessagesStay, CacheStays DEF IInv, SameLoad, MessagesTrue, Idle
<1> QED
  BY <1>2, <1>4, <1>5 DEF IInv
-----------------------------------------------------------------------------
(***************************************************************************)
(* The start task, and the callers that start and stop the stream.         *)
(***************************************************************************)
LEMMA StartTaskGoesOn ==
  ASSUME LoadTrue, NEW from, NEW to, WorkGoes("liveStart", from, to), UNCHANGED <<uiTaskState, outcome, loop>>
  PROVE  SameLoad /\ Posts
  BY SlotFacts DEF LoadTrue, SameLoad, WorkGoes, Posts

LEMMA StartTaskComesBack ==
  ASSUME LoadTrue, NEW from, NEW value, WorkReturns("liveStart", from, value)
  PROVE  SameLoad /\ Posts
<1>1. SameLoad
  BY SlotFacts DEF LoadTrue, SameLoad, WorkReturns, WorkGoes
<1>2. Posts
  BY SlotFacts DEF WorkReturns, Post, Posts
<1> QED
  BY <1>1, <1>2

LEMMA StartTaskStepKeepsInv == ASSUME IInv, StartTaskStep PROVE IInv'
<1>1. UNCHANGED <<stopping, observed, balanceVars, catalogVars, missed, streamVars>>
  BY DEF StartTaskStep, StartTask, StartTaskCalls, StartTaskGoes, StartTaskReturns
<1>2. SameLoad /\ Posts
  BY StartTaskGoesOn, StartTaskComesBack
     DEF StartTaskStep, StartTask, StartTaskCalls, StartTaskGoes, StartTaskReturns, IInv
<1>3. PhaseTrue' /\ LoadTrue' /\ ViewTrue'
  BY <1>1, <1>2, OthersKeepView
<1>4. MessagesTrue' /\ CacheTrue'
  BY <1>1, <1>2, MessagesStay, CacheStays DEF IInv, SameLoad, MessagesTrue, Idle
<1> QED
  BY <1>3, <1>4 DEF IInv

LEMMA LifecycleStepKeepsInv == ASSUME IInv, NEW c, LifecycleStep(c) PROVE IInv'
<1>1. UNCHANGED <<taskVars, stopping, observed, balanceVars, catalogVars, missed>> /\ Lifecycle(c)
  BY DEF LifecycleStep
<1>2. /\ UNCHANGED <<inbox, coins>> /\ Posts
      /\ UNCHANGED runner \/ (runner \in {"none", "finished"} /\ runner' \in {"none", "connecting"})
  <2>1. CASE Start(c)
    BY <2>1, NotifyPosts DEF Start, setStreamStatus, Posts
  <2>2. CASE StopClears(c) \/ StopCloses(c)
    BY <2>2 DEF StopClears, StopCloses, Posts
  <2>3. CASE StopJoins(c)
    BY <2>3, NotifyPosts DEF StopJoins, setStreamStatus
  <2> QED
    BY <1>1, <2>1, <2>2, <2>3 DEF Lifecycle
<1>3. SameLoad
  BY <1>1, LoadStays DEF IInv
<1>4. PhaseTrue' /\ LoadTrue' /\ ViewTrue'
  BY <1>1, <1>2, <1>3, OthersKeepView
<1>5. MessagesTrue' /\ CacheTrue'
  BY <1>1, <1>2, <1>3, MessagesStay, CacheStays DEF IInv, SameLoad, MessagesTrue, Idle
<1> QED
  BY <1>4, <1>5 DEF IInv
-----------------------------------------------------------------------------
(***************************************************************************)
(* The runner.                                                             *)
(***************************************************************************)
\* The steps of the runner that leave the messages alone.
LEMMA RunnerWaitsStep ==
  ASSUME IInv, RunnerStep,
         RunnerConnects \/ RunnerSubscribed \/ RunnerLoops \/ RunnerEnds \/ RunnerFails \/ RunnerReadsEnd
  PROVE  IInv'
<1>1. UNCHANGED <<taskVars, stopping, observed, balanceVars, catalogVars, inbox, coins>>
  BY DEF RunnerStep, RunnerWorks, RunnerConnects, RunnerSubscribed, RunnerLoops, RunnerEnds, RunnerFails,
         RunnerReadsEnd, RunnerCloses, ReadWallet
<1>2. Posts
  BY NotifyPosts
     DEF RunnerConnects, RunnerSubscribed, RunnerLoops, RunnerEnds, RunnerFails, RunnerReadsEnd, setStreamStatus, Posts
<1>3. /\ runner # "coins" /\ runner' # "coins"
      /\ runner' \in Idle => runner \in Idle
  BY DEF RunnerConnects, RunnerSubscribed, RunnerLoops, RunnerEnds, RunnerFails, RunnerReadsEnd, Idle
<1>4. SameLoad
  BY <1>1, LoadStays DEF IInv
<1>5. PhaseTrue' /\ LoadTrue' /\ ViewTrue'
  BY <1>1, <1>2, <1>3, <1>4, OthersKeepView
<1>6. missed \subseteq missed'
  BY DEF RunnerStep
<1>7. MessagesTrue' /\ CacheTrue'
  BY <1>1, <1>3, <1>4, <1>6, MessagesStay, CacheStays DEF IInv, SameLoad, MessagesTrue, Idle
<1> QED
  BY <1>5, <1>7 DEF IInv

\* The messages that are lost with the connection are missed.
LEMMA RunnerClosesStep == ASSUME IInv, RunnerStep, RunnerCloses PROVE IInv'
<1>1. /\ runner = "closing" /\ runner' = "closed" /\ inbox' = <<>> /\ UNCHANGED <<coins, loop>>
      /\ UNCHANGED <<taskVars, stopping, observed, balanceVars, catalogVars>>
      /\ missed' = missed \cup InboxAssets
  BY DEF RunnerStep, RunnerCloses, RunnerWorks, RunnerFails, RunnerReadsEnd, RunnerConnects, RunnerSubscribed,
         RunnerLoops, RunnerEnds, ReadWallet
<1>2. SameLoad /\ Posts
  BY <1>1, LoadStays DEF IInv, Posts
<1>3. PhaseTrue' /\ LoadTrue' /\ ViewTrue'
  BY <1>1, <1>2, OthersKeepView
<1>4. MessagesTrue'
  BY <1>1, <1>2 DEF IInv, MessagesTrue, Told, SameLoad
<1>5. coins = <<>>
  BY <1>1 DEF IInv, MessagesTrue
<1>6. ASSUME NEW a \in Assets, Latest(a) \in CoinsOnWay PROVE a \in InboxAssets
  <2>1. PICK i \in 1 .. Len(inbox) : Latest(a) \in CoinsOf(inbox[i])
    BY <1>5, <1>6 DEF CoinsOnWay, CoinsOf
  <2>2. PICK j \in 1 .. Len(inbox[i]) : inbox[i][j] = Latest(a)
    BY <2>1 DEF CoinsOf
  <2>3. inbox \in Seq(Seq(Coin)) /\ inbox[i] \in Seq(Coin)
    BY DEF IInv, MessagesTrue
  <2>4. i \in DOMAIN inbox /\ j \in DOMAIN inbox[i] /\ inbox[i][j].asset = a
    BY <2>2, <2>3 DEF Latest
  <2> QED
    BY <2>4 DEF InboxAssets
<1>7. CacheTrue'
  BY <1>1, <1>6 DEF IInv, CacheTrue
<1> QED
  BY <1>3, <1>4, <1>7 DEF IInv

LEMMA ReadWalletStep == ASSUME IInv, RunnerStep, ReadWallet PROVE IInv'
<1>1. /\ runner = "reading" /\ runner' = "coins" /\ inbox # <<>> /\ coins' = Head(inbox) /\ inbox' = Tail(inbox)
      /\ UNCHANGED <<taskVars, stopping, observed, balanceVars, catalogVars, missed, loop>>
  BY DEF RunnerStep, ReadWallet, RunnerCloses, RunnerWorks, RunnerFails, RunnerReadsEnd, RunnerConnects,
         RunnerSubscribed, RunnerLoops, RunnerEnds
<1>2. SameLoad /\ Posts
  BY <1>1, LoadStays DEF IInv, Posts
<1>3. PhaseTrue' /\ LoadTrue' /\ ViewTrue'
  BY <1>1, <1>2, OthersKeepView
<1>4. inbox \in Seq(Seq(Coin)) /\ \A i \in 1 .. Len(inbox) : inbox[i] # <<>> /\ Told(inbox[i])
  BY DEF IInv, MessagesTrue
<1>5. /\ Head(inbox) = inbox[1] /\ 1 \in 1 .. Len(inbox) /\ inbox' \in Seq(Seq(Coin))
      /\ \A i \in 1 .. Len(inbox') : inbox'[i] = inbox[i + 1] /\ i + 1 \in 1 .. Len(inbox)
      /\ \A i \in 1 .. Len(inbox) : i = 1 \/ (i - 1 \in 1 .. Len(inbox') /\ inbox'[i - 1] = inbox[i])
  <2>1. inbox' \in Seq(Seq(Coin)) /\ Len(inbox') = Len(inbox) - 1 /\ Len(inbox) \in Nat \ {0}
    BY <1>1, <1>4
  <2>2. \A i \in 1 .. Len(inbox') : inbox'[i] = inbox[i + 1] /\ i + 1 \in 1 .. Len(inbox)
    BY <1>1, <1>4, <2>1
  <2>3. ASSUME NEW i \in 1 .. Len(inbox), i # 1
        PROVE  i - 1 \in 1 .. Len(inbox') /\ inbox'[i - 1] = inbox[i]
    BY <1>1, <1>4, <2>1, <2>3
  <2> QED
    BY <1>1, <1>4, <2>1, <2>2, <2>3
<1>6. \A msg : Told(msg)' <=> Told(msg)
  BY <1>1 DEF Told
<1>7. MessagesTrue'
  <2>1. Told(coins') /\ coins' # <<>>
    BY <1>1, <1>4, <1>5
  <2>2. \A i \in 1 .. Len(inbox') : inbox'[i] # <<>> /\ Told(inbox'[i])
    BY <1>4, <1>5
  <2>3. Told(coins)' /\ \A i \in 1 .. Len(inbox') : Told(inbox[i])'
    BY <1>1, <2>1, <2>2 DEF Told
  <2>4. worker'["load"] = "write" => Told(answer)' /\ answer' # <<>>
    BY <1>1, <1>2 DEF IInv, MessagesTrue, SameLoad, Told
  <2> QED
    BY <1>1, <1>5, <2>1, <2>2, <2>3, <2>4 DEF IInv, MessagesTrue
<1>8. CoinsOnWay \subseteq CoinsOnWay'
  <2>1. coins = <<>>
    BY <1>1 DEF IInv, MessagesTrue
  <2>2. CoinsOf(coins) = {}
    BY <2>1 DEF CoinsOf
  <2>3. \A i \in 1 .. Len(inbox) :
          CoinsOf(inbox[i]) \subseteq CoinsOf(coins') \cup UNION {CoinsOf(inbox'[j]) : j \in 1 .. Len(inbox')}
    BY <1>1, <1>5
  <2>4. CoinsOnWay' = CoinsOf(coins') \cup UNION {CoinsOf(inbox'[j]) : j \in 1 .. Len(inbox')}
    BY DEF CoinsOnWay, CoinsOf
  <2> QED
    BY <2>2, <2>3, <2>4 DEF CoinsOnWay
<1>9. CacheTrue'
  BY <1>1, <1>8 DEF IInv, CacheTrue, Latest
<1> QED
  BY <1>3, <1>7, <1>9 DEF IInv
-----------------------------------------------------------------------------
(***************************************************************************)
(* The two writers of the cache.                                           *)
(***************************************************************************)
\* A coin is written: an older one, or one that was on its way, or nothing new.
LEMMA CoinWritten ==
  ASSUME CacheTrue, account \in [Assets -> Nat], UNCHANGED account,
         NEW coin \in Coin, coin.value <= account[coin.asset],
         balances' = [balances EXCEPT ![coin.asset] = coin.value], missed' = StillMissed,
         \A way \in CoinsOnWay : way = coin \/ way \in CoinsOnWay'
  PROVE  CacheTrue'
<1>1. coin.asset \in Assets /\ coin.value \in Nat /\ balances \in [Assets -> Nat]
  BY DEF Coin, CacheTrue
<1>2. /\ balances' \in [Assets -> Nat] /\ balances'[coin.asset] = coin.value
      /\ \A a \in Assets : a # coin.asset => balances'[a] = balances[a]
  BY <1>1
<1>3. ASSUME NEW a \in Assets PROVE balances'[a] <= account'[a]
  BY <1>1, <1>2 DEF CacheTrue
<1>4. ASSUME NEW a \in Assets, balances'[a] # account'[a], Latest(a)' \notin CoinsOnWay'
      PROVE  a \in missed'
  <2>1. Latest(a) \notin CoinsOnWay
    <3>1. ASSUME Latest(a) = coin PROVE balances'[a] = account'[a]
      BY <1>2, <3>1 DEF Latest
    <3> QED
      BY <1>4, <3>1 DEF Latest
  <2>2. CASE a \in missed
    BY <1>4, <2>2 DEF StillMissed
  <2>3. CASE balances[a] = account[a]
    <3>1. balances'[a] < balances[a]
      BY <1>1, <1>2, <1>3, <1>4, <2>3
    <3> QED
      BY <3>1 DEF StillMissed
  <2> QED
    BY <2>1, <2>2, <2>3 DEF CacheTrue
<1> QED
  BY <1>2, <1>3, <1>4 DEF CacheTrue

LEMMA WriteCoinStepKeepsInv == ASSUME IInv, WriteCoinStep PROVE IInv'
<1>1. /\ runner = "coins" /\ balances' = [balances EXCEPT ![Head(coins).asset] = Head(coins).value]
      /\ coins' = Tail(coins) /\ missed' = StillMissed
      /\ UNCHANGED <<taskVars, stopping, observed, catalogVars, inbox, account, answer>>
      /\ IF Len(coins) = 1 THEN runner' = "loop" /\ Notify("balances") ELSE UNCHANGED <<runner, loop>>
  BY DEF WriteCoinStep, WriteCoin
<1>2. coins # <<>> /\ Told(coins) /\ account \in [Assets -> Nat]
  BY <1>1 DEF IInv, MessagesTrue
<1>3. SameLoad /\ Posts
  BY <1>1, LoadStays, NotifyPosts DEF IInv, Posts
<1>4. PhaseTrue' /\ LoadTrue'
  BY <1>1, <1>3, LoadPosts DEF IInv, PhaseTrue
<1>5. ViewTrue'
  <2>1. CASE Len(coins) = 1 /\ phase = "running"
    <3>1. loop' = Append(loop, [kind |-> "balances"]) /\ loop \in Seq(Events)
      BY <1>1, <2>1 DEF Notify, Post, IInv, PhaseTrue, LoadTrue
    <3>2. Len(loop') = Len(loop) + 1 /\ Len(loop) \in Nat /\ loop'[Len(loop) + 1] = [kind |-> "balances"]
      BY <3>1, SlotFacts
    <3> QED
      BY <3>2 DEF ViewTrue, News
  <2>2. CASE Len(coins) # 1 \/ phase # "running"
    BY <1>1, <2>2 DEF ViewTrue, News
  <2> QED
    BY <2>1, <2>2
<1>6. /\ Head(coins) \in Coin /\ Head(coins).value <= account[Head(coins).asset]
      /\ Told(Tail(coins)) /\ (Len(coins) = 1 <=> Tail(coins) = <<>>)
      /\ \A coin \in CoinsOf(coins) : coin = Head(coins) \/ coin \in CoinsOf(Tail(coins))
  BY <1>2, CoinTaken
<1>7. MessagesTrue'
  <2>1. \A msg : Told(msg) => msg \in Seq(Coin) /\ \A i \in 1 .. Len(msg) : msg[i].value <= account'[msg[i].asset]
    BY <1>1 DEF Told
  <2>2. Told(coins)' /\ (runner' = "coins" <=> coins' # <<>>) /\ (runner' \notin Idle)
    BY <1>1, <1>6, <2>1 DEF Told, Idle
  <2>3. \A i \in 1 .. Len(inbox) : Told(inbox[i])'
    BY <1>1 DEF IInv, MessagesTrue, Told
  <2>4. worker'["load"] = "write" => Told(answer)' /\ answer' # <<>>
    BY <1>1, <1>3 DEF IInv, MessagesTrue, SameLoad, Told
  <2> QED
    BY <1>1, <2>2, <2>3, <2>4 DEF IInv, MessagesTrue, Idle
<1>8. \A way \in CoinsOnWay : way = Head(coins) \/ way \in CoinsOnWay'
  <2>1. CoinsOnWay' = CoinsOf(Tail(coins)) \cup UNION {CoinsOf(inbox[i]) : i \in 1 .. Len(inbox)}
    BY <1>1 DEF CoinsOnWay, CoinsOf
  <2> QED
    BY <1>6, <2>1 DEF CoinsOnWay
<1>9. CacheTrue'
  BY <1>1, <1>2, <1>6, <1>8, CoinWritten DEF IInv
<1> QED
  BY <1>4, <1>5, <1>7, <1>9 DEF IInv

LEMMA RestWriteStepKeepsInv == ASSUME IInv, RestWriteStep PROVE IInv'
<1>1. /\ worker["load"] = "write" /\ balances' = [balances EXCEPT ![Head(answer).asset] = Head(answer).value]
      /\ answer' = Tail(answer) /\ missed' = StillMissed
      /\ UNCHANGED <<stopping, observed, catalogVars, streamVars, account>>
      /\ IF Len(answer) = 1 THEN WorkReturns("load", "write", Success("balances")) ELSE UNCHANGED <<taskVars, loop>>
  BY DEF RestWriteStep, RestWritesCoin
<1>2. answer # <<>> /\ Told(answer) /\ account \in [Assets -> Nat]
  BY <1>1 DEF IInv, MessagesTrue
<1>3. PhaseTrue'
  BY <1>1 DEF IInv, PhaseTrue
<1>4. LoadTrue' /\ ViewTrue' /\ (worker'["load"] = "write" => Len(answer) # 1)
  <2>1. CASE Len(answer) = 1 /\ ~stopping
    <3>1. /\ LoadTrue' /\ worker'["load"] = "exited" /\ outcome'["load"] = Success("balances")
          /\ \E i \in 1 .. Len(loop') : loop'[i] = Completion("load")
      BY <1>1, <2>1, LoadReturns DEF IInv
    <3>2. News'
      BY <3>1, OutcomeFacts DEF News
    <3> QED
      BY <3>1, <3>2 DEF ViewTrue
  <2>2. CASE Len(answer) = 1 /\ stopping
    <3>1. phase' # "running" /\ loop' = loop
      BY <1>1, <2>2 DEF IInv, PhaseTrue, WorkReturns, Post
    <3>2. /\ worker' = [worker EXCEPT !["load"] = "exited"] /\ uiTaskState' = uiTaskState
          /\ DOMAIN outcome' = DOMAIN outcome
      BY <1>1, <2>2 DEF WorkReturns, WorkGoes
    <3>3. worker'["load"] = "exited" /\ DOMAIN worker' = Slots
      BY <3>2, SlotFacts DEF IInv, LoadTrue
    <3> QED
      BY <1>1, <3>1, <3>2, <3>3 DEF IInv, LoadTrue, ViewTrue, IsLoading
  <2>3. CASE Len(answer) # 1
    <3>1. SameLoad /\ Posts
      BY <1>1, <2>3, LoadStays DEF IInv, Posts
    <3> QED
      BY <1>1, <2>3, <3>1, LoadPosts DEF IInv, ViewTrue, News, SameLoad
  <2> QED
    BY <2>1, <2>2, <2>3 DEF IInv, PhaseTrue
<1>5. /\ Head(answer) \in Coin /\ Head(answer).value <= account[Head(answer).asset]
      /\ Told(Tail(answer)) /\ (Len(answer) = 1 <=> Tail(answer) = <<>>)
  BY <1>2, CoinTaken
<1>6. MessagesTrue'
  <2>1. worker'["load"] = "write" => Told(answer)' /\ answer' # <<>>
    BY <1>1, <1>4, <1>5 DEF Told
  <2>2. Told(coins)' /\ \A i \in 1 .. Len(inbox) : Told(inbox[i])'
    BY <1>1 DEF IInv, MessagesTrue, Told
  <2> QED
    BY <1>1, <2>1, <2>2 DEF IInv, MessagesTrue
<1>7. \A way \in CoinsOnWay : way \in CoinsOnWay'
  BY <1>1 DEF CoinsOnWay, CoinsOf
<1>8. CacheTrue'
  BY <1>1, <1>2, <1>5, <1>7, CoinWritten DEF IInv
<1> QED
  BY <1>3, <1>4, <1>6, <1>8 DEF IInv

LEMMA RestStepKeepsInv == ASSUME IInv, RestStep PROVE IInv'
<1>1. UNCHANGED <<stopping, observed, catalogVars, streamVars, account, balances, missed>>
  BY DEF RestStep, RestAnswers, RestFails
<1>2. PhaseTrue' /\ CacheTrue'
  BY <1>1, CacheStays DEF IInv, PhaseTrue
<1>3. CASE RestAnswers("load")
  <2>1. /\ worker["load"] = "request" /\ worker' = [worker EXCEPT !["load"] = "write"]
        /\ UNCHANGED <<uiTaskState, outcome, loop>>
    BY <1>3 DEF RestAnswers, WorkGoes
  <2>2. worker'["load"] = "write" /\ DOMAIN worker' = Slots
    BY <2>1, SlotFacts DEF IInv, LoadTrue
  <2>3. LoadTrue'
    BY <2>1, <2>2 DEF IInv, LoadTrue, IsLoading
  <2>4. ViewTrue'
    BY <2>2 DEF ViewTrue, News
  <2>5. answer' \in Coins(Assets, account) /\ account \in [Assets -> Nat]
    BY <1>3 DEF RestAnswers, IInv, MessagesTrue
  <2>6. Told(answer)' /\ answer' # <<>>
    <3>1. Assets \in SUBSET Assets /\ Assets # {}
      BY StreamAssumption
    <3>2. /\ answer' \in Seq(Coin) /\ answer' # <<>>
          /\ \A i \in 1 .. Len(answer') : answer'[i].value = account[answer'[i].asset]
      BY <2>5, <3>1, MessageFacts
    <3>3. \A i \in 1 .. Len(answer') : answer'[i] \in Coin
      BY <3>2
    <3>4. \A i \in 1 .. Len(answer') : answer'[i].value \in Nat
      BY <3>3 DEF Coin
    <3>5. \A i \in 1 .. Len(answer') : answer'[i].value <= account[answer'[i].asset]
      BY <3>2, <3>4
    <3> QED
      BY <1>1, <3>2, <3>5 DEF Told
  <2>7. MessagesTrue'
    BY <1>1, <2>6 DEF IInv, MessagesTrue, Told
  <2> QED
    BY <1>2, <2>3, <2>4, <2>7 DEF IInv
<1>4. CASE RestFails("load")
  <2>1. WorkReturns("load", "request", Failure) /\ UNCHANGED answer
    BY <1>4 DEF RestFails
  <2>2. CASE ~stopping
    <3>1. /\ LoadTrue' /\ worker["load"] = "request" /\ worker'["load"] = "exited"
          /\ \A i \in 1 .. Len(loop) : i \in 1 .. Len(loop') /\ loop'[i] = loop[i] /\ loop[i] # Completion("load")
      BY <2>1, <2>2, LoadReturns DEF IInv
    <3>2. News => News'
      BY <1>1, <3>1 DEF News
    <3>3. ViewTrue'
      BY <1>1, <3>2 DEF IInv, ViewTrue
    <3>4. MessagesTrue'
      BY <1>1, <2>1, <3>1, MessagesStay DEF IInv, MessagesTrue, Idle
    <3> QED
      BY <1>2, <3>1, <3>3, <3>4 DEF IInv
  <2>3. CASE stopping
    <3>1. phase' # "running" /\ loop' = loop
      BY <1>1, <2>1, <2>3 DEF IInv, PhaseTrue, WorkReturns, Post
    <3>2. /\ worker["load"] = "request" /\ worker' = [worker EXCEPT !["load"] = "exited"]
          /\ uiTaskState' = uiTaskState /\ DOMAIN outcome' = DOMAIN outcome
      BY <2>1 DEF WorkReturns, WorkGoes
    <3>3. worker'["load"] = "exited" /\ DOMAIN worker' = Slots
      BY <3>2, SlotFacts DEF IInv, LoadTrue
    <3>4. LoadTrue' /\ ViewTrue'
      BY <3>1, <3>2, <3>3 DEF IInv, LoadTrue, ViewTrue, IsLoading
    <3>5. MessagesTrue'
      BY <1>1, <2>1, <3>3, MessagesStay DEF IInv, MessagesTrue, Idle
    <3> QED
      BY <1>2, <3>4, <3>5 DEF IInv
  <2> QED
    BY <2>2, <2>3 DEF IInv, PhaseTrue
<1> QED
  BY <1>3, <1>4 DEF RestStep
-----------------------------------------------------------------------------
(***************************************************************************)
(* The account.                                                            *)
(***************************************************************************)
LEMMA AccountStepKeepsInv == ASSUME IInv, AccountStep PROVE IInv'
<1>1. PICK changed \in SUBSET Assets :
        /\ AccountChanges(changed)
        /\ missed' = IF Subscribed THEN missed ELSE missed \cup changed
  BY DEF AccountStep
<1>2. /\ changed # {}
      /\ account' = [a \in Assets |-> IF a \in changed THEN account[a] + 1 ELSE account[a]]
      /\ UNCHANGED <<streamStatus, userStream, runner, socket, coins, balances, answer, loop>>
      /\ UNCHANGED <<taskVars, stopping, observed, catalogVars>>
      /\ IF Subscribed THEN \E msg \in Coins(changed, account') : inbox' = Append(inbox, msg) ELSE UNCHANGED inbox
  BY <1>1 DEF AccountStep, AccountChanges
<1>3. account \in [Assets -> Nat] /\ account' \in [Assets -> Nat] /\ \A a \in Assets : account[a] <= account'[a]
  <2>1. account \in [Assets -> Nat]
    BY DEF IInv, MessagesTrue
  <2> QED
    BY <1>2, <2>1
<1>4. SameLoad /\ Posts
  BY <1>2, LoadStays DEF IInv, Posts
<1>5. PhaseTrue' /\ LoadTrue' /\ ViewTrue'
  BY <1>2, <1>4, OthersKeepView
<1>6. \A msg : Told(msg) => msg \in Seq(Coin) /\ \A i \in 1 .. Len(msg) : msg[i].value <= account'[msg[i].asset]
  BY <1>3, ToldGrows
<1>7. /\ Told(coins)' /\ \A i \in 1 .. Len(inbox) : Told(inbox[i]) /\ inbox[i] # <<>>
      /\ worker'["load"] = "write" => Told(answer)' /\ answer' # <<>>
      /\ inbox \in Seq(Seq(Coin))
  BY <1>2, <1>4, <1>6 DEF IInv, MessagesTrue, SameLoad, Told
<1>8. CASE Subscribed
  <2>1. PICK msg \in Coins(changed, account') : inbox' = Append(inbox, msg)
    BY <1>2, <1>8
  <2>2. /\ msg \in Seq(Coin) /\ msg # <<>>
        /\ \A i \in 1 .. Len(msg) : msg[i].value = account'[msg[i].asset]
        /\ \A a \in changed : [asset |-> a, value |-> account'[a]] \in CoinsOf(msg)
    BY <1>2, <1>3, MessageFacts
  <2>3. /\ inbox' \in Seq(Seq(Coin)) /\ Len(inbox) \in Nat /\ Len(inbox') = Len(inbox) + 1
        /\ inbox'[Len(inbox) + 1] = msg /\ \A i \in 1 .. Len(inbox) : inbox'[i] = inbox[i]
    BY <1>7, <2>1, <2>2
  <2>4. \A i \in 1 .. Len(msg) : msg[i].value <= account'[msg[i].asset]
    <3>1. \A i \in 1 .. Len(msg) : msg[i] \in Coin
      BY <2>2
    <3>2. \A i \in 1 .. Len(msg) : msg[i].value \in Nat
      BY <3>1 DEF Coin
    <3> QED
      BY <2>2, <3>2
  <2>5. ASSUME NEW i \in 1 .. Len(inbox') PROVE inbox'[i] # <<>> /\ Told(inbox[i])'
    <3>1. CASE i = Len(inbox) + 1
      BY <2>2, <2>3, <2>4, <3>1 DEF Told
    <3>2. CASE i \in 1 .. Len(inbox)
      BY <1>6, <1>7, <2>3, <3>2 DEF Told
    <3> QED
      BY <2>3, <3>1, <3>2
  <2>6. MessagesTrue'
    BY <1>2, <1>3, <1>7, <1>8, <2>3, <2>5 DEF IInv, MessagesTrue, Subscribed
  <2>7. CoinsOnWay' = CoinsOf(coins) \cup UNION {CoinsOf(inbox'[i]) : i \in 1 .. Len(inbox')}
    BY <1>2 DEF CoinsOnWay, CoinsOf
  <2>8. CoinsOnWay \subseteq CoinsOnWay' /\ CoinsOf(msg) \subseteq CoinsOnWay'
    <3>1. \A i \in 1 .. Len(inbox) : i \in 1 .. Len(inbox') /\ CoinsOf(inbox[i]) = CoinsOf(inbox'[i])
      BY <2>3
    <3>2. Len(inbox) + 1 \in 1 .. Len(inbox') /\ CoinsOf(msg) = CoinsOf(inbox'[Len(inbox) + 1])
      BY <2>3
    <3> QED
      BY <2>7, <3>1, <3>2 DEF CoinsOnWay
  <2>9. ASSUME NEW a \in Assets
        PROVE  a \in missed' \/ balances'[a] = account'[a] \/ Latest(a)' \in CoinsOnWay'
    <3>1. CASE a \in changed
      BY <2>2, <2>8, <3>1 DEF Latest
    <3>2. CASE a \notin changed
      BY <1>1, <1>2, <1>8, <2>8, <3>2 DEF IInv, CacheTrue, Latest
    <3> QED
      BY <3>1, <3>2
  <2>10. balances' \in [Assets -> Nat] /\ \A a \in Assets : balances'[a] <= account'[a]
    BY <1>2, <1>3 DEF IInv, CacheTrue
  <2> QED
    BY <1>5, <2>6, <2>9, <2>10 DEF IInv, CacheTrue
<1>9. CASE ~Subscribed
  <2>1. UNCHANGED inbox /\ missed' = missed \cup changed
    BY <1>1, <1>2, <1>9
  <2>2. \A i \in 1 .. Len(inbox) : Told(inbox[i])'
    BY <1>6, <1>7, <2>1 DEF Told
  <2>3. MessagesTrue'
    BY <1>2, <1>3, <1>7, <2>1, <2>2 DEF IInv, MessagesTrue
  <2>4. CoinsOnWay' = CoinsOnWay
    BY <1>2, <2>1 DEF CoinsOnWay, CoinsOf
  <2>5. balances' \in [Assets -> Nat] /\ \A a \in Assets : balances'[a] <= account'[a]
    BY <1>2, <1>3 DEF IInv, CacheTrue
  <2>6. \A a \in Assets : a \in missed' \/ balances'[a] = account'[a] \/ Latest(a)' \in CoinsOnWay'
    BY <1>2, <2>1, <2>4 DEF IInv, CacheTrue, Latest
  <2> QED
    BY <1>5, <2>3, <2>5, <2>6 DEF IInv, CacheTrue
<1> QED
  BY <1>8, <1>9
-----------------------------------------------------------------------------
(***************************************************************************)
(* The invariant, and the theorem.                                         *)
(***************************************************************************)
LEMMA InitInv == Init => IInv
<1> SUFFICES ASSUME Init PROVE IInv
  OBVIOUS
<1> USE DEF Init, ExecutorInit, StreamInit
<1>1. PhaseTrue /\ ViewTrue
  BY DEF PhaseTrue, ViewTrue
<1>2. LoadTrue
  BY SlotFacts DEF LoadTrue
<1>3. MessagesTrue
  BY SlotFacts DEF MessagesTrue, Told
<1>4. CacheTrue
  BY DEF CacheTrue
<1> QED
  BY <1>1, <1>2, <1>3, <1>4 DEF IInv

LEMMA StepInv == IInv /\ [Next]_vars => IInv'
<1> SUFFICES ASSUME IInv, [Next]_vars PROVE IInv'
  OBVIOUS
<1>1. CASE InterfaceThread \/ UserRefreshes \/ Quit
  BY <1>1, StartupStep, ProcessEventStep, RetryTimeoutStep, UserRefreshesStep, ShutdownStep, LifecycleStepKeepsInv
     DEF InterfaceThread
<1>2. CASE StarterThread
  BY <1>2, StartTaskStepKeepsInv, LifecycleStepKeepsInv DEF StarterThread
<1>3. CASE LoaderThread
  BY <1>3, RestStepKeepsInv, RestWriteStepKeepsInv DEF LoaderThread
<1>4. CASE RunnerThread
  BY <1>4, RunnerWaitsStep, RunnerClosesStep, ReadWalletStep, WriteCoinStepKeepsInv
     DEF RunnerThread, RunnerStep, RunnerWorks
<1>5. CASE AccountStep
  BY <1>5, AccountStepKeepsInv
<1>6. CASE UNCHANGED vars
  <2>1. SameLoad /\ Posts
    BY <1>6, LoadStays DEF IInv, Posts
  <2>2. PhaseTrue' /\ LoadTrue' /\ ViewTrue'
    BY <1>6, <2>1, OthersKeepView
  <2>3. MessagesTrue' /\ CacheTrue'
    BY <1>6, <2>1, MessagesStay, CacheStays DEF IInv, SameLoad, MessagesTrue, Idle
  <2> QED
    BY <2>2, <2>3 DEF IInv
<1> QED
  BY <1>1, <1>2, <1>3, <1>4, <1>5, <1>6 DEF Next

(***************************************************************************)
(* The invariant holds for any assets, however often the account changes   *)
(* and the balances are loaded.                                            *)
(***************************************************************************)
THEOREM InvariantHolds == Spec => []IInv
<1> QED
  BY InitInv, StepInv, PTL DEF Spec

(***************************************************************************)
(* Once loads, messages and the events they post have come to rest, the    *)
(* balances shown are those of the cache, and a balance that is not the    *)
(* one of the account is one the code is known to have missed.             *)
(***************************************************************************)
THEOREM ViewStaysCurrent == Spec => []ViewIsCurrent
<1>1. IInv => ViewIsCurrent
  <2> SUFFICES ASSUME IInv, Quiet, hasSuccessfulSnapshot
               PROVE  shown = balances /\ \A a \in Assets \ missed : shown[a] = account[a]
    BY DEF ViewIsCurrent
  <2>1. worker["load"] = "none" /\ runner # "coins" /\ loop = <<>> /\ phase = "running"
    BY SlotFacts DEF Quiet
  <2>2. coins = <<>> /\ inbox = <<>>
    BY <2>1 DEF Quiet, IInv, MessagesTrue
  <2>3. ~News
    BY <2>1 DEF News
  <2>4. shown = balances
    BY <2>1, <2>3 DEF IInv, ViewTrue
  <2>5. CoinsOnWay = {}
    BY <2>2 DEF CoinsOnWay, CoinsOf
  <2>6. \A a \in Assets \ missed : shown[a] = account[a]
    BY <2>4, <2>5 DEF IInv, CacheTrue
  <2> QED
    BY <2>4, <2>6
<1> QED
  BY <1>1, InvariantHolds, PTL
=============================================================================
