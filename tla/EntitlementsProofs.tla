-------------------------- MODULE EntitlementsProofs --------------------------
(***************************************************************************)
(* Proofs about Entitlements, for any features, packages, add-ons,         *)
(* processes, workers and overrides.                                       *)
(*                                                                         *)
(* The argument: whatever a sync is about to enable is covered by what was *)
(* bought or handed out, the package of an upgrade included, and lacks     *)
(* nothing of the package or add-on it is about (SyncInv); both sides only *)
(* grow.  So what a commit or a row-by-row sync adds is paid for, and when *)
(* it is done nothing is missing.  A yes that a check is about to cache    *)
(* was a row that is never removed (AnswerInv).                            *)
(***************************************************************************)
EXTENDS Entitlements, TLAPS

\* The packages, and add-ons, the tenant has had.
Had == bought \cup handed

\* A request is about what its step needs, and exactly the upgrade that has
\* written subscription and tenant has them locked.
RequestInv(w) ==
  /\ pc[w] \in InTransaction <=> holder = w
  /\ pc[w] \in Checking => req[w] \in Features
  /\ pc[w] \in InTransaction \cup {"upgrading"} => req[w] \in Packages
  /\ pc[w] \in Attached \cup {"attaching"} => req[w] \in Addons
  /\ pc[w] # "idle" => Provisioned

\* The package a request has read was the tenant's; the add-on it attached
\* is attached.
ReadInv(w) ==
  /\ seen[w].tenant \in Had \cup {NoPackage}
  /\ pc[w] \in Attached => req[w] \in subscription.addons

\* What a sync will enable is paid for, and is all that is missing.
SyncInv(w) ==
  /\ pc[w] = "synced" =>
       /\ PackageFeatures[req[w]] \subseteq seen[w].todo
       /\ seen[w].todo \subseteq Covered(Had \cup {req[w]})
  /\ pc[w] = "enabling" =>
       /\ AddonFeatures[req[w]] \subseteq enabled \cup seen[w].todo
       /\ seen[w].todo \subseteq Covered(Had)

\* A yes that is about to be cached is still true.
AnswerInv(w) == pc[w] = "storing" /\ seen[w].answer = "yes" => req[w] \in enabled

WorkerInv(w) == RequestInv(w) /\ ReadInv(w) /\ SyncInv(w) /\ AnswerInv(w)

\* The rows name only what the tenant has had; before it is provisioned there
\* is nothing.
RowsInv ==
  /\ tenantPackage \in Had \cup {NoPackage}
  /\ subscription.addons \subseteq bought
  /\ ~Provisioned => enabled = {} /\ handed = {}

Promises == BoughtIsEnabled /\ NothingForFree /\ CacheNeverAhead /\ PackagesAgree

IInv == TypeOK /\ RowsInv /\ (\A w \in Workers : WorkerInv(w)) /\ Promises

-----------------------------------------------------------------------------
\* Having more covers more, and having two things covers what each covers.
LEMMA CoveredGrows ==
  ASSUME NEW S, NEW T, S \subseteq T
  PROVE  Covered(S) \subseteq Covered(T)
BY DEF Covered

\* Something is covered by the packages and by the add-ons among the items.
LEMMA CoveredBy ==
  ASSUME NEW S, NEW f
  PROVE  f \in Covered(S) <=>
           \/ \E p \in Packages : p \in S /\ f \in PackageFeatures[p]
           \/ \E a \in Addons : a \in S /\ f \in AddonFeatures[a]
BY DEF Covered

\* A package covers its features, an add-on its own.
LEMMA CoveredItem ==
  /\ \A p \in Packages : Covered({p}) = PackageFeatures[p]
  /\ \A a \in Addons : Covered({a}) = AddonFeatures[a]
<1>1. \A p \in Packages : p \notin Addons
  BY EntitlementsAssumption
<1>2. ASSUME NEW p \in Packages PROVE Covered({p}) = PackageFeatures[p]
  <2>1. \A f : f \in Covered({p}) <=> f \in PackageFeatures[p]
    BY <1>1, <1>2, CoveredBy
  <2>2. QED
    BY <2>1
<1>3. ASSUME NEW a \in Addons PROVE Covered({a}) = AddonFeatures[a]
  <2>1. \A f : f \in Covered({a}) <=> f \in AddonFeatures[a]
    BY <1>1, <1>3, CoveredBy
  <2>2. QED
    BY <2>1
<1>4. QED
  BY <1>2, <1>3

\* One thing more covers what it covers more.
LEMMA CoveredAdds ==
  ASSUME NEW S, NEW x
  PROVE  Covered(S \cup {x}) = Covered(S) \cup Covered({x})
BY DEF Covered

\* What a sync derives: features, those of the package and of each add-on, and
\* nothing that the package and the add-ons do not cover.
LEMMA DerivedFeatures ==
  ASSUME NEW p \in Packages, NEW addons \in SUBSET Addons
  PROVE  /\ FeaturesOf(p, addons) \subseteq Features
         /\ PackageFeatures[p] \subseteq FeaturesOf(p, addons)
         /\ \A a \in addons : AddonFeatures[a] \subseteq FeaturesOf(p, addons)
         /\ FeaturesOf(p, addons) = Covered({p} \cup addons)
<1>1. FeaturesOf(p, addons) \subseteq Features
  BY EntitlementsAssumption DEF FeaturesOf
<1>2. \A f : f \in FeaturesOf(p, addons) <=>
         f \in PackageFeatures[p] \/ \E a \in addons : f \in AddonFeatures[a]
  BY DEF FeaturesOf
<1>3. FeaturesOf(p, addons) = Covered({p} \cup addons)
  <2>1. \A f : f \in Covered({p} \cup addons) <=>
           f \in PackageFeatures[p] \/ \E a \in addons : f \in AddonFeatures[a]
    BY CoveredBy, EntitlementsAssumption
  <2>2. QED
    BY <1>2, <2>1
<1>4. QED
  BY <1>1, <1>3 DEF FeaturesOf

\* A worker that takes no step keeps its invariant, while what it relies on
\* only grows.
LEMMA OtherWorker ==
  ASSUME NEW v \in Workers, WorkerInv(v),
         pc'[v] = pc[v], req'[v] = req[v], seen'[v] = seen[v],
         bought \subseteq bought', handed \subseteq handed', enabled \subseteq enabled',
         subscription.addons \subseteq subscription'.addons,
         holder' = v <=> holder = v
  PROVE  WorkerInv(v)'
<1>1. Had \subseteq Had' /\ Covered(Had) \subseteq Covered(Had')
  BY CoveredGrows DEF Had
<1>2. Covered(Had \cup {req[v]}) \subseteq Covered(Had' \cup {req[v]})
  BY <1>1, CoveredGrows
<1>3. RequestInv(v)'
  BY DEF WorkerInv, RequestInv, Provisioned
<1>4. ReadInv(v)'
  BY <1>1 DEF WorkerInv, ReadInv
<1>5. SyncInv(v)'
  <2>1. CASE pc[v] = "synced"
    BY <2>1, <1>2 DEF WorkerInv, SyncInv
  <2>2. CASE pc[v] = "enabling"
    BY <2>2, <1>1 DEF WorkerInv, SyncInv
  <2>3. QED
    BY <2>1, <2>2 DEF SyncInv
<1>6. AnswerInv(v)'
  BY DEF WorkerInv, AnswerInv
<1>7. QED
  BY <1>3, <1>4, <1>5, <1>6 DEF WorkerInv

\* An idle worker that holds nothing has nothing to keep.
LEMMA IdleWorker ==
  ASSUME NEW w \in Workers, pc'[w] = "idle", seen'[w] = Nothing, holder' # w
  PROVE  WorkerInv(w)'
BY DEF WorkerInv, RequestInv, ReadInv, SyncInv, AnswerInv, InTransaction, Checking, Attached, Nothing

\* A request that goes on, or leaves its add-on among those cut short, leaves
\* nothing unfinished behind unseen.
LEMMA UnfinishedGrows ==
  ASSUME cut \subseteq cut',
         \A v \in Workers : pc[v] \in Attached =>
           \/ pc'[v] \in Attached /\ req'[v] = req[v]
           \/ req[v] \in cut'
  PROVE  Unfinished \subseteq Unfinished'
<1>1. ASSUME NEW x \in Unfinished PROVE x \in Unfinished'
  <2>1. CASE x \in cut
    BY <2>1 DEF Unfinished
  <2>2. CASE x \notin cut
    <3>1. PICK v \in Workers : pc[v] \in Attached /\ req[v] = x
      BY <1>1, <2>2 DEF Unfinished
    <3>2. QED
      BY <3>1 DEF Unfinished
  <2>3. QED
    BY <2>1, <2>2
<1>2. QED
  BY <1>1

\* A step that buys, enables and writes nothing into the rows keeps the
\* invariant, if its workers do and its cache is not ahead.
LEMMA QuietStep ==
  ASSUME IInv, TypeOK', \A v \in Workers : WorkerInv(v)',
         UNCHANGED <<tenantPackage, subscription, enabled, bought, handed, astray>>,
         cut \subseteq cut',
         \A v \in Workers : pc[v] \in Attached =>
           \/ pc'[v] \in Attached /\ req'[v] = req[v]
           \/ req[v] \in cut',
         CacheNeverAhead'
  PROVE  IInv'
<1>1. RowsInv'
  BY DEF IInv, RowsInv, Had, Provisioned
<1>2. BoughtIsEnabled'
  <2>1. bought' \ Unfinished' \subseteq bought \ Unfinished
    BY UnfinishedGrows
  <2>2. Covered(bought' \ Unfinished') \subseteq Covered(bought \ Unfinished)
    BY <2>1, CoveredGrows
  <2>3. QED
    BY <2>2 DEF IInv, Promises, BoughtIsEnabled
<1>3. NothingForFree'
  BY DEF IInv, Promises, NothingForFree
<1>4. PackagesAgree'
  BY DEF IInv, Promises, PackagesAgree
<1>5. QED
  BY <1>1, <1>2, <1>3, <1>4 DEF IInv, Promises

\* A worker that begins a request, or goes on with it, and touches nothing but
\* its own memory and perhaps the lock.
LEMMA OwnStep ==
  ASSUME IInv, NEW w \in Workers, TypeOK', WorkerInv(w)',
         \A v \in Workers \ {w} : pc'[v] = pc[v] /\ req'[v] = req[v] /\ seen'[v] = seen[v],
         \A v \in Workers \ {w} : holder' = v <=> holder = v,
         UNCHANGED <<tenantPackage, subscription, enabled, bought, handed, astray>>,
         cut \subseteq cut',
         pc[w] \in Attached => (pc'[w] \in Attached /\ req'[w] = req[w]) \/ req[w] \in cut',
         CacheNeverAhead'
  PROVE  IInv'
<1>1. \A v \in Workers : WorkerInv(v)'
  <2>1. ASSUME NEW v \in Workers, v # w PROVE WorkerInv(v)'
    BY <2>1, OtherWorker DEF IInv
  <2>2. QED
    BY <2>1
<1>2. \A v \in Workers : pc[v] \in Attached =>
        (pc'[v] \in Attached /\ req'[v] = req[v]) \/ req[v] \in cut'
  BY DEF Attached
<1>3. QED
  BY <1>1, <1>2, QuietStep

\* An answered request leaves nothing in its worker.
LEMMA AnswerShape ==
  ASSUME TypeOK, NEW w \in Workers, Answer(w)
  PROVE  /\ pc' \in [Workers -> PCStates]
         /\ req' \in [Workers -> Features \cup Packages \cup Addons \cup {NoRequest}]
         /\ seen' \in [Workers -> Seen]
         /\ pc'[w] = "idle" /\ seen'[w] = Nothing
         /\ \A v \in Workers \ {w} : pc'[v] = pc[v] /\ req'[v] = req[v] /\ seen'[v] = seen[v]
<1>1. Nothing \in Seen
  BY DEF Nothing, Seen, Cached
<1>2. QED
  BY <1>1 DEF Answer, TypeOK, PCStates

\* A released lock is free, and another worker's stays its own.
LEMMA ReleaseShape ==
  ASSUME TypeOK, NEW w \in Workers, Release(w)
  PROVE  /\ holder' \in Workers \cup {NoWorker}
         /\ holder' # w
         /\ \A v \in Workers \ {w} : holder' = v <=> holder = v
BY EntitlementsAssumption DEF Release, TypeOK

\* A cleared cache is one, and holds no answer it did not hold before.
LEMMA ClearedShape ==
  ASSUME TypeOK, NEW w \in Workers
  PROVE  /\ Cleared(w) \in [Processes -> [Features -> Cached]]
         /\ \A p \in Processes, f \in Features : Cleared(w)[p][f] = "yes" => cache[p][f] = "yes"
<1>1. ProcessOf[w] \in Processes
  BY EntitlementsAssumption
<1>2. [f \in Features |-> "absent"] \in [Features -> Cached]
  BY DEF Cached
<1>3. Cleared(w) \in [Processes -> [Features -> Cached]]
  BY <1>1, <1>2 DEF Cleared, TypeOK
<1>4. ASSUME NEW p \in Processes, NEW f \in Features, Cleared(w)[p][f] = "yes"
      PROVE  cache[p][f] = "yes"
  BY <1>4, <1>1 DEF Cleared, TypeOK
<1>5. QED
  BY <1>3, <1>4

-----------------------------------------------------------------------------
\* The inductive invariant holds at the start.
LEMMA InitIInv == Init => IInv
<1> SUFFICES ASSUME Init PROVE IInv
  OBVIOUS
<1> USE DEF Init
<1>1. TypeOK
  <2>1. subscription \in Subscription
    BY DEF Subscription
  <2>2. cache \in [Processes -> [Features -> Cached]]
    BY DEF Cached
  <2>3. pc \in [Workers -> PCStates]
    BY DEF PCStates
  <2>4. seen \in [Workers -> Seen]
    BY DEF Nothing, Seen, Cached
  <2>5. override \in [Features -> {"none", "grant", "revoke"}]
    OBVIOUS
  <2>6. QED
    BY <2>1, <2>2, <2>3, <2>4, <2>5 DEF TypeOK
<1>2. RowsInv
  BY DEF RowsInv, Had
<1>3. ASSUME NEW w \in Workers PROVE WorkerInv(w)
  BY EntitlementsAssumption
  DEF WorkerInv, RequestInv, ReadInv, SyncInv, AnswerInv, InTransaction, Checking, Attached,
      Nothing, Had
<1>4. BoughtIsEnabled
  <2>1. bought \ Unfinished = {}
    OBVIOUS
  <2>2. Covered({}) = {}
    BY DEF Covered
  <2>3. QED
    BY <2>1, <2>2 DEF BoughtIsEnabled
<1>5. NothingForFree /\ CacheNeverAhead /\ PackagesAgree
  BY DEF NothingForFree, CacheNeverAhead, PackagesAgree
<1>6. QED
  BY <1>1, <1>2, <1>3, <1>4, <1>5 DEF IInv, Promises

\* A check under way keeps it: rows are only added, so a yes stays true.
LEMMA CheckIInv ==
  ASSUME IInv, NEW w \in Workers
  PROVE  /\ \A f \in Features : StartCheck(w, f) => IInv'
         /\ AskDatabase(w) => IInv'
         /\ StoreAnswer(w) => IInv'
<1> USE DEF IInv
<1>1. ASSUME NEW f \in Features, StartCheck(w, f) PROVE IInv'
  <2> USE <1>1 DEF StartCheck, Goto, history
  <2>1. TypeOK'
    BY DEF TypeOK, PCStates, Checking
  <2>2. WorkerInv(w)'
    BY DEF TypeOK, WorkerInv, RequestInv, ReadInv, SyncInv, AnswerInv, InTransaction, Checking,
           Attached, Had, Provisioned
  <2>3. CacheNeverAhead'
    BY DEF Promises, CacheNeverAhead
  <2>4. QED
    BY <2>1, <2>2, <2>3, OwnStep DEF TypeOK, Attached
<1>2. ASSUME AskDatabase(w) PROVE IInv'
  <2> USE <1>2 DEF AskDatabase, Goto, history
  <2>1. seen[w] \in Seen
    BY DEF TypeOK
  <2>2. seen'[w] = [seen[w] EXCEPT !.answer = IF req[w] \in enabled THEN "yes" ELSE "no"]
    BY DEF TypeOK
  <2>3. seen'[w] \in Seen /\ seen'[w].tenant = seen[w].tenant
    BY <2>1, <2>2 DEF Seen, Cached
  <2>4. TypeOK'
    BY <2>3 DEF TypeOK, PCStates, Checking
  <2>5. seen'[w].answer = "yes" => req[w] \in enabled
    BY <2>1, <2>2 DEF Seen
  <2>6. WorkerInv(w)'
    BY <2>3, <2>5 DEF TypeOK, WorkerInv, RequestInv, ReadInv, SyncInv, AnswerInv, InTransaction,
                      Checking, Attached, Had, Provisioned
  <2>7. CacheNeverAhead'
    BY DEF Promises, CacheNeverAhead
  <2>8. QED
    BY <2>4, <2>6, <2>7, OwnStep DEF TypeOK, Attached
<1>3. ASSUME StoreAnswer(w) PROVE IInv'
  <2> USE <1>3 DEF StoreAnswer, history
  <2> DEFINE c == [cache EXCEPT ![ProcessOf[w]][req[w]] = seen[w].answer]
  <2>1. /\ req[w] \in Features /\ ProcessOf[w] \in Processes
        /\ seen[w].answer \in Cached
        /\ seen[w].answer = "yes" => req[w] \in enabled
    BY EntitlementsAssumption DEF TypeOK, WorkerInv, RequestInv, AnswerInv, Checking, Seen
  <2>2. /\ cache' \in [Processes -> [Features -> Cached]]
        /\ \A p \in Processes, f \in Features :
             cache'[p][f] = cache[p][f] \/ (f = req[w] /\ cache'[p][f] = seen[w].answer)
    BY <2>1 DEF TypeOK
  <2>3. TypeOK'
    BY <2>2, AnswerShape DEF TypeOK
  <2>4. holder # w
    BY DEF WorkerInv, RequestInv, InTransaction
  <2>5. WorkerInv(w)'
    BY <2>4, AnswerShape, IdleWorker
  <2>6. CacheNeverAhead'
    BY <2>1, <2>2 DEF Promises, CacheNeverAhead
  <2>7. QED
    BY <2>3, <2>5, <2>6, AnswerShape, OwnStep DEF Attached
<1>4. QED
  BY <1>1, <1>2, <1>3

\* An upgrade keeps it: what it is to enable is what its package and the
\* attached add-ons cover, and it clears the cache without filling it.
LEMMA UpgradeIInv ==
  ASSUME IInv, NEW w \in Workers
  PROVE  /\ \A p \in Packages : StartUpgrade(w, p) => IInv'
         /\ LockRows(w) => IInv'
         /\ SyncFeatures(w) => IInv'
         /\ FailUpgrade(w) => IInv'
<1> USE DEF IInv
<1>1. ASSUME NEW p \in Packages, StartUpgrade(w, p) PROVE IInv'
  <2> USE <1>1 DEF StartUpgrade, Goto, history
  <2>1. TypeOK'
    BY DEF TypeOK, PCStates
  <2>2. WorkerInv(w)'
    BY DEF TypeOK, WorkerInv, RequestInv, ReadInv, SyncInv, AnswerInv, InTransaction, Checking,
           Attached, Had, Provisioned
  <2>3. CacheNeverAhead'
    BY DEF Promises, CacheNeverAhead
  <2>4. QED
    BY <2>1, <2>2, <2>3, OwnStep DEF TypeOK, Attached
<1>2. ASSUME LockRows(w) PROVE IInv'
  <2> USE <1>2 DEF LockRows, Goto, history
  <2>1. TypeOK'
    BY DEF TypeOK, PCStates, InTransaction
  <2>2. WorkerInv(w)'
    BY DEF TypeOK, WorkerInv, RequestInv, ReadInv, SyncInv, AnswerInv, InTransaction, Checking,
           Attached, Had, Provisioned
  <2>3. \A v \in Workers \ {w} : holder' = v <=> holder = v
    BY EntitlementsAssumption
  <2>4. CacheNeverAhead'
    BY DEF Promises, CacheNeverAhead
  <2>5. QED
    BY <2>1, <2>2, <2>3, <2>4, OwnStep DEF TypeOK, Attached
<1>3. ASSUME SyncFeatures(w) PROVE IInv'
  <2> DEFINE derived == FeaturesOf(req[w], subscription.addons)
  <2> USE <1>3 DEF SyncFeatures, Goto, history
  <2>1. /\ req[w] \in Packages /\ subscription.addons \in SUBSET Addons
        /\ subscription.addons \subseteq bought
    BY DEF TypeOK, Subscription, RowsInv, WorkerInv, RequestInv, InTransaction
  <2>2. /\ derived \subseteq Features /\ PackageFeatures[req[w]] \subseteq derived
        /\ derived = Covered({req[w]} \cup subscription.addons)
    BY <2>1, DerivedFeatures
  <2>3. derived \subseteq Covered(Had \cup {req[w]})
    BY <2>1, <2>2, CoveredGrows DEF Had
  <2> HIDE DEF derived
  <2>4. seen'[w] \in Seen /\ seen'[w].todo = derived /\ seen'[w].tenant = seen[w].tenant
    <3>1. seen[w] \in Seen /\ seen'[w] = [seen[w] EXCEPT !.todo = derived]
      BY DEF TypeOK, derived
    <3>2. QED
      BY <3>1, <2>2 DEF Seen
  <2>5. TypeOK'
    BY <2>4, ClearedShape DEF TypeOK, PCStates, InTransaction
  <2>6. WorkerInv(w)'
    BY <2>2, <2>3, <2>4
    DEF TypeOK, WorkerInv, RequestInv, ReadInv, SyncInv, AnswerInv, InTransaction, Checking,
        Attached, Had, Provisioned
  <2>7. CacheNeverAhead'
    BY ClearedShape DEF Promises, CacheNeverAhead
  <2>8. QED
    BY <2>5, <2>6, <2>7, OwnStep DEF TypeOK, Attached
<1>4. ASSUME FailUpgrade(w) PROVE IInv'
  <2> USE <1>4 DEF FailUpgrade, history
  <2>1. TypeOK'
    BY AnswerShape, ReleaseShape DEF TypeOK
  <2>2. WorkerInv(w)'
    BY AnswerShape, ReleaseShape, IdleWorker
  <2>3. CacheNeverAhead'
    BY DEF Promises, CacheNeverAhead
  <2>4. QED
    BY <2>1, <2>2, <2>3, AnswerShape, ReleaseShape, OwnStep DEF InTransaction, Attached
<1>5. QED
  BY <1>1, <1>2, <1>3, <1>4

\* A committed upgrade keeps it: what it enables is paid for by its package,
\* and is all of it.
LEMMA CommitIInv ==
  ASSUME IInv, NEW w \in Workers, CommitUpgrade(w)
  PROVE  IInv'
<1> USE DEF IInv, CommitUpgrade
<1>1. /\ req[w] \in Packages
      /\ seen[w].todo \subseteq Features
      /\ PackageFeatures[req[w]] \subseteq seen[w].todo
      /\ seen[w].todo \subseteq Covered(Had \cup {req[w]})
      /\ pc[w] \notin Attached
  BY DEF TypeOK, Seen, WorkerInv, RequestInv, SyncInv, InTransaction, Attached
<1>2. /\ Had' = Had \cup {req[w]}
      /\ bought' = bought \cup {req[w]}
      /\ enabled' = enabled \cup seen[w].todo
  BY DEF Had
<1>3. TypeOK'
  BY <1>1, AnswerShape, ReleaseShape DEF TypeOK, Subscription
<1>4. RowsInv'
  BY <1>1, <1>2 DEF RowsInv, Provisioned, TypeOK, Subscription
<1>5. ASSUME NEW v \in Workers PROVE WorkerInv(v)'
  <2>1. CASE v = w
    BY <2>1, AnswerShape, ReleaseShape, IdleWorker
  <2>2. CASE v # w
    BY <2>2, AnswerShape, ReleaseShape, OtherWorker DEF TypeOK, Subscription
  <2>3. QED
    BY <2>1, <2>2
<1>6. BoughtIsEnabled'
  <2>1. Unfinished \subseteq Unfinished'
    BY <1>1, AnswerShape, UnfinishedGrows
  <2>2. Covered(bought' \ Unfinished') \subseteq Covered((bought \ Unfinished) \cup {req[w]})
    BY <2>1, <1>2, CoveredGrows
  <2>3. Covered((bought \ Unfinished) \cup {req[w]})
          = Covered(bought \ Unfinished) \cup PackageFeatures[req[w]]
    <3>1. Covered({req[w]}) = PackageFeatures[req[w]]
      BY ONLY <1>1, CoveredItem
    <3>2. QED
      BY ONLY <3>1, CoveredAdds
  <2>4. QED
    BY <1>1, <1>2, <2>2, <2>3 DEF Promises, BoughtIsEnabled
<1>7. NothingForFree'
  <2>1. Covered(Had) \subseteq Covered(Had')
    BY <1>2, CoveredGrows
  <2>2. QED
    BY <1>1, <1>2, <2>1 DEF Promises, NothingForFree, Had
<1>8. CacheNeverAhead' /\ PackagesAgree'
  BY DEF Promises, CacheNeverAhead, PackagesAgree, TypeOK, Subscription
<1>9. QED
  BY <1>3, <1>4, <1>5, <1>6, <1>7, <1>8 DEF Promises

\* An add-on that is being attached is unfinished until the last of its
\* features has a row, and no row is added that nothing covers.
LEMMA AddonIInv ==
  ASSUME IInv, NEW w \in Workers
  PROVE  /\ \A a \in Addons : StartAddon(w, a) => IInv'
         /\ StartSync(w) => IInv'
         /\ BreakOff(w) => IInv'
<1> USE DEF IInv
<1>1. ASSUME NEW a \in Addons, StartAddon(w, a) PROVE IInv'
  <2> USE <1>1 DEF StartAddon, Goto, history
  <2>1. seen'[w] \in Seen /\ seen'[w].tenant = tenantPackage
    <3>1. /\ seen[w] \in Seen
          /\ tenantPackage \in Packages \cup {NoPackage}
          /\ subscription.package \in Packages \cup {NoPackage}
      BY DEF TypeOK, Subscription
    <3>2. seen'[w] = [seen[w] EXCEPT !.tenant = tenantPackage, !.package = subscription.package]
      BY DEF TypeOK
    <3>3. QED
      BY ONLY <3>1, <3>2 DEF Seen
  <2>2. TypeOK'
    BY <2>1 DEF TypeOK, PCStates
  <2>3. WorkerInv(w)'
    BY <2>1
    DEF TypeOK, WorkerInv, RequestInv, ReadInv, SyncInv, AnswerInv, InTransaction, Checking,
        Attached, Had, Provisioned, RowsInv
  <2>4. CacheNeverAhead'
    BY DEF Promises, CacheNeverAhead
  <2>5. QED
    BY <2>2, <2>3, <2>4, OwnStep DEF TypeOK, Attached
<1>2. ASSUME StartSync(w) PROVE IInv'
  <2> USE <1>2 DEF StartSync, Goto, history
  <2>1. CacheNeverAhead'
    BY DEF Promises, CacheNeverAhead
  <2>2. req[w] \in Addons /\ req[w] \in subscription.addons /\ holder # w
    BY DEF WorkerInv, RequestInv, ReadInv, Attached, InTransaction
  <2>3. CASE seen[w].tenant = NoPackage
    <3>1. TypeOK'
      BY <2>2, <2>3, AnswerShape DEF TypeOK
    <3>2. WorkerInv(w)'
      BY <2>2, <2>3, AnswerShape, IdleWorker
    <3>3. QED
      BY <2>1, <2>3, <3>1, <3>2, AnswerShape, OwnStep
  <2>4. CASE seen[w].tenant # NoPackage
    <3> DEFINE derived == FeaturesOf(seen[w].tenant, subscription.addons)
    <3>1. /\ seen[w].tenant \in Packages /\ subscription.addons \in SUBSET Addons
          /\ subscription.addons \subseteq bought /\ seen[w].tenant \in Had
      BY <2>4 DEF TypeOK, Seen, Subscription, RowsInv, WorkerInv, ReadInv
    <3>2. /\ derived \subseteq Features /\ AddonFeatures[req[w]] \subseteq derived
          /\ derived = Covered({seen[w].tenant} \cup subscription.addons)
      BY <2>2, <3>1, DerivedFeatures
    <3>3. derived \subseteq Covered(Had)
      BY <3>1, <3>2, CoveredGrows DEF Had
    <3> HIDE DEF derived
    <3>4. seen'[w] = [Nothing EXCEPT !.todo = derived]
      BY <2>4 DEF TypeOK, derived
    <3>5. seen'[w] \in Seen /\ seen'[w].todo = derived /\ seen'[w].tenant = NoPackage
      BY <3>2, <3>4 DEF Nothing, Seen, Cached
    <3>6. TypeOK'
      BY <2>4, <3>5 DEF TypeOK, PCStates, Attached
    <3>7. WorkerInv(w)'
      BY <2>2, <2>4, <3>2, <3>3, <3>5
      DEF TypeOK, WorkerInv, RequestInv, ReadInv, SyncInv, AnswerInv, InTransaction, Checking,
          Attached, Had, Provisioned
    <3>8. QED
      BY <2>1, <2>4, <3>6, <3>7, OwnStep DEF TypeOK, Attached
  <2>5. QED
    BY <2>3, <2>4
<1>3. ASSUME BreakOff(w) PROVE IInv'
  <2> USE <1>3 DEF BreakOff, history
  <2>1. req[w] \in Addons /\ holder # w
    BY DEF WorkerInv, RequestInv, Attached, InTransaction
  <2>2. TypeOK'
    BY <2>1, AnswerShape DEF TypeOK
  <2>3. WorkerInv(w)'
    BY <2>1, AnswerShape, IdleWorker
  <2>4. CacheNeverAhead'
    BY DEF Promises, CacheNeverAhead
  <2>5. QED
    BY <2>2, <2>3, <2>4, AnswerShape, OwnStep
<1>4. QED
  BY <1>1, <1>2, <1>3

\* Attaching an add-on makes it one that was bought, and is unfinished.
LEMMA AttachIInv ==
  ASSUME IInv, NEW w \in Workers, AttachAddon(w)
  PROVE  IInv'
<1> USE DEF IInv, AttachAddon, Goto
<1>1. req[w] \in Addons /\ holder # w
  BY DEF WorkerInv, RequestInv, InTransaction
<1>2. /\ pc'[w] = "saving" /\ pc' \in [Workers -> PCStates]
      /\ \A v \in Workers \ {w} : pc'[v] = pc[v]
      /\ subscription' \in Subscription
      /\ subscription'.addons = subscription.addons \cup {req[w]}
      /\ subscription'.package = subscription.package
      /\ bought' = bought \cup {req[w]} /\ Had' = Had \cup {req[w]}
  BY <1>1 DEF TypeOK, Subscription, PCStates, Attached, Had
<1>3. TypeOK'
  BY <1>1, <1>2 DEF TypeOK
<1>4. RowsInv'
  BY <1>2 DEF RowsInv, Provisioned
<1>5. ASSUME NEW v \in Workers PROVE WorkerInv(v)'
  <2>1. CASE v = w
    BY <2>1, <1>1, <1>2
    DEF WorkerInv, RequestInv, ReadInv, SyncInv, AnswerInv, InTransaction, Checking, Attached,
        Provisioned
  <2>2. CASE v # w
    BY <2>2, <1>2, OtherWorker
  <2>3. QED
    BY <2>1, <2>2
<1>6. BoughtIsEnabled'
  <2>1. Unfinished \subseteq Unfinished'
    BY <1>2, UnfinishedGrows DEF Attached
  <2>2. req[w] \in Unfinished'
    BY <1>2 DEF Unfinished, Attached
  <2>3. bought' \ Unfinished' \subseteq bought \ Unfinished
    BY <1>2, <2>1, <2>2
  <2>4. Covered(bought' \ Unfinished') \subseteq Covered(bought \ Unfinished)
    BY <2>3, CoveredGrows
  <2>5. QED
    BY <2>4 DEF Promises, BoughtIsEnabled
<1>7. NothingForFree'
  <2>1. Covered(Had) \subseteq Covered(Had')
    BY <1>2, CoveredGrows
  <2>2. QED
    BY <2>1 DEF Promises, NothingForFree, Had
<1>8. CacheNeverAhead' /\ PackagesAgree'
  BY <1>2 DEF Promises, CacheNeverAhead, PackagesAgree
<1>9. QED
  BY <1>3, <1>4, <1>5, <1>6, <1>7, <1>8 DEF Promises

\* Saving the subscription keeps its add-ons, whatever package it puts back.
LEMMA SaveSubscriptionIInv ==
  ASSUME IInv, NEW w \in Workers, SaveSubscription(w)
  PROVE  IInv'
<1> USE DEF IInv, SaveSubscription, Goto
<1>1. /\ seen[w] \in Seen /\ req[w] \in Addons
      /\ req[w] \in subscription.addons /\ holder # w
  BY DEF TypeOK, WorkerInv, RequestInv, ReadInv, Attached, InTransaction
<1>2. /\ seen'[w] \in Seen /\ seen' \in [Workers -> Seen]
      /\ seen'[w].tenant = seen[w].tenant
      /\ \A v \in Workers \ {w} : seen'[v] = seen[v]
  <2>1. seen'[w] = [seen[w] EXCEPT !.package = NoPackage]
    BY DEF TypeOK
  <2>2. seen'[w] \in Seen /\ seen'[w].tenant = seen[w].tenant
    BY ONLY <1>1, <2>1 DEF Seen
  <2>3. QED
    BY <2>2 DEF TypeOK
<1>3. /\ pc'[w] = "syncing" /\ pc' \in [Workers -> PCStates]
      /\ \A v \in Workers \ {w} : pc'[v] = pc[v]
  BY DEF TypeOK, PCStates, Attached
<1>4. /\ subscription' \in Subscription
      /\ subscription'.addons = subscription.addons
      /\ subscription'.package = seen[w].package
  BY <1>1 DEF TypeOK, Subscription, Seen
<1>5. astray' \in BOOLEAN /\ (~astray' => ~astray /\ subscription'.package = subscription.package)
  BY <1>4 DEF TypeOK
<1>6. TypeOK'
  BY <1>2, <1>3, <1>4, <1>5 DEF TypeOK
<1>7. RowsInv'
  BY <1>4 DEF RowsInv, Provisioned, Had
<1>8. ASSUME NEW v \in Workers PROVE WorkerInv(v)'
  <2>1. CASE v = w
    BY <2>1, <1>1, <1>2, <1>3, <1>4
    DEF WorkerInv, RequestInv, ReadInv, SyncInv, AnswerInv, InTransaction, Checking, Attached,
        Provisioned, Had
  <2>2. CASE v # w
    BY <2>2, <1>2, <1>3, <1>4, OtherWorker
  <2>3. QED
    BY <2>1, <2>2
<1>9. BoughtIsEnabled'
  <2>1. Unfinished \subseteq Unfinished'
    BY <1>3, UnfinishedGrows DEF Attached
  <2>2. Covered(bought' \ Unfinished') \subseteq Covered(bought \ Unfinished)
    BY <2>1, CoveredGrows
  <2>3. QED
    BY <2>2 DEF Promises, BoughtIsEnabled
<1>10. NothingForFree' /\ CacheNeverAhead' /\ PackagesAgree'
  BY <1>5 DEF Promises, NothingForFree, CacheNeverAhead, PackagesAgree
<1>11. QED
  BY <1>6, <1>7, <1>8, <1>9, <1>10 DEF Promises

\* Each row a sync adds is paid for, and leaves less to add.
LEMMA EnableFeatureIInv ==
  ASSUME IInv, NEW w \in Workers, EnableFeature(w)
  PROVE  IInv'
<1> USE DEF IInv
<1>1. PICK f \in seen[w].todo :
        /\ enabled' = enabled \cup {f}
        /\ seen' = [seen EXCEPT ![w].todo = @ \ {f}]
  BY DEF EnableFeature
<1>2. /\ pc[w] = "enabling"
      /\ UNCHANGED <<tenantPackage, subscription, override, cache, holder, pc, req>>
      /\ UNCHANGED <<bought, handed, cut, astray>>
  BY DEF EnableFeature, history
<1>3. /\ seen[w] \in Seen /\ f \in Features /\ f \in Covered(Had)
      /\ AddonFeatures[req[w]] \subseteq enabled \cup seen[w].todo
      /\ seen[w].todo \subseteq Covered(Had)
  BY <1>1, <1>2 DEF TypeOK, Seen, WorkerInv, SyncInv
<1>4. /\ seen'[w] \in Seen /\ seen'[w].tenant = seen[w].tenant
      /\ seen'[w].todo = seen[w].todo \ {f}
  <2>1. seen'[w] = [seen[w] EXCEPT !.todo = @ \ {f}]
    BY <1>1 DEF TypeOK
  <2>2. QED
    BY ONLY <1>3, <2>1 DEF Seen
<1>5. TypeOK'
  <2>1. seen' \in [Workers -> Seen]
    BY <1>1, <1>4 DEF TypeOK
  <2>2. QED
    BY <1>1, <1>2, <1>3, <2>1 DEF TypeOK
<1>6. RowsInv'
  <2>1. Provisioned
    BY <1>2 DEF WorkerInv, RequestInv
  <2>2. QED
    BY <1>2, <2>1 DEF RowsInv, Provisioned, Had
<1>7. ASSUME NEW v \in Workers PROVE WorkerInv(v)'
  <2>1. CASE v = w
    <3>1. RequestInv(w)' /\ ReadInv(w)' /\ AnswerInv(w)'
      BY <1>2, <1>4 DEF WorkerInv, RequestInv, ReadInv, AnswerInv, Provisioned, Had
    <3>2. SyncInv(w)'
      BY <1>1, <1>2, <1>3, <1>4 DEF SyncInv, Had, Covered
    <3>3. QED
      BY <2>1, <3>1, <3>2 DEF WorkerInv
  <2>2. CASE v # w
    <3>1. seen'[v] = seen[v]
      BY <1>1, <2>2 DEF TypeOK
    <3>2. enabled \subseteq enabled'
      BY <1>1
    <3>3. QED
      BY <1>2, <3>1, <3>2, OtherWorker
  <2>3. QED
    BY <2>1, <2>2
<1>8. BoughtIsEnabled'
  <2>1. Unfinished \subseteq Unfinished'
    BY <1>2, UnfinishedGrows
  <2>2. Covered(bought' \ Unfinished') \subseteq Covered(bought \ Unfinished)
    BY <1>2, <2>1, CoveredGrows
  <2>3. QED
    BY <1>1, <2>2 DEF Promises, BoughtIsEnabled
<1>9. NothingForFree'
  BY <1>1, <1>2, <1>3 DEF Promises, NothingForFree, Had, Covered
<1>10. CacheNeverAhead' /\ PackagesAgree'
  BY <1>1, <1>2 DEF Promises, CacheNeverAhead, PackagesAgree
<1>11. QED
  BY <1>5, <1>6, <1>7, <1>8, <1>9, <1>10 DEF Promises

\* When nothing is left to add, the add-on has its features and is finished.
LEMMA FinishSyncIInv ==
  ASSUME IInv, NEW w \in Workers, FinishSync(w)
  PROVE  IInv'
<1> USE DEF IInv, FinishSync, history
<1>1. /\ req[w] \in Addons /\ holder # w
      /\ AddonFeatures[req[w]] \subseteq enabled
  BY DEF WorkerInv, RequestInv, SyncInv, Attached, InTransaction
<1>2. TypeOK'
  BY AnswerShape, ClearedShape DEF TypeOK
<1>3. RowsInv'
  BY DEF RowsInv, Provisioned, Had
<1>4. ASSUME NEW v \in Workers PROVE WorkerInv(v)'
  <2>1. CASE v = w
    BY <2>1, <1>1, AnswerShape, IdleWorker
  <2>2. CASE v # w
    BY <2>2, AnswerShape, OtherWorker
  <2>3. QED
    BY <2>1, <2>2
<1>5. BoughtIsEnabled'
  <2>1. Unfinished \subseteq Unfinished' \cup {req[w]}
    <3>1. ASSUME NEW x \in Unfinished, x # req[w] PROVE x \in Unfinished'
      <4>1. CASE x \in cut
        BY <4>1 DEF Unfinished
      <4>2. CASE x \notin cut
        <5>1. PICK v \in Workers : pc[v] \in Attached /\ req[v] = x
          BY <3>1, <4>2 DEF Unfinished
        <5>2. pc'[v] \in Attached /\ req'[v] = x
          BY <3>1, <5>1, AnswerShape
        <5>3. QED
          BY <5>2 DEF Unfinished
      <4>3. QED
        BY <4>1, <4>2
    <3>2. QED
      BY <3>1
  <2>2. Covered(bought' \ Unfinished') \subseteq Covered((bought \ Unfinished) \cup {req[w]})
    BY <2>1, CoveredGrows
  <2>3. Covered((bought \ Unfinished) \cup {req[w]})
          = Covered(bought \ Unfinished) \cup AddonFeatures[req[w]]
    <3>1. Covered({req[w]}) = AddonFeatures[req[w]]
      BY ONLY <1>1, CoveredItem
    <3>2. QED
      BY ONLY <3>1, CoveredAdds
  <2>4. QED
    BY <1>1, <2>2, <2>3 DEF Promises, BoughtIsEnabled
<1>6. CacheNeverAhead'
  BY ClearedShape DEF Promises, CacheNeverAhead
<1>7. NothingForFree' /\ PackagesAgree'
  BY DEF Promises, NothingForFree, PackagesAgree
<1>8. QED
  BY <1>2, <1>3, <1>4, <1>5, <1>6, <1>7 DEF Promises

\* An edit of the tenant writes a package it has had, or hands it one.
LEMMA EditIInv ==
  ASSUME IInv, NEW w \in Workers
  PROVE  /\ BeginEdit(w) => IInv'
         /\ SaveEdit(w) => IInv'
<1> USE DEF IInv
<1>1. ASSUME BeginEdit(w) PROVE IInv'
  <2> USE <1>1 DEF BeginEdit, Goto, history
  <2>1. seen'[w] \in Seen /\ seen'[w].tenant = tenantPackage
    <3>1. seen[w] \in Seen /\ tenantPackage \in Packages \cup {NoPackage}
      BY DEF TypeOK
    <3>2. seen'[w] = [seen[w] EXCEPT !.tenant = tenantPackage]
      BY DEF TypeOK
    <3>3. QED
      BY ONLY <3>1, <3>2 DEF Seen
  <2>2. TypeOK'
    BY <2>1 DEF TypeOK, PCStates
  <2>3. WorkerInv(w)'
    BY <2>1
    DEF TypeOK, WorkerInv, RequestInv, ReadInv, SyncInv, AnswerInv, InTransaction, Checking,
        Attached, Had, Provisioned, RowsInv
  <2>4. CacheNeverAhead'
    BY DEF Promises, CacheNeverAhead
  <2>5. QED
    BY <2>2, <2>3, <2>4, OwnStep DEF TypeOK, Attached
<1>2. ASSUME SaveEdit(w) PROVE IInv'
  <2>1. PICK p \in {seen[w].tenant} \cup EditPackages :
          /\ tenantPackage' = p
          /\ handed' = handed \cup ({p} \ {NoPackage, seen[w].tenant})
          /\ astray' = (astray \/ p # tenantPackage)
    BY <1>2 DEF SaveEdit
  <2>2. /\ pc[w] = "editing" /\ holder = NoWorker /\ Answer(w)
        /\ UNCHANGED <<subscription, enabled, override, cache, holder, bought, cut>>
    BY <1>2 DEF SaveEdit
  <2>3. /\ p \in Packages \cup {NoPackage}
        /\ seen[w].tenant \in Had \cup {NoPackage}
        /\ Provisioned /\ holder # w
    BY <2>2, EntitlementsAssumption
    DEF TypeOK, Seen, WorkerInv, RequestInv, ReadInv, InTransaction
  <2>4. /\ handed \subseteq handed' /\ handed' \subseteq Packages
        /\ p \in Had' \cup {NoPackage} /\ Had \subseteq Had'
    BY <2>1, <2>2, <2>3 DEF TypeOK, Had
  <2>5. TypeOK'
    BY <2>1, <2>2, <2>3, <2>4, AnswerShape DEF TypeOK
  <2>6. RowsInv'
    BY <2>1, <2>2, <2>3, <2>4 DEF RowsInv, Provisioned
  <2>7. ASSUME NEW v \in Workers PROVE WorkerInv(v)'
    <3>1. CASE v = w
      BY <3>1, <2>2, <2>3, AnswerShape, IdleWorker
    <3>2. CASE v # w
      BY <3>2, <2>2, <2>4, AnswerShape, OtherWorker
    <3>3. QED
      BY <3>1, <3>2
  <2>8. BoughtIsEnabled'
    <3>1. Unfinished \subseteq Unfinished'
      BY <2>2, AnswerShape, UnfinishedGrows DEF Attached
    <3>2. Covered(bought' \ Unfinished') \subseteq Covered(bought \ Unfinished)
      BY <2>2, <3>1, CoveredGrows
    <3>3. QED
      BY <2>2, <3>2 DEF Promises, BoughtIsEnabled
  <2>9. NothingForFree'
    <3>1. Covered(Had) \subseteq Covered(Had')
      BY <2>4, CoveredGrows
    <3>2. QED
      BY <2>2, <3>1 DEF Promises, NothingForFree, Had
  <2>10. CacheNeverAhead' /\ PackagesAgree'
    BY <2>1, <2>2 DEF Promises, CacheNeverAhead, PackagesAgree, TypeOK
  <2>11. QED
    BY <2>5, <2>6, <2>7, <2>8, <2>9, <2>10 DEF Promises
<1>3. QED
  BY <1>1, <1>2

\* Overrides and expiry only take answers out of a cache.
LEMMA CacheIInv ==
  ASSUME IInv, NEW f \in Features
  PROVE  /\ \A p \in Processes, value \in Overrides : SetOverride(p, f, value) => IInv'
         /\ LapseOverride(f) => IInv'
         /\ \A p \in Processes : Expire(p, f) => IInv'
<1> USE DEF IInv, history
<1>1. ASSUME UNCHANGED <<tenantPackage, subscription, enabled, holder, pc, req, seen, history>>,
             TypeOK', CacheNeverAhead'
      PROVE  IInv'
  <2>1. \A v \in Workers : WorkerInv(v)'
    BY <1>1, OtherWorker
  <2>2. QED
    BY <1>1, <2>1, QuietStep
<1>2. ASSUME NEW p \in Processes, cache' = [cache EXCEPT ![p][f] = "absent"], UNCHANGED enabled
      PROVE  cache' \in [Processes -> [Features -> Cached]] /\ CacheNeverAhead'
  <2>1. cache' \in [Processes -> [Features -> Cached]]
    BY <1>2 DEF TypeOK, Cached
  <2>2. ASSUME NEW q \in Processes, NEW g \in Features, cache'[q][g] = "yes" PROVE g \in enabled'
    BY <1>2, <2>2 DEF TypeOK, Promises, CacheNeverAhead
  <2>3. QED
    BY <2>1, <2>2 DEF CacheNeverAhead
<1>3. ASSUME NEW p \in Processes, NEW value \in Overrides, SetOverride(p, f, value) PROVE IInv'
  <2>1. override' \in [Features -> {"none", "grant", "revoke"}]
    BY <1>3, EntitlementsAssumption DEF SetOverride, TypeOK
  <2>2. TypeOK'
    BY <1>2, <1>3, <2>1 DEF SetOverride, TypeOK
  <2>3. QED
    BY <1>1, <1>2, <1>3, <2>2 DEF SetOverride
<1>4. ASSUME LapseOverride(f) PROVE IInv'
  <2>1. TypeOK' /\ CacheNeverAhead'
    BY <1>4 DEF LapseOverride, TypeOK, Promises, CacheNeverAhead
  <2>2. QED
    BY <1>1, <1>4, <2>1 DEF LapseOverride
<1>5. ASSUME NEW p \in Processes, Expire(p, f) PROVE IInv'
  <2>1. TypeOK'
    BY <1>2, <1>5 DEF Expire, TypeOK
  <2>2. QED
    BY <1>1, <1>2, <1>5, <2>1 DEF Expire
<1>6. QED
  BY <1>3, <1>4, <1>5

\* A restart forgets requests and answers; add-ons it cut short are noted.
LEMMA RestartIInv ==
  ASSUME IInv, NEW p \in Processes, Restart(p)
  PROVE  IInv'
<1> DEFINE lost == {w \in Workers : ProcessOf[w] = p}
<1> USE DEF IInv
<1>1. /\ cache' = [cache EXCEPT ![p] = [f \in Features |-> "absent"]]
      /\ pc' = [w \in Workers |-> IF w \in lost THEN "idle" ELSE pc[w]]
      /\ req' = [w \in Workers |-> IF w \in lost THEN NoRequest ELSE req[w]]
      /\ seen' = [w \in Workers |-> IF w \in lost THEN Nothing ELSE seen[w]]
      /\ holder' = IF holder \in lost THEN NoWorker ELSE holder
      /\ cut' = cut \cup {req[w] : w \in {v \in lost : pc[v] \in Attached}}
      /\ UNCHANGED <<tenantPackage, subscription, enabled, override, bought, handed, astray>>
  BY DEF Restart
<1>2. lost \subseteq Workers
  OBVIOUS
<1> HIDE DEF lost
<1>3. /\ \A v \in lost : pc'[v] = "idle" /\ seen'[v] = Nothing /\ holder' # v
      /\ \A v \in Workers \ lost :
           /\ pc'[v] = pc[v] /\ req'[v] = req[v] /\ seen'[v] = seen[v]
           /\ holder' = v <=> holder = v
  BY <1>1, <1>2, EntitlementsAssumption DEF TypeOK
<1>4. /\ cut \subseteq cut'
      /\ \A v \in lost : pc[v] \in Attached => req[v] \in cut'
      /\ cut' \subseteq Addons
  BY <1>1, <1>2 DEF WorkerInv, RequestInv, TypeOK
<1>5. cache' \in [Processes -> [Features -> Cached]] /\ CacheNeverAhead'
  BY <1>1 DEF TypeOK, Cached, Promises, CacheNeverAhead
<1>6. TypeOK'
  <2>1. pc' \in [Workers -> PCStates]
    BY <1>1 DEF TypeOK, PCStates
  <2>2. req' \in [Workers -> Features \cup Packages \cup Addons \cup {NoRequest}]
    BY <1>1 DEF TypeOK
  <2>3. seen' \in [Workers -> Seen]
    <3>1. Nothing \in Seen
      BY DEF Nothing, Seen, Cached
    <3>2. QED
      BY <1>1, <3>1 DEF TypeOK
  <2>4. QED
    BY <1>1, <1>4, <1>5, <2>1, <2>2, <2>3 DEF TypeOK
<1>7. \A v \in Workers : WorkerInv(v)'
  <2>1. ASSUME NEW v \in Workers, v \in lost PROVE WorkerInv(v)'
    BY <2>1, <1>3, IdleWorker
  <2>2. ASSUME NEW v \in Workers, v \notin lost PROVE WorkerInv(v)'
    BY <2>2, <1>1, <1>3, OtherWorker
  <2>3. QED
    BY <2>1, <2>2
<1>8. \A v \in Workers : pc[v] \in Attached =>
        (pc'[v] \in Attached /\ req'[v] = req[v]) \/ req[v] \in cut'
  BY <1>3, <1>4
<1>9. QED
  BY <1>1, <1>4, <1>5, <1>6, <1>7, <1>8, QuietStep

\* A tenant is provisioned with exactly what its package and add-ons cover.
LEMMA ProvisionIInv ==
  ASSUME IInv, NEW p \in Packages, NEW addons \in SUBSET Addons, Provision(p, addons)
  PROVE  IInv'
<1> USE DEF IInv, Provision
<1>1. /\ bought = {} /\ handed = {} /\ enabled = {} /\ subscription.addons = {}
  BY DEF Provisioned, RowsInv
<1>2. /\ enabled' = Covered({p} \cup addons) /\ enabled' \subseteq Features
      /\ bought' = {p} \cup addons
  BY DerivedFeatures
<1>3. subscription' \in Subscription /\ subscription'.addons = addons /\ subscription'.package = p
  BY DEF Subscription
<1>4. TypeOK'
  BY <1>2, <1>3 DEF TypeOK
<1>5. RowsInv'
  BY <1>1, <1>2, <1>3 DEF RowsInv, Had, Provisioned
<1>6. ASSUME NEW v \in Workers PROVE WorkerInv(v)'
  BY <1>1, OtherWorker
<1>7. BoughtIsEnabled'
  <2>1. Covered(bought' \ Unfinished') \subseteq Covered({p} \cup addons)
    BY <1>2, CoveredGrows
  <2>2. QED
    BY <1>2, <2>1 DEF BoughtIsEnabled
<1>8. NothingForFree'
  <2>1. Covered({p} \cup addons) \subseteq Covered(bought' \cup handed')
    BY <1>2, CoveredGrows
  <2>2. QED
    BY <1>2, <2>1 DEF NothingForFree
<1>9. CacheNeverAhead' /\ PackagesAgree'
  BY <1>1, <1>3 DEF Promises, CacheNeverAhead, PackagesAgree
<1>10. QED
  BY <1>4, <1>5, <1>6, <1>7, <1>8, <1>9 DEF Promises

\* A step that changes nothing keeps everything.
LEMMA StutterIInv == IInv /\ UNCHANGED vars => IInv'
<1> SUFFICES ASSUME IInv, UNCHANGED vars PROVE IInv'
  OBVIOUS
<1> USE DEF IInv, vars, history
<1>1. TypeOK'
  BY DEF TypeOK
<1>2. \A v \in Workers : WorkerInv(v)'
  BY OtherWorker
<1>3. CacheNeverAhead'
  BY DEF Promises, CacheNeverAhead
<1>4. QED
  BY <1>1, <1>2, <1>3, QuietStep

\* Every step keeps the inductive invariant.
LEMMA NextIInv == IInv /\ [Next]_vars => IInv'
<1> SUFFICES ASSUME IInv, [Next]_vars PROVE IInv'
  OBVIOUS
<1>1. ASSUME NEW p \in Packages, NEW addons \in SUBSET Addons, Provision(p, addons) PROVE IInv'
  BY <1>1, ProvisionIInv
<1>2. ASSUME NEW w \in Workers, NEW f \in Features, StartCheck(w, f) PROVE IInv'
  BY <1>2, CheckIInv
<1>3. ASSUME NEW w \in Workers, NEW p \in Packages, StartUpgrade(w, p) PROVE IInv'
  BY <1>3, UpgradeIInv
<1>4. ASSUME NEW w \in Workers, NEW a \in Addons, StartAddon(w, a) PROVE IInv'
  BY <1>4, AddonIInv
<1>5. ASSUME NEW w \in Workers, AskDatabase(w) \/ StoreAnswer(w) PROVE IInv'
  BY <1>5, CheckIInv
<1>6. ASSUME NEW w \in Workers, LockRows(w) \/ SyncFeatures(w) \/ FailUpgrade(w) PROVE IInv'
  BY <1>6, UpgradeIInv
<1>7. ASSUME NEW w \in Workers, CommitUpgrade(w) PROVE IInv'
  BY <1>7, CommitIInv
<1>8. ASSUME NEW w \in Workers, AttachAddon(w) PROVE IInv'
  BY <1>8, AttachIInv
<1>9. ASSUME NEW w \in Workers, SaveSubscription(w) PROVE IInv'
  BY <1>9, SaveSubscriptionIInv
<1>10. ASSUME NEW w \in Workers, StartSync(w) \/ BreakOff(w) PROVE IInv'
  BY <1>10, AddonIInv
<1>11. ASSUME NEW w \in Workers, EnableFeature(w) PROVE IInv'
  BY <1>11, EnableFeatureIInv
<1>12. ASSUME NEW w \in Workers, FinishSync(w) PROVE IInv'
  BY <1>12, FinishSyncIInv
<1>13. ASSUME NEW w \in Workers, BeginEdit(w) \/ SaveEdit(w) PROVE IInv'
  BY <1>13, EditIInv
<1>14. ASSUME NEW p \in Processes, NEW f \in Features, NEW value \in Overrides, SetOverride(p, f, value)
       PROVE IInv'
  BY <1>14, CacheIInv
<1>15. ASSUME NEW f \in Features, LapseOverride(f) PROVE IInv'
  BY <1>15, CacheIInv
<1>16. ASSUME NEW p \in Processes, NEW f \in Features, Expire(p, f) PROVE IInv'
  BY <1>16, CacheIInv
<1>17. ASSUME NEW p \in Processes, Restart(p) PROVE IInv'
  BY <1>17, RestartIInv
<1>18. CASE UNCHANGED vars
  BY <1>18, StutterIInv
<1>19. QED
  BY <1>1, <1>2, <1>3, <1>4, <1>5, <1>6, <1>7, <1>8, <1>9, <1>10, <1>11, <1>12, <1>13, <1>14,
     <1>15, <1>16, <1>17, <1>18 DEF Next

-----------------------------------------------------------------------------
\* The inductive invariant holds in every reachable state.
THEOREM Inductive == Spec => []IInv
BY InitIInv, NextIInv, PTL DEF Spec

\* TypeOK: rows, caches and requests keep their values.
THEOREM TypeCorrect == Spec => []TypeOK
<1>1. IInv => TypeOK
  BY DEF IInv
<1>2. QED
  BY <1>1, Inductive, PTL

\* BoughtIsEnabled: sync_tenant_features leaves nothing out of what was paid
\* for, but for add-ons whose request is at work or broke off.
THEOREM BoughtCorrect == Spec => []BoughtIsEnabled
<1>1. IInv => BoughtIsEnabled
  BY DEF IInv, Promises
<1>2. QED
  BY <1>1, Inductive, PTL

\* NothingForFree: no feature row without a package or an add-on behind it,
\* through upgrades that fail or race, stale saves and restarts.
THEOREM FreeCorrect == Spec => []NothingForFree
<1>1. IInv => NothingForFree
  BY DEF IInv, Promises
<1>2. QED
  BY <1>1, Inductive, PTL

\* CacheNeverAhead: no process caches a yes ahead of the commit that makes it
\* true, however many processes and threads there are.
THEOREM CacheCorrect == Spec => []CacheNeverAhead
<1>1. IInv => CacheNeverAhead
  BY DEF IInv, Promises
<1>2. QED
  BY <1>1, Inductive, PTL

\* PackagesAgree: subscription and tenant name one package, but for saves that
\* put back another.
THEOREM PackagesCorrect == Spec => []PackagesAgree
<1>1. IInv => PackagesAgree
  BY DEF IInv, Promises
<1>2. QED
  BY <1>1, Inductive, PTL
=============================================================================
