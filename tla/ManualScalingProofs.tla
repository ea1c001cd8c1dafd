------------------------- MODULE ManualScalingProofs -------------------------
(***************************************************************************)
(* Proofs about ManualScaling, for every set of overrides, every limit and *)
(* every bound.                                                            *)
(*                                                                         *)
(* The argument has two parts.  A copy of an override, wherever it is kept *)
(* (informer, pending change, either reconciler), that has the version of  *)
(* the stored one is the stored one (Copies): a write based on it starts   *)
(* from the stored phase.  And a phase Expired was stored by a reconcile   *)
(* whose clock had passed the end of the override; reconciles follow one   *)
(* another and the clock does not go back, so no later reconcile selects   *)
(* the override (ReconcileOK).                                             *)
(***************************************************************************)
EXTENDS ManualScaling, SequenceTheorems, TLAPS

Fields == {"rv", "created", "phase", "applied", "reached", "pu", "finishedAt", "owner"}
StatusFields == DOMAIN NewStatus \cup {"manual"}
SAFields == {"rv", "uid", "live", "spec", "status"}
RecFields ==
    {"pc", "base", "status", "now", "active", "todo", "gc", "victims", "pu", "applied"}

IsExpired(ms) == Exists(ms) /\ ms.phase = "Expired"

\* ms is a copy of override n, s the stored overrides, r the last revision.
CopyOf(s, r, n, ms) ==
    /\ ms = Absent \/ (DOMAIN ms = Fields /\ ms.rv \in 1 .. r)
    /\ ms.rv = s[n].rv => ms = s[n]

Copies ==
    /\ revision \in Nat
    /\ DOMAIN store = OverrideNames /\ DOMAIN seen = OverrideNames
    /\ \A n \in OverrideNames : /\ CopyOf(store, revision, n, store[n])
                                /\ CopyOf(store, revision, n, seen[n])
    /\ \E C : /\ watch \in Seq(C)
              /\ \A e \in C : e.name \in OverrideNames /\ CopyOf(store, revision, e.name, e.ms)
    /\ queue \subseteq OverrideNames
    /\ mrec.pc # "idle" =>
         /\ mrec.name \in OverrideNames
         /\ CopyOf(store, revision, mrec.name, mrec.ms)
         /\ Live(mrec.ms)

\* The overrides stored as Expired had ended by the clock of the reconcile
\* under way, and none of them is selected.
ReconcileOK ==
    /\ now \in Nat
    /\ \A n \in OverrideNames : IsExpired(store[n]) => ExpiredBy(n, now)
    /\ rec.pc # "idle" =>
         /\ DOMAIN rec = RecFields
         /\ rec.now \in Nat /\ rec.now <= now
         /\ rec.active \subseteq OverrideNames
         /\ rec.todo \subseteq OverrideNames /\ rec.victims \subseteq OverrideNames
         /\ \A n \in rec.active : ~ExpiredBy(n, rec.now)
         /\ rec.pc = "expire" => \A n \in rec.todo : ExpiredBy(n, rec.now)
         /\ \A n \in OverrideNames : IsExpired(store[n]) => ExpiredBy(n, rec.now)

Suppressed(status) ==
    status.manual # NoManual => status.desiredMin = 0 /\ status.desiredMax = 0

\* What the reconcile under way will write suppresses the range, too.
StatusOK ==
    /\ DOMAIN sa = SAFields /\ DOMAIN sa.status = StatusFields
    /\ DOMAIN saCache.status = StatusFields
    /\ Suppressed(sa.status)
    /\ rec.pc # "idle" =>
         /\ DOMAIN rec = RecFields
         /\ DOMAIN rec.status = StatusFields
         /\ rec.pc \in {"update", "progress", "write"} => Suppressed(rec.status)

Inv == Copies /\ ReconcileOK /\ ActiveAtTarget

-----------------------------------------------------------------------------
(* Writes of overrides                                                     *)

\* What the program may store as override n.
Written(n, ms) ==
    \/ ms = Absent
    \/ /\ DOMAIN ms = Fields /\ ms.rv = revision + 1
       /\ ~IsExpired(store[n])
       /\ ms.phase = "Expired" => rec.pc # "idle" /\ ExpiredBy(n, rec.now)
       /\ ms.phase = "Active" => ms.reached /\ ms.pu = Overrides[n].pu

WriteOf(n) == \E ms : Put(n, ms) /\ Written(n, ms)

\* A copy that has the stored version and exists is the stored override.
LEMMA CopyIsStored ==
    ASSUME NEW s, NEW r, NEW n, NEW ms, CopyOf(s, r, n, ms), ms.rv = s[n].rv, Exists(ms)
    PROVE  ms = s[n] /\ DOMAIN ms = Fields
BY DEF CopyOf, Exists

\* Every write of an override has the form above, in whatever order the two
\* reconcilers, the users and the informer take their steps.
LEMMA Writes ==
    ASSUME Inv, [Next]_vars
    PROVE  \/ UNCHANGED stored \/ CacheSync \/ Restart
           \/ \E n \in OverrideNames : WriteOf(n)
<1> USE DEF Inv
<1>1. CASE ReconcileFinish
  <2>1. rec.pc # "idle" /\ rec.pc \in {"supersede", "expire", "reject"}
    BY <1>1 DEF ReconcileFinish, Finishing, FinalPhase
  <2>2. PICK n \in rec.todo :
          \/ /\ Live(seen[n]) /\ UpToDate(n)
             /\ Update(n, [seen[n] EXCEPT !.phase = FinalPhase[rec.pc], !.finishedAt = rec.now])
          \/ UNCHANGED stored
    BY <1>1 DEF ReconcileFinish
  <2>3. n \in OverrideNames
    BY <2>1, <2>2 DEF ReconcileOK
  <2>4. CASE UNCHANGED stored
    BY <2>4
  <2>5. CASE /\ Live(seen[n]) /\ UpToDate(n)
             /\ Update(n, [seen[n] EXCEPT !.phase = FinalPhase[rec.pc], !.finishedAt = rec.now])
    <3> DEFINE ms == [[seen[n] EXCEPT !.phase = FinalPhase[rec.pc], !.finishedAt = rec.now]
                         EXCEPT !.rv = revision + 1]
    <3>1. Exists(seen[n]) /\ ~IsTerminal(seen[n].phase)
      BY <2>5 DEF Live
    <3>2. seen[n] = store[n] /\ DOMAIN seen[n] = Fields
      BY <2>3, <2>5, <3>1, CopyIsStored DEF Copies, UpToDate
    <3>3. ~IsExpired(store[n])
      BY <3>1, <3>2 DEF IsExpired, IsTerminal
    <3>4. DOMAIN ms = Fields /\ ms.rv = revision + 1 /\ ms.phase = FinalPhase[rec.pc]
      BY <3>2 DEF Fields
    <3>5. ms.phase # "Active" /\ (ms.phase = "Expired" => rec.pc = "expire")
      BY <2>1, <3>4 DEF FinalPhase
    <3>6. ms.phase = "Expired" => ExpiredBy(n, rec.now)
      BY <2>1, <2>2, <3>5 DEF ReconcileOK
    <3>7. Written(n, ms)
      BY <2>1, <3>3, <3>4, <3>5, <3>6 DEF Written
    <3>8. Put(n, ms)
      BY <2>5 DEF Update
    <3> QED
      BY <2>3, <3>7, <3>8 DEF WriteOf
  <2> QED
    BY <2>2, <2>4, <2>5
<1>2. CASE ReconcileEvict
  <2>1. rec.pc # "idle"
    BY <1>2 DEF ReconcileEvict, Finishing, FinalPhase
  <2>2. PICK n \in rec.victims : Put(n, Absent) \/ UNCHANGED stored
    BY <1>2 DEF ReconcileEvict
  <2>3. n \in OverrideNames /\ Written(n, Absent)
    BY <2>1, <2>2 DEF ReconcileOK, Written
  <2> QED
    BY <2>2, <2>3 DEF WriteOf
<1>3. CASE ReconcileProgress
  <2>1. rec.pc # "idle"
    BY <1>3 DEF ReconcileProgress
  <2>2. PICK n \in rec.active :
          \/ Exists(seen[n]) /\ UpToDate(n) /\ Update(n, Progressed(seen[n], n))
          \/ UNCHANGED stored
    BY <1>3 DEF ReconcileProgress
  <2>3. n \in OverrideNames /\ ~ExpiredBy(n, rec.now)
    BY <2>1, <2>2 DEF ReconcileOK
  <2>4. CASE UNCHANGED stored
    BY <2>4
  <2>5. CASE Exists(seen[n]) /\ UpToDate(n) /\ Update(n, Progressed(seen[n], n))
    <3> DEFINE ms == [Progressed(seen[n], n) EXCEPT !.rv = revision + 1]
               done == rec.base.status.current = Overrides[n].pu
    <3>1. seen[n] = store[n] /\ DOMAIN seen[n] = Fields
      BY <2>3, <2>5, CopyIsStored DEF Copies, UpToDate
    <3>2. ~IsExpired(store[n])
      BY <2>1, <2>3 DEF ReconcileOK
    <3>3. /\ DOMAIN ms = Fields /\ ms.rv = revision + 1
          /\ ms.phase = IF done THEN "Active" ELSE "Progressing"
          /\ done => ms.reached
          /\ ms.pu = rec.base.status.current
      BY <3>1 DEF Fields, Progressed
    <3>4. ms.phase = "Active" => ms.reached /\ ms.pu = Overrides[n].pu
      BY <3>3
    <3>5. ms.phase # "Expired"
      BY <3>3
    <3>6. Written(n, ms)
      BY <3>2, <3>3, <3>4, <3>5 DEF Written
    <3>7. Put(n, ms)
      BY <2>5 DEF Update
    <3> QED
      BY <2>3, <3>6, <3>7 DEF WriteOf
  <2> QED
    BY <2>2, <2>4, <2>5
<1>4. CASE ManualWrite
  <2> DEFINE n == mrec.name
             new == IF mrec.pc = "adopt" THEN [mrec.ms EXCEPT !.owner = mrec.uid]
                    ELSE [mrec.ms EXCEPT !.phase = "Invalid", !.finishedAt = now]
             ms == [new EXCEPT !.rv = revision + 1]
  <2>1. /\ n \in OverrideNames /\ CopyOf(store, revision, n, mrec.ms) /\ Live(mrec.ms)
        /\ mrec.ms.rv = store[n].rv
    BY <1>4 DEF ManualWrite, Copies
  <2>2. mrec.ms = store[n] /\ DOMAIN mrec.ms = Fields
    BY <2>1, CopyIsStored DEF Live
  <2>3. ~IsExpired(store[n])
    BY <2>1, <2>2 DEF IsExpired, Live, IsTerminal
  <2>4. DOMAIN ms = Fields /\ ms.rv = revision + 1
    BY <2>2 DEF Fields
  <2>5. Written(n, ms)
    <3>1. CASE mrec.pc = "adopt"
      <4>1. /\ ms.phase = store[n].phase /\ ms.reached = store[n].reached
            /\ ms.pu = store[n].pu
        BY <2>2, <3>1 DEF Fields
      <4>2. ms.phase = "Active" => ms.reached /\ ms.pu = Overrides[n].pu
        BY <2>1, <2>2, <4>1 DEF ActiveAtTarget, Live
      <4>3. ms.phase # "Expired"
        BY <2>1, <2>2, <2>3, <4>1 DEF IsExpired, Live
      <4> QED
        BY <2>3, <2>4, <4>2, <4>3 DEF Written
    <3>2. CASE mrec.pc # "adopt"
      <4>1. ms.phase = "Invalid"
        BY <2>2, <3>2 DEF Fields
      <4> QED
        BY <2>3, <2>4, <4>1 DEF Written
    <3> QED
      BY <3>1, <3>2
  <2>6. Put(n, ms)
    BY <1>4 DEF ManualWrite, Update
  <2> HIDE DEF ms, n
  <2> QED
    BY <2>1, <2>5, <2>6 DEF WriteOf
<1>5. CASE CreateOverride
  <2>1. PICK n \in OverrideNames : ~Exists(store[n]) /\ Put(n, Created(now))
    BY <1>5 DEF CreateOverride
  <2>2. /\ DOMAIN Created(now) = Fields /\ Created(now).rv = revision + 1
        /\ Created(now).phase = ""
    BY DEF Created, Fields
  <2>3. Written(n, Created(now))
    BY <2>1, <2>2 DEF Written, IsExpired
  <2> QED
    BY <2>1, <2>3 DEF WriteOf
<1>6. CASE DeleteOverride
  <2>1. PICK n \in OverrideNames : Put(n, Absent)
    BY <1>6 DEF DeleteOverride
  <2> QED
    BY <2>1 DEF WriteOf, Written
<1>7. CASE \/ ReconcileStart \/ ReconcileHistory \/ ReconcileSweep \/ ReconcileReject
           \/ ReconcileOverride \/ ReconcileCPU \/ ReconcileUpdateInstance
           \/ ReconcileUpdateError \/ ReconcileWrite
  BY <1>7 DEF ReconcileStart, ReconcileHistory, ReconcileSweep, ReconcileReject,
       ReconcileOverride, ReconcileCPU, ReconcileUpdateInstance, ReconcileUpdateError,
       ReconcileWrite
<1>8. CASE ManualReconcile \/ ManualWriteError \/ Syncer
  BY <1>8 DEF ManualReconcile, ManualWriteError, Syncer, SyncFetch, SyncWrite
<1>9. CASE CacheSync \/ AutoscalerCacheSync \/ DeleteAutoscaler \/ CreateAutoscaler
           \/ Restart \/ Tick
  BY <1>9 DEF AutoscalerCacheSync, DeleteAutoscaler, CreateAutoscaler, Tick
<1>10. CASE UNCHANGED vars
  BY <1>10 DEF vars
<1> QED
  BY <1>1, <1>2, <1>3, <1>4, <1>5, <1>6, <1>7, <1>8, <1>9, <1>10
     DEF Next, Reconciler, ManualReconciler, Environment

\* What happens to the other places that hold copies.
LEMMA Others ==
    ASSUME [Next]_vars
    PROVE  \/ ManualReconcile \/ ManualWriteError \/ CacheSync \/ Restart
           \/ UNCHANGED <<seen, queue>> /\ (mrec' = mrec \/ mrec' = MrecIdle)
<1>1. CASE Reconciler
  BY <1>1 DEF Reconciler, ReconcileStart, ReconcileFinish, ReconcileHistory, ReconcileEvict,
       ReconcileSweep, ReconcileReject, ReconcileOverride, ReconcileCPU,
       ReconcileUpdateInstance, ReconcileUpdateError, ReconcileProgress, ReconcileWrite, cached
<1>2. CASE ManualReconciler
  BY <1>2 DEF ManualReconciler, ManualWrite, cached
<1>3. CASE Syncer
  BY <1>3 DEF Syncer, SyncFetch, SyncWrite, cached
<1>4. CASE Environment
  BY <1>4 DEF Environment, CreateOverride, DeleteOverride, AutoscalerCacheSync,
       DeleteAutoscaler, CreateAutoscaler, Tick, cached
<1>5. CASE UNCHANGED vars
  BY <1>5 DEF vars, cached
<1> QED
  BY <1>1, <1>2, <1>3, <1>4, <1>5 DEF Next

-----------------------------------------------------------------------------
(* Copies                                                                  *)

\* A write makes no copy differ from a stored override of the same version:
\* the new version is one that no copy has.
LEMMA CopyKept ==
    ASSUME Copies, NEW n \in OverrideNames, NEW ms, Put(n, ms), Written(n, ms),
           NEW k \in OverrideNames, NEW c, CopyOf(store, revision, k, c)
    PROVE  CopyOf(store', revision', k, c)
<1>1. /\ revision \in Nat /\ revision' = revision + 1
      /\ store' = [store EXCEPT ![n] = ms] /\ DOMAIN store = OverrideNames
  BY DEF Copies, Put
<1>2. c = Absent \/ (DOMAIN c = Fields /\ c.rv \in 1 .. revision')
  BY <1>1 DEF CopyOf
<1>3. CASE k # n
  BY <1>1, <1>2, <1>3 DEF CopyOf
<1>4. CASE k = n
  <2>1. store'[k] = ms
    BY <1>1, <1>4
  <2>2. c.rv \in 0 .. revision /\ (c.rv = 0 => c = Absent)
    BY <1>1 DEF CopyOf, Absent
  <2>3. (ms = Absent /\ ms.rv = 0) \/ ms.rv = revision + 1
    BY DEF Written, Absent
  <2>4. c.rv = ms.rv => c = ms
    BY <1>1, <2>2, <2>3
  <2> QED
    BY <1>2, <2>1, <2>4 DEF CopyOf
<1> QED
  BY <1>3, <1>4

\* What has just been written is a copy.
LEMMA NewCopy ==
    ASSUME Copies, NEW n \in OverrideNames, NEW ms, Put(n, ms), Written(n, ms)
    PROVE  store'[n] = ms /\ CopyOf(store', revision', n, ms)
<1>1. /\ revision \in Nat /\ revision' = revision + 1
      /\ store' = [store EXCEPT ![n] = ms] /\ DOMAIN store = OverrideNames
  BY DEF Copies, Put
<1>2. store'[n] = ms
  BY <1>1
<1>3. ms = Absent \/ (DOMAIN ms = Fields /\ ms.rv \in 1 .. revision')
  BY <1>1 DEF Written
<1> QED
  BY <1>2, <1>3 DEF CopyOf

\* Copies survives every step: new copies are made of the stored override or of
\* another copy.
LEMMA CopiesNext ==
    ASSUME Inv, [Next]_vars
    PROVE  Copies'
<1> DEFINE IsCopy(n, ms) == CopyOf(store, revision, n, ms)
           Changes(C) == \A e \in C : e.name \in OverrideNames /\ IsCopy(e.name, e.ms)
<1>0. Copies
  BY DEF Inv
<1>1. PICK C : watch \in Seq(C) /\ Changes(C)
  BY <1>0 DEF Copies
<1>2. CASE CacheSync
  <2> DEFINE e == Head(watch)
  <2>1. e \in C /\ Tail(watch) \in Seq(C)
    BY <1>1, <1>2, HeadTailProperties DEF CacheSync
  <2>2. e.name \in OverrideNames /\ IsCopy(e.name, e.ms)
    BY <1>1, <2>1
  <2>3. /\ seen' = [seen EXCEPT ![e.name] = e.ms] /\ watch' = Tail(watch)
        /\ queue' = queue \cup (IF Exists(e.ms) /\ ~Exists(seen[e.name]) THEN {e.name} ELSE {})
        /\ UNCHANGED <<store, revision, mrec>>
    BY <1>2 DEF CacheSync
  <2> HIDE DEF e
  <2>4. DOMAIN seen' = OverrideNames /\ \A n \in OverrideNames : CopyOf(store, revision, n, seen'[n])
    BY <1>0, <2>2, <2>3 DEF Copies
  <2>5. queue' \subseteq OverrideNames
    BY <1>0, <2>2, <2>3 DEF Copies
  <2> QED
    BY <1>0, <1>1, <2>1, <2>3, <2>4, <2>5 DEF Copies
<1>3. CASE Restart
  <2>1. /\ seen' = store /\ watch' = <<>> /\ UNCHANGED <<store, revision>>
        /\ mrec'.pc = "idle" /\ queue' \subseteq OverrideNames
    BY <1>3 DEF Restart, MrecIdle
  <2>2. watch' \in Seq(C)
    BY <2>1, EmptySeq
  <2> QED
    BY <1>0, <1>1, <2>1, <2>2 DEF Copies
<1>4. CASE ~CacheSync /\ ~Restart
  <2>1. UNCHANGED stored \/ \E n \in OverrideNames : WriteOf(n)
    BY <1>4, Writes
  <2>2. \A k \in OverrideNames : \A c : IsCopy(k, c) => CopyOf(store', revision', k, c)
    BY <1>0, <2>1, CopyKept DEF WriteOf, stored
  <2>3. /\ revision' \in Nat /\ DOMAIN store' = OverrideNames
        /\ \A n \in OverrideNames : CopyOf(store', revision', n, store'[n])
    <3>1. CASE UNCHANGED stored
      BY <1>0, <3>1 DEF Copies, stored
    <3>2. ASSUME NEW n \in OverrideNames, NEW ms, Put(n, ms), Written(n, ms)
          PROVE  <2>3!:
      <4>1. revision' \in Nat /\ DOMAIN store' = OverrideNames
        BY <1>0, <3>2 DEF Put, Copies
      <4>2. ASSUME NEW k \in OverrideNames
            PROVE  CopyOf(store', revision', k, store'[k])
        <5>1. CASE k = n
          BY <1>0, <3>2, <5>1, NewCopy
        <5>2. CASE k # n
          <6>1. store'[k] = store[k]
            BY <1>0, <3>2, <5>2 DEF Put, Copies
          <6> QED
            BY <1>0, <2>2, <6>1 DEF Copies
        <5> QED
          BY <5>1, <5>2
      <4> QED
        BY <4>1, <4>2
    <3> QED
      BY <2>1, <3>1, <3>2 DEF WriteOf
  <2>4. \E D : /\ watch' \in Seq(D)
               /\ \A e \in D : /\ e.name \in OverrideNames
                               /\ CopyOf(store', revision', e.name, e.ms)
    <3>1. CASE UNCHANGED stored
      BY <1>1, <3>1 DEF stored
    <3>2. ASSUME NEW n \in OverrideNames, NEW ms, Put(n, ms), Written(n, ms)
          PROVE  <2>4!:
      <4> DEFINE e == [name |-> n, ms |-> ms]
                 D == C \cup {e}
      <4>1. watch \in Seq(D)
        BY <1>1, SeqMonotonic
      <4>2. watch' = Append(watch, e)
        BY <3>2 DEF Put
      <4>3. watch' \in Seq(D)
        BY <4>1, <4>2
      <4>4. CopyOf(store', revision', e.name, e.ms) /\ e.name \in OverrideNames
        BY <1>0, <3>2, NewCopy
      <4>5. \A d \in C : d.name \in OverrideNames /\ CopyOf(store', revision', d.name, d.ms)
        BY <1>1, <2>2
      <4> HIDE DEF e
      <4> QED
        BY <4>3, <4>4, <4>5
    <3> QED
      BY <2>1, <3>1, <3>2 DEF WriteOf
  <2>5. CASE ManualReconcile
    <3>1. UNCHANGED <<store, revision, seen>>
      BY <2>5 DEF ManualReconcile, stored
    <3>2. PICK n \in queue :
            /\ queue' = queue \ {n}
            /\ \/ mrec' = MrecIdle
               \/ /\ Live(seen[n])
                  /\ mrec' = [pc |-> IF saCache.live THEN "adopt" ELSE "invalid",
                              name |-> n, ms |-> seen[n], uid |-> saCache.uid]
      BY <2>5 DEF ManualReconcile
    <3>3. n \in OverrideNames /\ queue' \subseteq OverrideNames
      BY <1>0, <3>2 DEF Copies
    <3>4. mrec'.pc # "idle" => mrec'.name = n /\ mrec'.ms = seen[n] /\ Live(seen[n])
      BY <3>2 DEF MrecIdle
    <3>5. IsCopy(n, seen[n])
      BY <1>0, <3>3 DEF Copies
    <3> QED
      BY <1>0, <2>3, <2>4, <3>1, <3>3, <3>4, <3>5 DEF Copies
  <2>6. CASE ManualWriteError
    <3>1. UNCHANGED seen /\ mrec'.pc = "idle" /\ queue' \subseteq OverrideNames
      BY <1>0, <2>6 DEF ManualWriteError, MrecIdle, Copies
    <3> QED
      BY <1>0, <2>2, <2>3, <2>4, <3>1 DEF Copies
  <2>7. CASE UNCHANGED <<seen, queue>> /\ (mrec' = mrec \/ mrec' = MrecIdle)
    <3>1. mrec'.pc # "idle" => mrec' = mrec
      BY <2>7 DEF MrecIdle
    <3> QED
      BY <1>0, <2>2, <2>3, <2>4, <2>7, <3>1 DEF Copies
  <2> QED
    BY <1>4, <2>5, <2>6, <2>7, Others
<1> QED
  BY <1>2, <1>3, <1>4

-----------------------------------------------------------------------------
(* Expiry                                                                  *)

\* An override is stored as Expired only by a reconcile whose clock has passed
\* its end.
LEMMA NewlyExpired ==
    ASSUME Inv, [Next]_vars, NEW n \in OverrideNames, IsExpired(store'[n])
    PROVE  IsExpired(store[n]) \/ (rec.pc # "idle" /\ ExpiredBy(n, rec.now))
<1>1. CASE UNCHANGED store
  BY <1>1
<1>2. ASSUME NEW k \in OverrideNames, NEW ms, Put(k, ms), Written(k, ms)
      PROVE  IsExpired(store[n]) \/ (rec.pc # "idle" /\ ExpiredBy(n, rec.now))
  <2>1. CASE k # n
    BY <1>2, <2>1 DEF Put, Inv, Copies
  <2>2. CASE k = n
    <3>1. store'[n] = ms
      BY <1>2, <2>2, NewCopy DEF Inv
    <3> QED
      BY <1>2, <2>2, <3>1 DEF Written, IsExpired, Exists
  <2> QED
    BY <2>1, <2>2
<1> QED
  BY <1>1, <1>2, Writes DEF WriteOf, stored, CacheSync, Restart

\* The clock does not go back.
LEMMA Clock ==
    ASSUME ReconcileOK, [Next]_vars
    PROVE  now' \in Nat /\ now <= now'
<1>1. CASE Tick
  BY <1>1 DEF Tick, ReconcileOK
<1>2. CASE UNCHANGED now
  BY <1>2 DEF ReconcileOK
<1>3. Tick \/ UNCHANGED now
  <2>1. CASE Reconciler
    BY <2>1 DEF Reconciler, ReconcileStart, ReconcileFinish, ReconcileHistory, ReconcileEvict,
         ReconcileSweep, ReconcileReject, ReconcileOverride, ReconcileCPU,
         ReconcileUpdateInstance, ReconcileUpdateError, ReconcileProgress, ReconcileWrite
  <2>2. CASE ManualReconciler \/ Syncer
    BY <2>2 DEF ManualReconciler, ManualReconcile, ManualWrite, ManualWriteError, Syncer,
         SyncFetch, SyncWrite
  <2>3. CASE Environment
    BY <2>3 DEF Environment, CreateOverride, DeleteOverride, CacheSync, AutoscalerCacheSync,
         DeleteAutoscaler, CreateAutoscaler, Restart
  <2>4. CASE UNCHANGED vars
    BY <2>4 DEF vars
  <2> QED
    BY <2>1, <2>2, <2>3, <2>4 DEF Next
<1> QED
  BY <1>1, <1>2, <1>3

\* A later clock has passed the end of an override, too.
LEMMA ExpiredByLater ==
    ASSUME NEW n \in OverrideNames, NEW t \in Nat, NEW u \in Nat, t <= u, ExpiredBy(n, t)
    PROVE  ExpiredBy(n, u)
BY OverridesAssumption DEF ExpiredBy

\* The fields of a reconcile under way that selection and expiry depend on.
RecOK(r) ==
    /\ DOMAIN r = RecFields
    /\ r.now \in Nat
    /\ r.active \subseteq OverrideNames
    /\ r.todo \subseteq OverrideNames /\ r.victims \subseteq OverrideNames
    /\ \A n \in r.active : ~ExpiredBy(n, r.now)
    /\ r.pc = "expire" => \A n \in r.todo : ExpiredBy(n, r.now)

\* A step of the reconciler ends the reconcile, or keeps its clock and its
\* selection free of overrides that have ended.
LEMMA RecNext ==
    ASSUME Inv, [Next]_vars
    PROVE  \/ rec'.pc = "idle"
           \/ RecOK(rec') /\ rec.pc # "idle" /\ rec'.now = rec.now
           \/ RecOK(rec') /\ rec'.now = now /\ UNCHANGED <<store, now>>
<1>0. rec.pc # "idle" => RecOK(rec)
  BY DEF Inv, ReconcileOK, RecOK
<1>1. CASE ReconcileStart
  BY <1>1 DEF ReconcileStart, RecOK, RecFields, Selected, Candidates, Inv, ReconcileOK, stored
<1>2. CASE ReconcileFinish
  <2>1. rec.pc # "idle"
    BY <1>2 DEF ReconcileFinish, Finishing, FinalPhase
  <2>2. PICK n \in rec.todo :
          \/ rec' = [rec EXCEPT !.todo = @ \ {n}, !.gc = HistoryLimit > 0]
          \/ rec' = [rec EXCEPT !.todo = @ \ {n}]
    BY <1>2 DEF ReconcileFinish
  <2> QED
    BY <1>0, <2>1, <2>2 DEF RecOK, RecFields
<1>3. CASE ReconcileHistory
  <2>1. rec.pc # "idle"
    BY <1>3 DEF ReconcileHistory, Finishing, FinalPhase
  <2>2. PICK V \in SUBSET OverrideNames : rec' = [rec EXCEPT !.gc = FALSE, !.victims = V]
    BY <1>3 DEF ReconcileHistory
  <2> QED
    BY <1>0, <2>1, <2>2 DEF RecOK, RecFields
<1>4. CASE ReconcileEvict
  <2>1. rec.pc # "idle"
    BY <1>4 DEF ReconcileEvict, Finishing, FinalPhase
  <2>2. PICK n \in rec.victims :
          \/ rec' = [rec EXCEPT !.victims = @ \ {n}]
          \/ rec' = [rec EXCEPT !.victims = {}]
    BY <1>4 DEF ReconcileEvict
  <2> QED
    BY <1>0, <2>1, <2>2 DEF RecOK, RecFields
<1>5. CASE ReconcileSweep
  <2>1. rec.pc = "supersede" /\ rec' = [rec EXCEPT !.pc = "expire", !.todo = Elapsed(rec.now)]
    BY <1>5 DEF ReconcileSweep
  <2>2. Elapsed(rec.now) \subseteq OverrideNames /\ \A n \in Elapsed(rec.now) : ExpiredBy(n, rec.now)
    BY DEF Elapsed
  <2> QED
    BY <1>0, <2>1, <2>2 DEF RecOK, RecFields
<1>6. CASE ReconcileReject
  BY <1>0, <1>6 DEF ReconcileReject, RecOK, RecFields
<1>7. CASE ReconcileOverride
  <2>1. rec.pc = "expire"
    BY <1>7 DEF ReconcileOverride
  <2>2. PICK n \in rec.active :
          LET pu == nextManualPU(rec.status, n, rec.now) IN
          rec' = [rec EXCEPT !.pc = IF pu # rec.status.current THEN "update" ELSE "progress",
                             !.status = Overridden(rec.status, n), !.pu = pu]
    BY <1>7 DEF ReconcileOverride
  <2> DEFINE pu == nextManualPU(rec.status, n, rec.now)
             st == Overridden(rec.status, n)
  <2>3. rec' = [rec EXCEPT !.pc = IF pu # rec.status.current THEN "update" ELSE "progress",
                           !.status = st, !.pu = pu]
    BY <2>2
  <2> HIDE DEF pu, st
  <2> QED
    BY <1>0, <2>1, <2>3 DEF RecOK, RecFields
<1>8. CASE ReconcileCPU
  <2> DEFINE cleared == clearActiveManualScalingState(rec.status)
             pc == IF needUpdateProcessingUnits(rec.base.spec, cleared, now) THEN "update" ELSE "write"
             st == Planned(rec.base.spec, cleared, now)
             pu == DesiredPU(rec.base.spec, cleared)
  <2>1. rec.pc \in {"expire", "reject"}
    BY <1>8 DEF ReconcileCPU, StageOver, Finishing, FinalPhase
  <2>2. \/ rec' = RecIdle
        \/ rec' = [rec EXCEPT !.pc = pc, !.status = st, !.pu = pu]
    BY <1>8 DEF ReconcileCPU
  <2>3. pc \in {"update", "write"}
    OBVIOUS
  <2>4. CASE rec' = RecIdle
    BY <2>4 DEF RecIdle
  <2> HIDE DEF pc, st, pu
  <2>5. CASE rec' = [rec EXCEPT !.pc = pc, !.status = st, !.pu = pu]
    BY <1>0, <2>1, <2>3, <2>5 DEF RecOK, RecFields
  <2> QED
    BY <2>2, <2>4, <2>5
<1>9. CASE ReconcileUpdateInstance
  <2>1. /\ rec.pc = "update"
        /\ \/ rec' = [rec EXCEPT !.pc = "write"]
           \/ rec' = [[rec EXCEPT !.pc = "progress"] EXCEPT
                        !.applied = TRUE,
                        !.status.lastScaleTime = rec.now, !.status.desired = rec.pu]
    BY <1>9 DEF ReconcileUpdateInstance, Go
  <2> QED
    BY <1>0, <2>1 DEF RecOK, RecFields
<1>10. CASE ReconcileUpdateError
  <2>1. /\ rec.pc = "update"
        /\ \/ rec' = RecIdle
           \/ rec' = [[rec EXCEPT !.pc = "write"] EXCEPT !.status.desired = rec.status.current]
    BY <1>10 DEF ReconcileUpdateError, Go
  <2>2. CASE rec' = RecIdle
    BY <2>2 DEF RecIdle
  <2>3. CASE rec' = [[rec EXCEPT !.pc = "write"] EXCEPT !.status.desired = rec.status.current]
    BY <1>0, <2>1, <2>3 DEF RecOK, RecFields
  <2> QED
    BY <2>1, <2>2, <2>3
<1>11. CASE ReconcileProgress
  <2>1. rec.pc = "progress" /\ (rec' = RecIdle \/ rec' = [rec EXCEPT !.pc = "write"])
    BY <1>11 DEF ReconcileProgress, Go
  <2> QED
    BY <1>0, <2>1 DEF RecOK, RecFields, RecIdle
<1>12. CASE ReconcileWrite \/ Restart
  BY <1>12 DEF ReconcileWrite, Restart, RecIdle
<1>13. CASE UNCHANGED rec
  BY <1>0, <1>13
<1>14. CASE ManualReconciler \/ Syncer
  BY <1>13, <1>14 DEF ManualReconciler, ManualReconcile, ManualWrite, ManualWriteError, Syncer,
       SyncFetch, SyncWrite
<1>15. CASE Environment
  BY <1>12, <1>13, <1>15 DEF Environment, CreateOverride, DeleteOverride, CacheSync,
       AutoscalerCacheSync, DeleteAutoscaler, CreateAutoscaler, Tick
<1>16. CASE UNCHANGED vars
  BY <1>13, <1>16 DEF vars
<1> QED
  BY <1>1, <1>2, <1>3, <1>4, <1>5, <1>6, <1>7, <1>8, <1>9, <1>10, <1>11, <1>12, <1>14, <1>15,
     <1>16 DEF Next, Reconciler

\* The clock of the next reconcile is no earlier than that of the last one.
LEMMA ReconcileOKNext ==
    ASSUME Inv, [Next]_vars
    PROVE  ReconcileOK'
<1>0. ReconcileOK
  BY DEF Inv
<1>1. now' \in Nat /\ now <= now'
  BY <1>0, Clock
<1>2. ASSUME NEW n \in OverrideNames, IsExpired(store'[n])
      PROVE  ExpiredBy(n, now) /\ (rec.pc # "idle" => ExpiredBy(n, rec.now))
  <2>1. CASE IsExpired(store[n])
    BY <1>0, <2>1 DEF ReconcileOK
  <2>2. CASE rec.pc # "idle" /\ ExpiredBy(n, rec.now)
    BY <1>0, <2>2, ExpiredByLater DEF ReconcileOK
  <2> QED
    BY <1>2, <2>1, <2>2, NewlyExpired
<1>3. \A n \in OverrideNames : IsExpired(store'[n]) => ExpiredBy(n, now')
  BY <1>0, <1>1, <1>2, ExpiredByLater DEF ReconcileOK
<1>4. CASE rec'.pc = "idle"
  BY <1>1, <1>3, <1>4 DEF ReconcileOK
<1>5. CASE RecOK(rec') /\ rec.pc # "idle" /\ rec'.now = rec.now
  <2>1. rec'.now <= now'
    BY <1>0, <1>1, <1>5 DEF ReconcileOK
  <2> QED
    BY <1>1, <1>2, <1>3, <1>5, <2>1 DEF ReconcileOK, RecOK
<1>6. CASE RecOK(rec') /\ rec'.now = now /\ UNCHANGED <<store, now>>
  BY <1>0, <1>1, <1>2, <1>3, <1>6 DEF ReconcileOK, RecOK
<1> QED
  BY <1>4, <1>5, <1>6, RecNext

-----------------------------------------------------------------------------
(* The theorems about overrides                                            *)

\* The overrides there are at first are Superseded and seen by the informer.
LEMMA InvInit ==
    ASSUME Init
    PROVE  Inv
<1>1. PICK past \in SUBSET History :
        store = [n \in OverrideNames |->
                   IF n \in past THEN [rv |-> 1, created |-> 1, phase |-> "Superseded",
                                       applied |-> TRUE, reached |-> TRUE, pu |-> instance,
                                       finishedAt |-> 1, owner |-> 1]
                   ELSE Absent]
  BY DEF Init
<1>2. /\ seen = store /\ watch = <<>> /\ revision = 1 /\ queue = {}
      /\ rec.pc = "idle" /\ mrec.pc = "idle" /\ now = 1
  BY DEF Init, RecIdle, MrecIdle
<1>3. ASSUME NEW n \in OverrideNames
      PROVE  \/ store[n] = Absent
             \/ DOMAIN store[n] = Fields /\ store[n].rv = 1 /\ store[n].phase = "Superseded"
  BY <1>1 DEF Fields
<1>4. \A n \in OverrideNames : CopyOf(store, revision, n, store[n])
  BY <1>2, <1>3 DEF CopyOf
<1>5. DOMAIN store = OverrideNames
  BY <1>1
<1>6. \E C : /\ watch \in Seq(C)
             /\ \A e \in C : e.name \in OverrideNames /\ CopyOf(store, revision, e.name, e.ms)
  <2>1. watch \in Seq({})
    BY <1>2, EmptySeq
  <2> WITNESS {}
  <2> QED
    BY <2>1
<1>7. Copies
  BY <1>2, <1>4, <1>5, <1>6 DEF Copies
<1>8. \A n \in OverrideNames : ~IsExpired(store[n])
  BY <1>3 DEF IsExpired, Exists
<1>9. ReconcileOK
  BY <1>2, <1>8 DEF ReconcileOK
<1>10. ActiveAtTarget
  BY <1>3 DEF ActiveAtTarget, Exists
<1> QED
  BY <1>7, <1>9, <1>10 DEF Inv

\* Only updateManualScalingProgress stores Active, with the size it measured.
LEMMA ActiveNext ==
    ASSUME Inv, [Next]_vars
    PROVE  ActiveAtTarget'
<1> SUFFICES ASSUME NEW n \in OverrideNames, Exists(store'[n]), store'[n].phase = "Active"
             PROVE  store'[n].reached /\ store'[n].pu = Overrides[n].pu
  BY DEF ActiveAtTarget
<1>0. Copies /\ ActiveAtTarget
  BY DEF Inv
<1>1. CASE UNCHANGED store
  BY <1>0, <1>1 DEF ActiveAtTarget
<1>2. ASSUME NEW k \in OverrideNames, NEW ms, Put(k, ms), Written(k, ms)
      PROVE  store'[n].reached /\ store'[n].pu = Overrides[n].pu
  <2>1. CASE k # n
    <3>1. store'[n] = store[n]
      BY <1>0, <1>2, <2>1 DEF Put, Copies
    <3> QED
      BY <1>0, <3>1 DEF ActiveAtTarget
  <2>2. CASE k = n
    <3>1. store'[n] = ms
      BY <1>0, <1>2, <2>2, NewCopy
    <3> QED
      BY <1>2, <2>2, <3>1 DEF Written, Exists
  <2> QED
    BY <2>1, <2>2
<1> QED
  BY <1>1, <1>2, Writes DEF WriteOf, stored, CacheSync, Restart

\* The inductive invariant of the stored overrides, their copies and the
\* reconcile under way.
THEOREM Invariance == Spec => []Inv
<1>1. Inv /\ [Next]_vars => Inv'
  BY CopiesNext, ReconcileOKNext, ActiveNext DEF Inv
<1> QED
  BY <1>1, InvInit, PTL DEF Spec

\* Whatever progress writes were lost, failed or overtaken, an override stored
\* as Active reports its target as the current size and has recorded that it
\* got there (updateManualScalingProgress).
THEOREM ActiveReported == Spec => []ActiveAtTarget
<1>1. Inv => ActiveAtTarget
  BY DEF Inv
<1> QED
  BY <1>1, Invariance, PTL

\* No stale copy in either reconciler or in the informer brings an Expired
\* override back (transitionManualScalingPhase, updateManualScalingProgress).
THEOREM ExpiryFinal == Spec => ExpiredStays
<1> DEFINE Stays ==
      \A n \in OverrideNames : Exists(store[n]) /\ store[n].phase = "Expired" =>
        \/ ~Exists(store'[n])
        \/ /\ store'[n].phase = "Expired"
           /\ store'[n].finishedAt = store[n].finishedAt
<1>1. ASSUME Inv, [Next]_vars
      PROVE  Stays
  <2> SUFFICES ASSUME NEW n \in OverrideNames, IsExpired(store[n]), Exists(store'[n])
               PROVE  store'[n] = store[n]
    BY DEF IsExpired
  <2>1. ASSUME NEW k \in OverrideNames, NEW ms, Put(k, ms), Written(k, ms)
        PROVE  store'[n] = store[n]
    <3>1. CASE k # n
      BY <1>1, <2>1, <3>1 DEF Put, Inv, Copies
    <3>2. CASE k = n
      BY <1>1, <2>1, <3>2, NewCopy DEF Inv, Written, Exists
    <3> QED
      BY <3>1, <3>2
  <2> QED
    BY <1>1, <2>1, Writes DEF WriteOf, stored, CacheSync, Restart
<1>2. Inv /\ [Next]_vars => [Stays]_vars
  BY <1>1
<1> QED
  BY <1>2, Invariance, PTL DEF Spec, ExpiredStays

\* An override that is stored as Expired never resizes the instance, however
\* far the cache that selectActiveManualScaling reads lags behind.
THEOREM ExpiryRespected == Spec => ExpiredNotApplied
<1> DEFINE Respected ==
      instance' # instance =>
        \A n \in rec.active : Exists(store[n]) => store[n].phase # "Expired"
<1>1. ASSUME Inv, [Next]_vars
      PROVE  Respected
  <2>1. instance' # instance => rec.pc = "update"
    <3>1. CASE Reconciler
      BY <3>1 DEF Reconciler, ReconcileStart, ReconcileFinish, ReconcileHistory,
           ReconcileEvict, ReconcileSweep, ReconcileReject, ReconcileOverride, ReconcileCPU,
           ReconcileUpdateInstance, ReconcileUpdateError, ReconcileProgress, ReconcileWrite
    <3>2. CASE ManualReconciler \/ Syncer
      BY <3>2 DEF ManualReconciler, ManualReconcile, ManualWrite, ManualWriteError, Syncer,
           SyncFetch, SyncWrite
    <3>3. CASE Environment
      BY <3>3 DEF Environment, CreateOverride, DeleteOverride, CacheSync,
           AutoscalerCacheSync, DeleteAutoscaler, CreateAutoscaler, Restart, Tick
    <3>4. CASE UNCHANGED vars
      BY <3>4 DEF vars
    <3> QED
      BY <1>1, <3>1, <3>2, <3>3, <3>4 DEF Next
  <2>2. rec.pc = "update" => \A n \in rec.active : ~IsExpired(store[n])
    BY <1>1 DEF Inv, ReconcileOK
  <2> QED
    BY <2>1, <2>2 DEF IsExpired
<1>2. Inv /\ [Next]_vars => [Respected]_vars
  BY <1>1
<1> QED
  BY <1>2, Invariance, PTL DEF Spec, ExpiredNotApplied

-----------------------------------------------------------------------------
(* The theorem about the autoscaler's status                               *)

\* The status of a reconcile under way.
RecStatusOK(r) ==
    /\ DOMAIN r = RecFields
    /\ DOMAIN r.status = StatusFields
    /\ r.pc \in {"update", "progress", "write"} => Suppressed(r.status)

\* The CPU path does not name an override.
LEMMA PlannedKeepsManual ==
    ASSUME NEW spec, NEW status, NEW t, DOMAIN status = StatusFields
    PROVE  /\ DOMAIN Planned(spec, status, t) = StatusFields
           /\ Planned(spec, status, t).manual = status.manual
<1> DEFINE pruned == Pruned(status)
           range == calcDesiredPURange(spec, pruned)
           ranged == [pruned EXCEPT !.desiredMin = range.min, !.desiredMax = range.max]
           pu == DesiredPU(spec, status)
           last == IF needUpdateProcessingUnits(spec, status, t) THEN t
                   ELSE ranged.lastScaleTime
<1>0. "manual" \in StatusFields /\ "lastScaleTime" \in StatusFields
  BY DEF StatusFields, NewStatus
<1>1. DOMAIN pruned = StatusFields /\ pruned.manual = status.manual
  BY <1>0 DEF Pruned
<1>2. Considered(spec, status) = ranged
  BY DEF Considered, Ranged
<1> HIDE DEF pruned, range
<1>3. DOMAIN ranged = StatusFields /\ ranged.manual = status.manual
  BY <1>0, <1>1
<1> HIDE DEF ranged, pu
<1>4. Planned(spec, status, t) = [ranged EXCEPT !.desired = pu, !.lastScaleTime = last]
  BY <1>2, <1>3, <1>0 DEF Planned, pu
<1> HIDE DEF last
<1> QED
  BY <1>0, <1>3, <1>4

\* The override path zeroes the range together with naming the override.
LEMMA OverriddenSuppressed ==
    ASSUME NEW status, NEW n, DOMAIN status = StatusFields
    PROVE  DOMAIN Overridden(status, n) = StatusFields /\ Suppressed(Overridden(status, n))
<1>1. {"desiredMin", "desiredMax", "manual"} \subseteq StatusFields
  BY DEF StatusFields, NewStatus
<1> DEFINE m == [name |-> n, ramp |-> manualScalingActiveRamp(n, status.current)]
<1>2. Overridden(status, n) =
        [status EXCEPT !.desiredMin = 0, !.desiredMax = 0, !.manual = m]
  BY DEF Overridden
<1> HIDE DEF m
<1> QED
  BY <1>1, <1>2 DEF Suppressed

\* What a reconcile is about to write stays suppressed through failed and
\* successful updates of the instance.
LEMMA RecStatusNext ==
    ASSUME StatusOK, [Next]_vars
    PROVE  rec'.pc = "idle" \/ RecStatusOK(rec')
<1>0. rec.pc # "idle" => RecStatusOK(rec)
  BY DEF StatusOK, RecStatusOK
<1>1. CASE ReconcileStart
  <2>1. DOMAIN Pruned(saCache.status) = StatusFields
    BY DEF StatusOK, Pruned
  <2>2. /\ DOMAIN rec' = RecFields /\ rec'.status = Pruned(saCache.status)
        /\ rec'.pc = "supersede"
    BY <1>1 DEF ReconcileStart, RecFields
  <2> QED
    BY <2>1, <2>2 DEF RecStatusOK
<1>2. CASE \/ ReconcileFinish \/ ReconcileHistory \/ ReconcileEvict
           \/ ReconcileSweep \/ ReconcileReject
  <2>1. rec.pc \in {"supersede", "expire", "reject"}
    BY <1>2 DEF ReconcileFinish, ReconcileHistory, ReconcileEvict, ReconcileSweep,
         ReconcileReject, Finishing, FinalPhase
  <2>2. RecStatusOK(rec)
    BY <1>0, <2>1
  <2> DEFINE Kept == /\ DOMAIN rec' = RecFields /\ rec'.status = rec.status
                     /\ rec'.pc \in {"supersede", "expire", "reject"}
  <2>3. Kept
    <3>1. CASE ReconcileFinish
      BY <2>1, <2>2, <3>1 DEF ReconcileFinish, RecStatusOK, RecFields
    <3>2. CASE ReconcileHistory
      <4>1. PICK V : rec' = [rec EXCEPT !.gc = FALSE, !.victims = V]
        BY <3>2 DEF ReconcileHistory
      <4> QED
        BY <2>1, <2>2, <4>1 DEF RecStatusOK, RecFields
    <3>3. CASE ReconcileEvict
      BY <2>1, <2>2, <3>3 DEF ReconcileEvict, RecStatusOK, RecFields
    <3>4. CASE ReconcileSweep
      BY <2>1, <2>2, <3>4 DEF ReconcileSweep, RecStatusOK, RecFields
    <3>5. CASE ReconcileReject
      BY <2>1, <2>2, <3>5 DEF ReconcileReject, RecStatusOK, RecFields
    <3> QED
      BY <1>2, <3>1, <3>2, <3>3, <3>4, <3>5
  <2> QED
    BY <2>2, <2>3 DEF RecStatusOK
<1>3. CASE ReconcileOverride
  <2>1. rec.pc = "expire"
    BY <1>3 DEF ReconcileOverride
  <2>2. PICK n \in rec.active :
          LET pu == nextManualPU(rec.status, n, rec.now) IN
          rec' = [rec EXCEPT !.pc = IF pu # rec.status.current THEN "update" ELSE "progress",
                             !.status = Overridden(rec.status, n), !.pu = pu]
    BY <1>3 DEF ReconcileOverride
  <2>3. DOMAIN rec' = RecFields /\ rec'.status = Overridden(rec.status, n)
    BY <1>0, <2>1, <2>2 DEF RecStatusOK, RecFields
  <2> QED
    BY <1>0, <2>1, <2>3, OverriddenSuppressed DEF RecStatusOK
<1>4. CASE ReconcileCPU
  <2> DEFINE cleared == clearActiveManualScalingState(rec.status)
             st == Planned(rec.base.spec, cleared, now)
             pu == DesiredPU(rec.base.spec, cleared)
  <2>1. rec.pc # "idle"
    BY <1>4 DEF ReconcileCPU, StageOver, Finishing, FinalPhase
  <2>2. DOMAIN cleared = StatusFields /\ cleared.manual = NoManual
    BY <1>0, <2>1 DEF clearActiveManualScalingState, RecStatusOK, StatusFields
  <2>3. DOMAIN st = StatusFields /\ st.manual = NoManual
    BY <2>2, PlannedKeepsManual
  <2>4. rec' = RecIdle \/ \E pc : rec' = [rec EXCEPT !.pc = pc, !.status = st, !.pu = pu]
    BY <1>4 DEF ReconcileCPU
  <2> HIDE DEF st, pu
  <2>5. CASE rec' = RecIdle
    BY <2>5 DEF RecIdle
  <2>6. ASSUME NEW pc, rec' = [rec EXCEPT !.pc = pc, !.status = st, !.pu = pu]
        PROVE  RecStatusOK(rec')
    <3>1. DOMAIN rec' = RecFields /\ rec'.status = st
      BY <1>0, <2>1, <2>6 DEF RecStatusOK, RecFields
    <3> QED
      BY <2>3, <3>1 DEF RecStatusOK, Suppressed
  <2> QED
    BY <2>4, <2>5, <2>6
<1>5. CASE ReconcileUpdateInstance
  <2>1. /\ rec.pc = "update"
        /\ \/ rec' = [rec EXCEPT !.pc = "write"]
           \/ rec' = [[rec EXCEPT !.pc = "progress"] EXCEPT
                        !.applied = TRUE,
                        !.status.lastScaleTime = rec.now, !.status.desired = rec.pu]
    BY <1>5 DEF ReconcileUpdateInstance, Go
  <2>2. CASE rec' = [rec EXCEPT !.pc = "write"]
    BY <1>0, <2>1, <2>2 DEF RecStatusOK, RecFields
  <2>3. CASE rec' = [[rec EXCEPT !.pc = "progress"] EXCEPT
                       !.applied = TRUE,
                       !.status.lastScaleTime = rec.now, !.status.desired = rec.pu]
    <3>1. DOMAIN rec' = RecFields
      BY <1>0, <2>1, <2>3 DEF RecStatusOK
    <3>2. rec'.status = [[rec.status EXCEPT !.lastScaleTime = rec.now] EXCEPT !.desired = rec.pu]
      BY <1>0, <2>1, <2>3 DEF RecStatusOK, RecFields
    <3>3. /\ DOMAIN rec'.status = StatusFields /\ rec'.status.manual = rec.status.manual
          /\ rec'.status.desiredMin = rec.status.desiredMin
          /\ rec'.status.desiredMax = rec.status.desiredMax
      BY <1>0, <2>1, <3>2 DEF RecStatusOK, StatusFields, NewStatus
    <3> QED
      BY <1>0, <2>1, <3>1, <3>3 DEF RecStatusOK, Suppressed
  <2> QED
    BY <2>1, <2>2, <2>3
<1>6. CASE ReconcileUpdateError
  <2>1. /\ rec.pc = "update"
        /\ \/ rec' = RecIdle
           \/ rec' = [[rec EXCEPT !.pc = "write"] EXCEPT !.status.desired = rec.status.current]
    BY <1>6 DEF ReconcileUpdateError, Go
  <2>2. CASE rec' = RecIdle
    BY <2>2 DEF RecIdle
  <2>3. CASE rec' = [[rec EXCEPT !.pc = "write"] EXCEPT !.status.desired = rec.status.current]
    <3>1. DOMAIN rec' = RecFields
      BY <1>0, <2>1, <2>3 DEF RecStatusOK
    <3>2. rec'.status = [rec.status EXCEPT !.desired = rec.status.current]
      BY <1>0, <2>1, <2>3 DEF RecStatusOK, RecFields
    <3>3. /\ DOMAIN rec'.status = StatusFields /\ rec'.status.manual = rec.status.manual
          /\ rec'.status.desiredMin = rec.status.desiredMin
          /\ rec'.status.desiredMax = rec.status.desiredMax
      BY <1>0, <2>1, <3>2 DEF RecStatusOK, StatusFields, NewStatus
    <3> QED
      BY <1>0, <2>1, <3>1, <3>3 DEF RecStatusOK, Suppressed
  <2> QED
    BY <2>1, <2>2, <2>3
<1>7. CASE ReconcileProgress
  <2>1. rec.pc = "progress" /\ (rec' = RecIdle \/ rec' = [rec EXCEPT !.pc = "write"])
    BY <1>7 DEF ReconcileProgress, Go
  <2>2. CASE rec' = RecIdle
    BY <2>2 DEF RecIdle
  <2>3. CASE rec' = [rec EXCEPT !.pc = "write"]
    BY <1>0, <2>1, <2>3 DEF RecStatusOK, RecFields
  <2> QED
    BY <2>1, <2>2, <2>3
<1>8. CASE ReconcileWrite \/ Restart
  BY <1>8 DEF ReconcileWrite, Restart, RecIdle
<1>9. CASE UNCHANGED rec
  BY <1>0, <1>9
<1>10. CASE ManualReconciler \/ Syncer
  BY <1>9, <1>10 DEF ManualReconciler, ManualReconcile, ManualWrite, ManualWriteError, Syncer,
       SyncFetch, SyncWrite
<1>11. CASE Environment
  BY <1>8, <1>9, <1>11 DEF Environment, CreateOverride, DeleteOverride, CacheSync,
       AutoscalerCacheSync, DeleteAutoscaler, CreateAutoscaler, Tick
<1>12. CASE UNCHANGED vars
  BY <1>9, <1>12 DEF vars
<1> QED
  BY <1>1, <1>2, <1>3, <1>4, <1>5, <1>6, <1>7, <1>8, <1>10, <1>11, <1>12 DEF Next, Reconciler

\* The stored status and the informer's copy of it.
LEMMA StoredStatusNext ==
    ASSUME StatusOK, [Next]_vars
    PROVE  /\ DOMAIN sa' = SAFields /\ DOMAIN sa'.status = StatusFields
           /\ Suppressed(sa'.status)
           /\ DOMAIN saCache'.status = StatusFields
<1> DEFINE Stored(s) == /\ DOMAIN s = SAFields /\ DOMAIN s.status = StatusFields
                        /\ Suppressed(s.status)
<1>0. Stored(sa) /\ DOMAIN saCache.status = StatusFields
  BY DEF StatusOK
<1>1. ASSUME NEW status, DOMAIN status = StatusFields, Suppressed(status), StoreSA(status)
      PROVE  Stored(sa')
  BY <1>0, <1>1 DEF StoreSA, SAFields
<1>2. CASE ReconcileWrite
  <2>1. DOMAIN rec.status = StatusFields /\ Suppressed(rec.status)
    BY <1>2 DEF ReconcileWrite, StatusOK
  <2> QED
    BY <1>0, <1>1, <1>2, <2>1 DEF ReconcileWrite, cached
<1>3. CASE SyncWrite
  <2>1. ASSUME NEW reading
        PROVE  /\ DOMAIN Measured(sa.status, reading) = StatusFields
               /\ Suppressed(Measured(sa.status, reading))
    <3> DEFINE st == Measured(sa.status, reading)
    <3>1. /\ DOMAIN st = StatusFields /\ st.manual = sa.status.manual
          /\ st.desiredMin = sa.status.desiredMin /\ st.desiredMax = sa.status.desiredMax
      BY <1>0 DEF Measured, StatusFields, NewStatus
    <3> QED
      BY <1>0, <3>1 DEF Suppressed
  <2> QED
    BY <1>0, <1>1, <1>3, <2>1 DEF SyncWrite, cached
<1>4. CASE DeleteAutoscaler
  BY <1>0, <1>4 DEF DeleteAutoscaler, cached, SAFields
<1>5. CASE CreateAutoscaler
  <2>1. DOMAIN EmptyStatus = StatusFields /\ EmptyStatus.manual = NoManual
    BY DEF EmptyStatus, StatusFields
  <2>2. DOMAIN sa' = SAFields /\ sa'.status = EmptyStatus
    BY <1>0, <1>5 DEF CreateAutoscaler, SAFields
  <2> QED
    BY <1>0, <1>5, <2>1, <2>2 DEF CreateAutoscaler, cached, Suppressed
<1>6. CASE UNCHANGED sa /\ (saCache' = saCache \/ saCache' = sa)
  BY <1>0, <1>6
<1>7. CASE Reconciler
  BY <1>2, <1>6, <1>7 DEF Reconciler, ReconcileStart, ReconcileFinish, ReconcileHistory,
       ReconcileEvict, ReconcileSweep, ReconcileReject, ReconcileOverride, ReconcileCPU,
       ReconcileUpdateInstance, ReconcileUpdateError, ReconcileProgress, cached
<1>8. CASE ManualReconciler \/ Syncer
  BY <1>3, <1>6, <1>8 DEF ManualReconciler, ManualReconcile, ManualWrite, ManualWriteError,
       Syncer, SyncFetch, cached
<1>9. CASE Environment
  BY <1>4, <1>5, <1>6, <1>9 DEF Environment, CreateOverride, DeleteOverride, CacheSync,
       AutoscalerCacheSync, Restart, Tick, cached
<1>10. CASE UNCHANGED vars
  BY <1>6, <1>10 DEF vars, cached
<1> QED
  BY <1>7, <1>8, <1>9, <1>10 DEF Next

\* While the status names an override, the schedules' range is suppressed in
\* it, also after failed updates of the instance, lost writes and recreations
\* of the autoscaler ("desiredMinPUs / desiredMaxPUs are zeroed while the manual
\* override is active").
THEOREM RangeStaysSuppressed == Spec => []RangeSuppressed
<1>1. Init => StatusOK
  <2> SUFFICES ASSUME Init
               PROVE  StatusOK
    OBVIOUS
  <2>1. PICK s, reading :
          sa = [rv |-> 0, uid |-> 1, live |-> TRUE, spec |-> s,
                status |-> Measured(EmptyStatus, reading)]
    BY DEF Init
  <2>2. DOMAIN EmptyStatus = StatusFields /\ EmptyStatus.manual = NoManual
    BY DEF EmptyStatus, StatusFields
  <2>3. /\ DOMAIN Measured(EmptyStatus, reading) = StatusFields
        /\ Measured(EmptyStatus, reading).manual = NoManual
    BY <2>2 DEF Measured, StatusFields
  <2>4. DOMAIN sa = SAFields /\ sa.status = Measured(EmptyStatus, reading)
    BY <2>1 DEF SAFields
  <2>5. saCache = sa /\ rec.pc = "idle"
    BY DEF Init, RecIdle
  <2> QED
    BY <2>3, <2>4, <2>5 DEF StatusOK, Suppressed
<1>2. StatusOK /\ [Next]_vars => StatusOK'
  <2> SUFFICES ASSUME StatusOK, [Next]_vars
               PROVE  StatusOK'
    OBVIOUS
  <2>1. rec'.pc = "idle" \/ RecStatusOK(rec')
    BY RecStatusNext
  <2> QED
    BY <2>1, StoredStatusNext DEF StatusOK, RecStatusOK
<1>3. StatusOK => RangeSuppressed
  BY DEF StatusOK, Suppressed, RangeSuppressed
<1> QED
  BY <1>1, <1>2, <1>3, PTL DEF Spec
=============================================================================
