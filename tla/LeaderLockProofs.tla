-------------------------- MODULE LeaderLockProofs --------------------------
(***************************************************************************)
(* Proofs about LeaderLock, for any number of replicas and any timing.     *)
(***************************************************************************)
EXTENDS LeaderLock, TLAPS

\* No release reaches Valkey after the caller gave up on it.
NoLateRelease == "late" \notin Faults

\* Every renewal reaches Valkey before the lease it renews has run out.
TimelyRenewal == RenewEvery + MaxDelay < TTL

\* The inductive invariant: a leader whose last renewal is young enough owns
\* the key, and the key's remaining TTL and the renewal's age add up, unless its
\* own late release has robbed it; no renewal is later than MaxDelay.
LeaseInv ==
    /\ TypeOK
    /\ NoLateRelease => late = {} /\ robbed = {}
    /\ \A i \in Instances : pc[i] = "lead" => age[i] <= RenewEvery + MaxDelay
    /\ \A i \in Instances :
          pc[i] = "lead" /\ age[i] < TTL /\ i \notin robbed => lease = i /\ left = TTL - age[i]

\* Nobody leads in the initial states, so the invariant holds there.
LEMMA LeaseInit == Init => LeaseInv
  <1> SUFFICES ASSUME Init PROVE LeaseInv
    OBVIOUS
  <1>1. TypeOK
    BY TimeAssumption DEF Init, TypeOK, Pcs
  <1> QED
    BY <1>1 DEF Init, LeaseInv

\* A step of one replica that is not about to lead leaves every other leader's
\* lease alone.
LEMMA NotLeading ==
    ASSUME LeaseInv, NEW i \in Instances,
           pc' \in [Instances -> Pcs], pc'[i] # "lead",
           \A j \in Instances \ {i} : pc'[j] = pc[j] /\ age'[j] = age[j],
           lease = i \/ UNCHANGED <<lease, left>>, robbed' = robbed,
           late' \in SUBSET Instances, NoLateRelease => late' = {},
           lease' \in Instances \cup {NoOwner, Ghost}, left' \in 0..TTL,
           age' \in [Instances -> Nat], done' \in SUBSET Instances
    PROVE  LeaseInv'
  <1>1. TypeOK'
    BY DEF LeaseInv, TypeOK
  <1>2. \A j \in Instances : pc'[j] = "lead" => j # i /\ pc[j] = "lead" /\ age'[j] = age[j]
    OBVIOUS
  <1>3. \A j \in Instances : pc'[j] = "lead" => age'[j] <= RenewEvery + MaxDelay
    BY <1>2 DEF LeaseInv
  <1>4. ASSUME NEW j \in Instances, pc'[j] = "lead", age'[j] < TTL, j \notin robbed'
        PROVE  lease' = j /\ left' = TTL - age'[j]
    <2>1. lease = j /\ left = TTL - age[j] /\ j # i /\ age'[j] = age[j]
      BY <1>2, <1>4 DEF LeaseInv
    <2> QED
      BY <2>1
  <1> QED
    BY <1>1, <1>3, <1>4 DEF LeaseInv, NoLateRelease

\* SET NX gives the key to a leader only when no leader with a young renewal owns it.
LEMMA AcquireStep ==
    ASSUME LeaseInv, NEW i \in Instances, Acquire(i)
    PROVE  LeaseInv'
  <1> USE DEF LeaseInv, TypeOK, Pcs
  <1>1. CASE TakeLease(i)
    <2>1. lease = NoOwner /\ lease' = i /\ left' = TTL
      BY <1>1 DEF TakeLease, SetNX
    <2>2. TypeOK' /\ (NoLateRelease => late' = {} /\ robbed' = {})
      BY <1>1, <2>1, TimeAssumption DEF TakeLease, Goto, NoLateRelease
    <2>3. \A j \in Instances : pc'[j] = "lead" => age'[j] <= RenewEvery + MaxDelay
      BY <1>1, TimeAssumption DEF TakeLease, Goto
    <2>4. \A j \in Instances \ {i} : pc'[j] = "lead" /\ j \notin robbed' => age'[j] >= TTL
      BY <1>1, <2>1, InstanceAssumption, TimeAssumption DEF TakeLease, Goto
    <2>5. lease' = i /\ left' = TTL - age'[i]
      BY <1>1, <2>1, TimeAssumption DEF TakeLease
    <2> QED
      BY <2>2, <2>3, <2>4, <2>5, TimeAssumption DEF NoLateRelease
  <1>2. CASE Goto(i, "sleep") /\ UNCHANGED <<age, lease, left, done, late, robbed>>
    <2>1. pc' \in [Instances -> Pcs] /\ pc'[i] # "lead"
      BY <1>2 DEF Goto
    <2>2. \A j \in Instances \ {i} : pc'[j] = pc[j] /\ age'[j] = age[j]
      BY <1>2 DEF Goto
    <2> QED
      BY <1>2, <2>1, <2>2, NotLeading
  <1>3. CASE /\ lease = NoOwner /\ lease' = i /\ left' = TTL
             /\ Goto(i, "sleep") /\ UNCHANGED <<age, done, late, robbed>>
    <2>1. TypeOK'
      BY <1>3, TimeAssumption DEF Goto
    <2>2. \A j \in Instances : pc'[j] = "lead" => pc[j] = "lead" /\ age'[j] = age[j]
      BY <1>3 DEF Goto
    <2>3. \A j \in Instances : pc'[j] = "lead" /\ j \notin robbed' => age'[j] >= TTL
      BY <1>3, <2>2, InstanceAssumption, TimeAssumption
    <2> QED
      BY <1>3, <2>1, <2>2, <2>3, TimeAssumption DEF NoLateRelease
  <1> QED
    BY <1>1, <1>2, <1>3 DEF Acquire, SetNX

\* A renewal extends the lease of its owner only, or stops the leader.
LEMMA RenewStep ==
    ASSUME LeaseInv, NEW i \in Instances, Renew(i)
    PROVE  LeaseInv'
  <1> USE DEF LeaseInv, TypeOK, Pcs
  <1>1. CASE lease = i /\ left' = TTL /\ age' = [age EXCEPT ![i] = 0] /\ UNCHANGED <<pc, lease>>
    <2>1. TypeOK' /\ (NoLateRelease => late' = {} /\ robbed' = {})
      BY <1>1, TimeAssumption DEF Renew, NoLateRelease
    <2>2. \A j \in Instances : pc'[j] = "lead" => age'[j] <= RenewEvery + MaxDelay
      BY <1>1, TimeAssumption
    <2>3. ASSUME NEW j \in Instances, pc'[j] = "lead", age'[j] < TTL, j \notin robbed'
          PROVE  lease' = j /\ left' = TTL - age'[j]
      BY <1>1, <2>3, TimeAssumption DEF Renew
    <2> QED
      BY <2>1, <2>2, <2>3 DEF NoLateRelease
  <1>2. CASE Goto(i, "stopping") /\ UNCHANGED <<lease, age>> /\ (lease = i \/ left' = left)
    <2>1. pc' \in [Instances -> Pcs] /\ pc'[i] # "lead"
      BY <1>2 DEF Goto
    <2>2. \A j \in Instances \ {i} : pc'[j] = pc[j] /\ age'[j] = age[j]
      BY <1>2 DEF Goto
    <2>3. left' \in 0..TTL
      BY TimeAssumption DEF Renew
    <2> QED
      BY <1>2, <2>1, <2>2, <2>3, NotLeading DEF Renew
  <1> QED
    BY <1>1, <1>2 DEF Renew

\* The release script leaves the lease of every other leader alone.
LEMMA ReleaseStep ==
    ASSUME LeaseInv, NEW i \in Instances, Release(i)
    PROVE  LeaseInv'
  <1> USE DEF LeaseInv, TypeOK, Pcs
  <1>1. pc' \in [Instances -> Pcs] /\ pc'[i] # "lead"
    BY DEF Release, Goto
  <1>2. \A j \in Instances \ {i} : pc'[j] = pc[j] /\ age'[j] = age[j]
    BY DEF Release, Goto
  <1>3. /\ late' \in SUBSET Instances /\ (NoLateRelease => late' = {})
        /\ lease = i \/ UNCHANGED <<lease, left>>
    BY DEF Release, DelIfOwner, NoLateRelease
  <1>4. lease' \in Instances \cup {NoOwner, Ghost} /\ left' \in 0..TTL
    BY TimeAssumption DEF Release, DelIfOwner
  <1> QED
    BY <1>1, <1>2, <1>3, <1>4, NotLeading DEF Release

\* A late release can only delete the key of its own sender, which is then robbed.
LEMMA LateReleaseStep ==
    ASSUME LeaseInv, NEW i \in Instances, LateRelease(i)
    PROVE  LeaseInv'
  <1> USE DEF LeaseInv, TypeOK, Pcs
  <1>1. ~NoLateRelease
    BY DEF LateRelease
  <1>2. TypeOK'
    BY TimeAssumption DEF LateRelease, DelIfOwner
  <1>3. ASSUME NEW j \in Instances, pc'[j] = "lead", age'[j] < TTL, j \notin robbed'
        PROVE  lease' = j /\ left' = TTL - age'[j]
    <2>1. lease = j /\ left = TTL - age[j]
      BY <1>3 DEF LateRelease
    <2>2. j # i
      BY <1>3, <2>1 DEF LateRelease
    <2> QED
      BY <2>1, <2>2 DEF LateRelease, DelIfOwner
  <1> QED
    BY <1>1, <1>2, <1>3 DEF LateRelease, NoLateRelease

\* The steps that change only where the replica is, and the crash, which leaves
\* its key to a dead id.
LEMMA LocalStep ==
    ASSUME LeaseInv, NEW i \in Instances,
           Wake(i) \/ FnReturns(i) \/ FnDone(i) \/ Return(i) \/ Shutdown(i) \/ Crash(i) \/ Restart(i)
    PROVE  LeaseInv'
  <1> USE DEF LeaseInv, TypeOK, Pcs
  <1>1. pc' \in [Instances -> Pcs] /\ pc'[i] # "lead"
    BY DEF Wake, FnReturns, FnDone, Return, Shutdown, Crash, Restart, Goto
  <1>2. \A j \in Instances \ {i} : pc'[j] = pc[j] /\ age'[j] = age[j]
    BY DEF Wake, FnReturns, FnDone, Return, Shutdown, Crash, Restart, Goto
  <1>3. /\ robbed' = robbed /\ late' \in SUBSET Instances /\ (NoLateRelease => late' = {})
        /\ lease = i \/ UNCHANGED <<lease, left>>
    BY DEF Wake, FnReturns, FnDone, Return, Shutdown, Crash, Restart
  <1>4. /\ lease' \in Instances \cup {NoOwner, Ghost}
        /\ left' \in 0..TTL
        /\ age' \in [Instances -> Nat]
        /\ done' \in SUBSET Instances
    BY DEF Wake, FnReturns, FnDone, Return, Shutdown, Crash, Restart
  <1> QED
    BY <1>1, <1>2, <1>3, <1>4, NotLeading

\* A leader younger than the TTL still has its lease after a tick.
LEMMA TickStep ==
    ASSUME LeaseInv, Tick
    PROVE  LeaseInv'
  <1> USE DEF LeaseInv, TypeOK, Pcs
  <1>1. TypeOK' /\ (NoLateRelease => late' = {} /\ robbed' = {})
    BY TimeAssumption DEF Tick, NoLateRelease
  <1>2. \A j \in Instances : pc'[j] = "lead" => pc[j] = "lead" /\ age'[j] = age[j] + 1
    BY DEF Tick
  <1>3. \A j \in Instances : pc'[j] = "lead" => age'[j] <= RenewEvery + MaxDelay
    BY <1>2, TimeAssumption DEF Tick
  <1>4. ASSUME NEW j \in Instances, pc'[j] = "lead", age'[j] < TTL, j \notin robbed'
        PROVE  lease' = j /\ left' = TTL - age'[j]
    <2>1. lease = j /\ left = TTL - age[j] /\ left > 1
      BY <1>2, <1>4, TimeAssumption DEF Tick
    <2> QED
      BY <1>2, <1>4, <2>1, TimeAssumption DEF Tick
  <1> QED
    BY <1>1, <1>3, <1>4 DEF NoLateRelease

\* Every step of leaderlock.Run, and of its surroundings, keeps the invariant.
LEMMA LeaseStep == LeaseInv /\ [Next]_vars => LeaseInv'
  <1> SUFFICES ASSUME LeaseInv, [Next]_vars PROVE LeaseInv'
    OBVIOUS
  <1>1. CASE UNCHANGED vars
    BY <1>1 DEF vars, LeaseInv, TypeOK, NoLateRelease
  <1> QED
    BY <1>1, AcquireStep, RenewStep, ReleaseStep, LateReleaseStep, LocalStep, TickStep
       DEF Next, RunStep

\* Every variable of the election always holds a value of its type; in
\* particular the key only ever holds an id some replica has drawn.
THEOREM LeaderTypeCorrect == Spec => []TypeOK
  <1>1. LeaseInv => TypeOK
    BY DEF LeaseInv
  <1> QED
    BY <1>1, LeaseInit, LeaseStep, PTL DEF Spec

\* With any number of replicas, any timing, failing and late commands, crashes
\* and shutdowns, a leader its own late release has not robbed owns the key as
\* long as its last renewal is younger than the TTL.
THEOREM LeadsOnLeaseHolds == Spec => []LeadsOnLease
  <1>1. LeaseInv => LeadsOnLease
    BY DEF LeaseInv, LeadsOnLease
  <1> QED
    BY <1>1, LeaseInit, LeaseStep, PTL DEF Spec

\* If renewals are timely and no release is late, at most one replica leads.
THEOREM SingleLeaderHolds == ASSUME NoLateRelease, TimelyRenewal PROVE Spec => []SingleLeader
  <1>1. LeaseInv => SingleLeader
    <2> SUFFICES ASSUME LeaseInv, NEW i \in Instances, NEW j \in Instances,
                        pc[i] = "lead", pc[j] = "lead"
                 PROVE  i = j
      BY DEF SingleLeader
    <2>1. age[i] < TTL /\ age[j] < TTL
      BY TimeAssumption DEF LeaseInv, TypeOK, TimelyRenewal
    <2> QED
      BY <2>1 DEF LeaseInv, NoLateRelease
  <1> QED
    BY <1>1, LeaseInit, LeaseStep, PTL DEF Spec

\* However late, lost or repeated the commands are, a key with time to live leaves
\* its owner only by the owner's release or its crash: no replica deletes or takes
\* over the lease another one holds.
THEOREM OwnLeaseOnlyHolds == Spec => OwnLeaseOnly
  <1> DEFINE Gives == \A i \in Instances : lease = i /\ lease' # i =>
                         \/ left <= 1
                         \/ pc[i] = "release"
                         \/ i \in late
                         \/ pc'[i] = "crashed"
  <1>1. LeaseInv /\ [Next]_vars => [Gives]_vars
    <2> SUFFICES ASSUME LeaseInv, Next, NEW i \in Instances, lease = i, lease' # i
                 PROVE  left <= 1 \/ pc[i] = "release" \/ i \in late \/ pc'[i] = "crashed"
      OBVIOUS
    <2>1. ASSUME NEW j \in Instances,
                 Acquire(j) \/ Wake(j) \/ Renew(j) \/ FnDone(j) \/ Return(j) \/ FnReturns(j)
                   \/ Shutdown(j) \/ Restart(j)
          PROVE  FALSE
      BY <2>1, InstanceAssumption DEF Acquire, TakeLease, SetNX, Wake, Renew, FnDone, Return,
         FnReturns, Shutdown, Restart
    <2>2. ASSUME NEW j \in Instances, Release(j) PROVE pc[i] = "release"
      BY <2>2 DEF Release, DelIfOwner
    <2>3. ASSUME NEW j \in Instances, LateRelease(j) PROVE i \in late
      BY <2>3 DEF LateRelease, DelIfOwner
    <2>4. ASSUME NEW j \in Instances, Crash(j) PROVE pc'[i] = "crashed"
      BY <2>4 DEF Crash, Goto, LeaseInv, TypeOK
    <2>5. ASSUME Tick PROVE left <= 1
      BY <2>5 DEF Tick
    <2> QED
      BY <2>1, <2>2, <2>3, <2>4, <2>5 DEF Next, RunStep
  <1> QED
    BY <1>1, LeaseInit, LeaseStep, PTL DEF Spec, OwnLeaseOnly
=============================================================================
