----------------------------- MODULE LeaderLock -----------------------------
(***************************************************************************)
(* The lease that elects the gateway replica whose matchmaker loop runs:   *)
(* a Valkey key with a TTL, taken with SET NX PX, extended and deleted by  *)
(* scripts that check the owner.  Each instance runs leaderlock.Run; time  *)
(* is discrete and only the lease and the age of the last renewal see it.  *)
(***************************************************************************)
EXTENDS Naturals, FiniteSets

CONSTANTS
    Instances,        \* gateway replicas; each Run draws one id for its lifetime
    NoOwner,
    Ghost,            \* the id of a process that has crashed
    TTL,              \* lease lifetime
    RenewEvery,       \* the leader's renewal period (the code uses TTL / 3)
    MaxDelay,         \* how late a renewal may reach Valkey
    Faults            \* what may go wrong, see FaultKinds

FaultKinds ==
    {"acquire", "renew", "release", "late", "crash", "restart", "shutdown", "exit"}

ASSUME InstanceAssumption ==
    NoOwner \notin Instances /\ Ghost \notin Instances /\ NoOwner # Ghost
ASSUME TimeAssumption == TTL \in Nat \ {0} /\ RenewEvery \in Nat \ {0} /\ MaxDelay \in Nat
ASSUME FaultAssumption == Faults \subseteq FaultKinds

VARIABLES
    lease,            \* the value of the key: an instance's id, or NoOwner when absent
    left,             \* its remaining TTL
    pc,               \* where Run is
    age,              \* of each leader's last acquisition or renewal in Valkey
    done,             \* instances whose outer context is done
    late,             \* release commands that timed out and have yet to reach Valkey
    robbed            \* instances whose late release deleted the lease they had taken again

vars == <<lease, left, pc, age, done, late, robbed>>

Pcs == {"contend", "sleep", "lead", "stopping", "release", "returned", "crashed"}

TypeOK ==
    /\ lease \in Instances \cup {NoOwner, Ghost}
    /\ left \in 0..TTL
    /\ pc \in [Instances -> Pcs]
    /\ age \in [Instances -> Nat]
    /\ done \in SUBSET Instances
    /\ late \in SUBSET Instances
    /\ robbed \in SUBSET Instances

Init ==
    /\ lease = NoOwner
    /\ left = 0
    /\ pc = [i \in Instances |-> "contend"]
    /\ age = [i \in Instances |-> 0]
    /\ done = {}
    /\ late = {}
    /\ robbed = {}

Goto(i, label) == pc' = [pc EXCEPT ![i] = label]

\* The SET NX PX command and its effect on a free key.
SetNX(i) ==
    IF lease = NoOwner THEN lease' = i /\ left' = TTL ELSE UNCHANGED <<lease, left>>

\* SET NX succeeds and says so: the caller leads.
TakeLease(i) ==
    /\ pc[i] = "contend"
    /\ i \notin done
    /\ lease = NoOwner
    /\ SetNX(i)
    /\ Goto(i, "lead")
    /\ age' = [age EXCEPT ![i] = 0]
    /\ robbed' = robbed \ {i}
    /\ UNCHANGED <<done, late>>

\* acquire.  Run treats an error as "not acquired" and polls again, even when
\* the key was set and only the reply was lost.
Acquire(i) ==
    \/ TakeLease(i)
    \/ /\ pc[i] = "contend"
       /\ i \notin done
       /\ \/ lease # NoOwner /\ UNCHANGED <<lease, left>>
          \/ "acquire" \in Faults /\ (SetNX(i) \/ UNCHANGED <<lease, left>>)
       /\ Goto(i, "sleep")
       /\ UNCHANGED <<age, done, late, robbed>>

\* sleep(pollEvery) ends.
Wake(i) ==
    /\ pc[i] = "sleep"
    /\ Goto(i, "contend")
    /\ UNCHANGED <<lease, left, age, done, late, robbed>>

\* Mutant of Renew: the TTL is added to what is left of the lease.
RenewAdds(i) ==
    /\ pc[i] = "lead"
    /\ age[i] >= RenewEvery
    /\ IF lease = i
         THEN left' = left + TTL /\ age' = [age EXCEPT ![i] = 0] /\ UNCHANGED pc
         ELSE Goto(i, "stopping") /\ UNCHANGED <<left, age>>
    /\ UNCHANGED <<lease, done, late, robbed>>

\* The renewal tick of leadAndHold.  A renewal that fails for any reason
\* cancels the matchmaker's context.
Renew(i) ==
    /\ pc[i] = "lead"
    /\ age[i] >= RenewEvery
    /\ \/ /\ lease = i
          /\ left' = TTL
          /\ age' = [age EXCEPT ![i] = 0]
          /\ UNCHANGED pc
       \/ /\ lease # i
          /\ Goto(i, "stopping")
          /\ UNCHANGED <<left, age>>
       \/ /\ "renew" \in Faults
          /\ left' \in {left, IF lease = i THEN TTL ELSE left}
          /\ Goto(i, "stopping")
          /\ UNCHANGED age
    /\ UNCHANGED <<lease, done, late, robbed>>

\* The matchmaker loop returns on its own.
FnReturns(i) ==
    /\ "exit" \in Faults
    /\ pc[i] = "lead"
    /\ Goto(i, "release")
    /\ UNCHANGED <<lease, left, age, done, late, robbed>>

\* Mutant of FnDone: a lost lease does not cancel the loop's context.
FnNotCancelled(i) ==
    /\ pc[i] = "stopping"
    /\ i \in done
    /\ Goto(i, "release")
    /\ UNCHANGED <<lease, left, age, done, late, robbed>>

\* After the cancel, leadAndHold waits for the matchmaker loop to return.
FnDone(i) ==
    /\ pc[i] = "stopping"
    /\ Goto(i, "release")
    /\ UNCHANGED <<lease, left, age, done, late, robbed>>

\* Mutant of DelIfOwner: DEL without the owner check.
DelAny(i) == lease' = NoOwner /\ left' = 0

\* The release script deletes the key of its own id only.
DelIfOwner(i) ==
    IF lease = i THEN lease' = NoOwner /\ left' = 0 ELSE UNCHANGED <<lease, left>>

\* release is best effort; it may be lost, or reach Valkey after its timeout.
Release(i) ==
    /\ pc[i] = "release"
    /\ \/ DelIfOwner(i) /\ UNCHANGED late
       \/ "release" \in Faults /\ UNCHANGED <<lease, left, late>>
       \/ "late" \in Faults /\ late' = late \cup {i} /\ UNCHANGED <<lease, left>>
    /\ Goto(i, "contend")
    /\ UNCHANGED <<age, done, robbed>>

LateRelease(i) ==
    /\ i \in late
    /\ late' = late \ {i}
    /\ DelIfOwner(i)
    /\ robbed' = IF lease = i THEN robbed \cup {i} ELSE robbed
    /\ UNCHANGED <<pc, age, done>>

\* The process is told to stop: the outer context is done.
Shutdown(i) ==
    /\ "shutdown" \in Faults
    /\ i \notin done
    /\ pc[i] # "crashed"
    /\ done' = done \cup {i}
    /\ IF pc[i] = "lead" THEN Goto(i, "stopping") ELSE UNCHANGED pc
    /\ UNCHANGED <<lease, left, age, late, robbed>>

Return(i) ==
    /\ i \in done
    /\ pc[i] \in {"contend", "sleep"}
    /\ Goto(i, "returned")
    /\ UNCHANGED <<lease, left, age, done, late, robbed>>

\* A crash leaves the lease behind; the restarted process has a new id.
Crash(i) ==
    /\ "crash" \in Faults
    /\ pc[i] \notin {"crashed", "returned"}
    /\ Goto(i, "crashed")
    /\ lease' = IF lease = i THEN Ghost ELSE lease
    /\ late' = late \ {i}
    /\ UNCHANGED <<left, age, done, robbed>>

Restart(i) ==
    /\ "restart" \in Faults
    /\ pc[i] = "crashed"
    /\ Goto(i, "contend")
    /\ done' = done \ {i}
    /\ UNCHANGED <<lease, left, age, late, robbed>>

\* Time passes, except that no renewal is later than MaxDelay; Valkey drops the
\* key when its TTL is over.
Tick ==
    /\ \A i \in Instances : pc[i] = "lead" => age[i] < RenewEvery + MaxDelay
    /\ age' = [i \in Instances |-> IF pc[i] = "lead" THEN age[i] + 1 ELSE 0]
    /\ left' = IF left > 0 THEN left - 1 ELSE 0
    /\ lease' = IF left <= 1 THEN NoOwner ELSE lease
    /\ UNCHANGED <<pc, done, late, robbed>>

RunStep(i) ==
    Acquire(i) \/ Wake(i) \/ Renew(i) \/ FnDone(i) \/ Release(i) \/ Return(i)

Next ==
    \/ \E i \in Instances :
          \/ RunStep(i) \/ FnReturns(i) \/ LateRelease(i)
          \/ Shutdown(i) \/ Crash(i) \/ Restart(i)
    \/ Tick

Spec == Init /\ [][Next]_vars

\* Run's goroutine runs, time passes, and a replica that keeps trying to take a
\* free key does not fail every time; nothing makes a fault or a restart happen.
FairSpec ==
    /\ Spec
    /\ WF_vars(Tick)
    /\ \A i \in Instances : WF_vars(RunStep(i)) /\ SF_vars(TakeLease(i))

----------------------------------------------------------------------------
(* Properties.                                                             *)

\* A leader loses its lease only by not renewing it, or to its own late release:
\* otherwise, as long as its last renewal is younger than the TTL, the key holds
\* its id, whatever the others do.  Two leaders overlap only while one of them
\* is late or robbed.
LeadsOnLease ==
    \A i \in Instances : pc[i] = "lead" /\ age[i] < TTL /\ i \notin robbed => lease = i

\* No two replicas run the matchmaker loop at the same time.
SingleLeader == \A i, j \in Instances : pc[i] = "lead" /\ pc[j] = "lead" => i = j

\* A key that still has time to live changes hands only when its owner gives it
\* up: nobody deletes or takes over a lease a successor already took.
OwnLeaseOnly ==
    [][\A i \in Instances : lease = i /\ lease' # i =>
          \/ left <= 1
          \/ pc[i] = "release"
          \/ i \in late
          \/ pc'[i] = "crashed"]_vars

\* Leadership never stays vacant while some replica is up: a standby takes over
\* after a crash, a lost lease or a failed release.
AlwaysALeader ==
    []<>(\/ \E i \in Instances : pc[i] = "lead"
         \/ \A i \in Instances : pc[i] \in {"crashed", "returned"})
=============================================================================
