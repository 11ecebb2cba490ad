--------------------------- MODULE FenceScheduler ---------------------------
(***************************************************************************)
(* rdna4::Scheduler and rdna4::FencePool: one host thread submits command  *)
(* buffers to the device's queues, the device works them off in the order  *)
(* of each queue, and syncAll waits for the fences the scheduler took from *)
(* its pool before it resets the command pools.  A command buffer is only  *)
(* seen through the fence it was submitted with.                           *)
(***************************************************************************)
EXTENDS Naturals, Sequences, SequencesExt

CONSTANTS NumQueues,   \* the ACE queues; the code has four
          PoolSize,    \* fences the pool creates; 64
          MaxFences,   \* bound on the fences there can be
          UserFences,  \* fences of the caller
          NoFence,     \* VK_NULL_HANDLE
          MaxWork      \* bound on a queue's unfinished submissions and
                     \* on its tracked fences

ASSUME SchedulerAssumption ==
  /\ NumQueues \in Nat /\ PoolSize \in Nat /\ MaxFences \in Nat \ {0}
  /\ PoolSize <= MaxFences
  /\ UserFences \cap Nat = {} /\ NoFence \notin Nat \cup UserFences
  /\ MaxWork \in Nat

VARIABLES
  pooled,   \* the scheduler was given a fence pool
  pool,     \* pool_
  created,  \* fences 1 .. created exist
  tracked,  \* queueFences_
  status,   \* of every fence: unsignaled, pending, signaled
  work,     \* per queue, the fences of the unfinished submissions
  batch,    \* the queue of the open batch
  timed,    \* the fence dispatchTimed waits for
  pc,       \* what the host thread is blocked in
  nullWait, \* a wait was given a null handle
  vkState   \* the device: ok or lost

fenceVars == <<pooled, pool, created, tracked, status, work, batch, timed, pc,
               nullWait, vkState>>

Queues == 1 .. NumQueues
Own    == 1 .. MaxFences
Fences == Own \cup UserFences
NoBatch == NoFence

FenceInit ==
  /\ pooled \in BOOLEAN
  /\ created = IF pooled THEN PoolSize ELSE 0
  /\ pool = [i \in 1 .. created |-> i]
  /\ tracked = [q \in Queues |-> << >>]
  /\ status = [f \in Fences |-> "unsignaled"]
  /\ work = [q \in Queues |-> << >>]
  /\ batch = NoBatch /\ timed = NoFence /\ pc = "running" /\ vkState = "ok"
  /\ nullWait = FALSE

-----------------------------------------------------------------------------
(* FencePool.                                                              *)

(* acquire: the last fence of the pool, or one made on demand, which may   *)
(* fail.                                                                   *)
Made == {[fence |-> NoFence, pool |-> pool, created |-> created]} \cup
        (IF created < MaxFences
         THEN {[fence |-> created + 1, pool |-> pool, created |-> created + 1]}
         ELSE {})

Acquired == IF pool # << >>
            THEN {[fence |-> Last(pool), pool |-> Front(pool),
                   created |-> created]}
            ELSE Made

Released(p, f) == IF f = NoFence THEN p ELSE Append(p, f)

Lent(f) == [fence |-> f, pool |-> pool, created |-> created]

-----------------------------------------------------------------------------
(* A submission of one command buffer to queue q.  The scheduler owns the  *)
(* fence unless the caller passed one or there is no pool.  Where recording*)
(* fails the code returns before this point and changes nothing.           *)
Submissions == IF vkState = "lost" THEN {FALSE} ELSE BOOLEAN

Room(q) ==
  pc = "running" /\ Len(work[q]) < MaxWork /\ Len(tracked[q]) < MaxWork

Usable(f) == f = NoFence \/ (f \in UserFences /\ status[f] = "unsignaled")

Submitted(q, f) ==
  /\ work' = [work EXCEPT ![q] = Append(@, f)]
  /\ status' = IF f = NoFence THEN status ELSE [status EXCEPT ![f] = "pending"]

(* acquire resets the fence it takes from the pool.                        *)
NotSubmitted(f) ==
  /\ status' = IF f = NoFence THEN status ELSE [status EXCEPT ![f] = "unsignaled"]
  /\ UNCHANGED work

(* Mutant: the fence is tracked before the result of the submission is     *)
(* looked at.                                                              *)
SubmitTracked(q, f) ==
  LET owns == f = NoFence /\ pooled
  IN \E a \in IF owns THEN Acquired ELSE {Lent(f)}, done \in Submissions :
       /\ created' = a.created
       /\ IF done THEN Submitted(q, a.fence) ELSE NotSubmitted(a.fence)
       /\ tracked' = IF owns THEN [tracked EXCEPT ![q] = Append(@, a.fence)]
                     ELSE tracked
       /\ pool' = a.pool

(* What dispatch, dispatchBatch, dispatchBatchBarriers and endBatch do once*)
(* the command buffer is recorded.                                         *)
SubmitTracking(q, f) ==
  LET owns == f = NoFence /\ pooled
  IN \E a \in IF owns THEN Acquired ELSE {Lent(f)}, done \in Submissions :
       /\ created' = a.created
       /\ IF done
          THEN /\ Submitted(q, a.fence)
               /\ pool' = a.pool
               /\ tracked' = IF owns THEN [tracked EXCEPT ![q] = Append(@, a.fence)]
                             ELSE tracked
          ELSE /\ NotSubmitted(a.fence)
               /\ pool' = IF owns THEN Released(a.pool, a.fence) ELSE a.pool
               /\ UNCHANGED tracked

Dispatch(q, f) ==
  /\ Room(q) /\ Usable(f)
  /\ SubmitTracking(q, f)
  /\ UNCHANGED <<pooled, batch, timed, pc, vkState, nullWait>>

(* A second beginBatch replaces the batch of the first.                    *)
BeginBatch(q) ==
  /\ pc = "running"
  /\ batch' \in {q, NoBatch}
  /\ UNCHANGED <<pooled, pool, created, tracked, status, work, timed, pc,
                 vkState, nullWait>>

(* The batch is over in any case.                                          *)
EndBatch(f) ==
  /\ batch # NoBatch /\ Room(batch) /\ Usable(f)
  /\ \/ SubmitTracking(batch, f)
     \/ UNCHANGED <<pool, created, tracked, status, work>>
  /\ batch' = NoBatch
  /\ UNCHANGED <<pooled, timed, pc, vkState, nullWait>>

(* dispatchTimed waits for its own submission.  Without a pool, or when    *)
(* the pool has no fence and makes none, it tries to make one itself.      *)
DispatchTimed(q) ==
  /\ Room(q)
  /\ \E a \in IF pooled THEN Acquired ELSE Made, done \in Submissions :
       /\ IF done
          THEN /\ Submitted(q, a.fence)
               /\ pool' = a.pool /\ timed' = a.fence /\ pc' = "timed"
          ELSE /\ NotSubmitted(a.fence)
               /\ pool' = IF pooled THEN Released(a.pool, a.fence) ELSE a.pool
               /\ UNCHANGED <<timed, pc>>
       /\ created' = IF done \/ pooled THEN a.created ELSE created
  /\ UNCHANGED <<pooled, tracked, batch, vkState, nullWait>>

(* A wait for a null handle is undefined; here it returns at once.         *)
Over(f) == f # NoFence /\ vkState = "ok" => status[f] = "signaled"

DispatchTimedReturns ==
  /\ pc = "timed" /\ Over(timed)
  /\ pool' = IF pooled THEN Released(pool, timed) ELSE pool
  /\ created' = IF pooled \/ timed = NoFence THEN created ELSE created - 1
  /\ status' = IF pooled \/ timed = NoFence THEN status
               ELSE [status EXCEPT ![timed] = "unsignaled"]
  /\ timed' = NoFence /\ pc' = "running"
  /\ nullWait' = (nullWait \/ timed = NoFence)
  /\ UNCHANGED <<pooled, tracked, work, batch, vkState>>

-----------------------------------------------------------------------------
(* syncAll, and cleanup, which calls it before it destroys the pools.      *)
InOrder    == FlattenSeq(tracked)
AllTracked == ToSet(InOrder)

SyncAll ==
  /\ pc = "running"
  /\ pc' \in {"sync", "cleanup"}
  /\ UNCHANGED <<pooled, pool, created, tracked, status, work, batch, timed,
                 vkState, nullWait>>

(* Mutants: the wait is for any of the fences (VK_FALSE), or for those of  *)
(* one queue.                                                              *)
WaitedAny   == AllTracked = {} \/ \E f \in AllTracked : Over(f)
WaitedQueue == \E q \in Queues : \A f \in ToSet(tracked[q]) : Over(f)

(* vkWaitForFences for all of them; nobody looks at its result, and a null *)
(* handle among them makes it undefined.                                   *)
Waited == NoFence \in AllTracked \/ \A f \in AllTracked : Over(f)

WaitedIdle == vkState = "lost" \/ \A q \in Queues : work[q] = << >>

(* Mutant: the fences are released but not forgotten.                      *)
ForgottenNot == tracked
Forgotten    == [q \in Queues |-> << >>]

(* The fences go back to the pool, and the command pools are reset, which  *)
(* takes its recording from an open batch.                                 *)
SyncAllReturns ==
  /\ pc \in {"sync", "cleanup"}
  /\ IF pooled THEN Waited ELSE WaitedIdle
  /\ pool' = FoldLeft(Released, pool, InOrder)
  /\ tracked' = Forgotten
  /\ pc' = IF pc = "sync" THEN "running" ELSE "gone"
  /\ nullWait' = (nullWait \/ NoFence \in AllTracked)
  /\ UNCHANGED <<pooled, created, status, work, batch, timed, vkState>>

-----------------------------------------------------------------------------
(* The device finishes the oldest submission of a queue, or is lost; the   *)
(* caller waits for a fence of its own and resets it.                      *)
Complete(q) ==
  /\ work[q] # << >> /\ vkState = "ok"
  /\ work' = [work EXCEPT ![q] = Tail(@)]
  /\ status' = IF Head(work[q]) = NoFence THEN status
               ELSE [status EXCEPT ![Head(work[q])] = "signaled"]
  /\ UNCHANGED <<pooled, pool, created, tracked, batch, timed, pc, vkState,
                 nullWait>>

Lose ==
  /\ vkState = "ok" /\ vkState' = "lost"
  /\ UNCHANGED <<pooled, pool, created, tracked, status, work, batch, timed,
                 pc, nullWait>>

CallerResets(f) ==
  /\ pc = "running" /\ status[f] = "signaled"
  /\ status' = [status EXCEPT ![f] = "unsignaled"]
  /\ UNCHANGED <<pooled, pool, created, tracked, work, batch, timed, pc,
                 vkState, nullWait>>

FenceNext ==
  \/ \E q \in Queues, f \in UserFences \cup {NoFence} : Dispatch(q, f)
  \/ \E q \in Queues : BeginBatch(q) \/ DispatchTimed(q) \/ Complete(q)
  \/ \E f \in UserFences \cup {NoFence} : EndBatch(f)
  \/ \E f \in UserFences : CallerResets(f)
  \/ DispatchTimedReturns \/ SyncAll \/ SyncAllReturns \/ Lose

FenceSpec == FenceInit /\ [][FenceNext]_fenceVars

(* The device works on, and a host thread whose wait is over goes on.      *)
FairFenceSpec ==
  /\ FenceSpec
  /\ \A q \in Queues : WF_fenceVars(Complete(q))
  /\ WF_fenceVars(DispatchTimedReturns) /\ WF_fenceVars(SyncAllReturns)

-----------------------------------------------------------------------------
Held(q) == {i \in DOMAIN tracked[q] : tracked[q][i] # NoFence}

(* Every fence of the scheduler is in one place: no submission path, not   *)
(* even one that fails, puts a fence into the pool a second time or leaves *)
(* it there while a queue or dispatchTimed still uses it.                  *)
FencesOnce ==
  /\ IsInjective(pool)
  /\ timed \notin ToSet(pool) \cup (AllTracked \ {NoFence})
  /\ \A q, r \in Queues : \A i \in Held(q), j \in Held(r) :
       /\ tracked[q][i] \notin ToSet(pool)
       /\ tracked[q][i] = tracked[r][j] => q = r /\ i = j

(* acquire resets the fence it returns, so no fence in the pool may still  *)
(* be signaled by the device: whoever releases one has waited for it.  The *)
(* exceptions are a lost device, and a null fence among those waited for.  *)
PoolIsIdle ==
  vkState = "ok" /\ ~nullWait => \A f \in ToSet(pool) : status[f] # "pending"

(* syncAll resets the command pools: what is then still running had been   *)
(* submitted with a fence of the caller or none, which it cannot wait for. *)
Returning == pc \in {"sync", "cleanup"} /\ pc' # pc

ResetFindsOthers ==
  [][(Returning /\ vkState = "ok" /\ ~nullWait') =>
       \A q \in Queues : ToSet(work[q]) \subseteq UserFences \cup {NoFence}]_fenceVars

(* syncAll, cleanup and dispatchTimed return: whatever failed before, the  *)
(* fences they wait for were submitted.                                    *)
WaitsReturn == pc \in {"timed", "sync", "cleanup"} ~> pc \in {"running", "gone"}
=============================================================================
