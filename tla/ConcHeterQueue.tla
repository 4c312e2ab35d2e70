--------------------------- MODULE ConcHeterQueue ---------------------------
(***************************************************************************)
(* conc_heter_queue (conc_heter_queue.h): heter_queue behind a std::mutex. *)
(*                                                                         *)
(* A plain transaction or operation keeps the mutex until it ends; any     *)
(* other function locks it while it runs, so it is one step, except those  *)
(* that lock twice.  Objects are used by any threads, each by one at a     *)
(* time, and iterators are not there.                                      *)
(***************************************************************************)
EXTENDS HeterQueue

CONSTANTS
    Nobody,         \* the owner of a mutex that is free
    Reuses          \* how objects are reused: "same_queue", "crossing", "assign"

ASSUME ConcHeterQueueAssumption ==
    /\ Nobody \notin Puts \cup Consumes
    /\ Puts \cap Consumes = {}
    /\ PlainPuts \cap ReentrantPuts = {} /\ PlainConsumes \cap ReentrantConsumes = {}
    /\ Reuses \subseteq {"same_queue", "crossing", "assign"}

VARIABLES
    mutex,      \* m_mutex of each queue: the object whose function owns it
    bound,      \* m_queue of each reentrant_consume_operation
    call        \* try_start_(reentrant_)consume(operation &) or operator= in progress

cvars == <<mem, put, op, iter, mutex, bound, call>>

Free(q) == mutex[q] = Nobody
Idle == [pc |-> "idle", queue |-> NoQueue, block |-> NoBlock]
IsIdle(o) == call[o].pc = "idle"
Goto(o, pc) == call' = [call EXCEPT ![o].pc = pc]

\* A function with a lock_guard is a step that finds the mutex free.
LocksSame == UNCHANGED <<mutex, bound, call>>

---------------------------------------------------------------------------
(* Plain puts *)

\* push, emplace and the dyn_ versions: start_ and commit.
ConcPut(q, n) == Free(q) /\ Put(q, n) /\ LocksSame

\* The transaction keeps the lock, unless the constructor throws.
\* Mutant: an exception leaves the mutex locked.
KeepLock(q, t) == mutex' = [mutex EXCEPT ![q] = t] /\ UNCHANGED <<bound, call>>
LockWith(q, t) ==
    /\ mutex' = IF put'[t].queue = q THEN [mutex EXCEPT ![q] = t] ELSE mutex
    /\ UNCHANGED <<bound, call>>
ConcStartEmplace(q, t, n) == Free(q) /\ StartEmplace(q, t, n) /\ LockWith(q, t)
ConcStartDynPush(q, t, n) == Free(q) /\ StartDynPush(q, t, n) /\ LockWith(q, t)

ConcRawAllocate(t, n) == RawAllocate(t, n) /\ LocksSame

Unlock(q) == mutex' = [mutex EXCEPT ![q] = Nobody] /\ UNCHANGED <<bound, call>>
ConcCommitPut(t) == CommitPut(t) /\ Unlock(put[t].queue)
ConcCancelPut(t) == CancelPut(t) /\ Unlock(put[t].queue)

\* The target is canceled and unlocks its queue; it takes the source's lock.
MoveLock(t, u) ==
    [q \in Queues |-> IF q = put[u].queue THEN t
                      ELSE IF q = put[t].queue THEN Nobody ELSE mutex[q]]
ConcMovePut(t, u) ==
    MovePut(t, u) /\ mutex' = MoveLock(t, u) /\ UNCHANGED <<bound, call>>

---------------------------------------------------------------------------
(* Reentrant puts *)

\* The constructor runs with the mutex locked.
ConcStartReentrantEmplace(q, t, n) == Free(q) /\ StartAndConstruct(q, t, n, Busy) /\ LocksSame
ConcStartReentrantDynPush(q, t, n) == ConcStartReentrantEmplace(q, t, n)
ConcReentrantPut(q, n) == Free(q) /\ ReentrantPut(q, n) /\ LocksSame
ConcReentrantRawAllocate(t, n) == Free(put[t].queue) /\ ReentrantRawAllocate(t, n) /\ LocksSame
ConcCommitReentrantPut(t) == Free(put[t].queue) /\ CommitReentrantPut(t) /\ LocksSame
ConcCancelReentrantPut(t) == Free(put[t].queue) /\ CancelReentrantPut(t) /\ LocksSame

\* No lock is taken, nor waited for, which is enough while the target is
\* empty; the transaction of a target in use is canceled without one.
MayAssign(inUse) == inUse => "assign" \in Reuses
ConcMoveReentrantPut(t, u) ==
    MayAssign(PutBound(t)) /\ MoveReentrantPut(t, u) /\ LocksSame

---------------------------------------------------------------------------
(* Plain consumes *)

ConcPop(q) == Free(q) /\ Pop(q) /\ LocksSame

\* try_start_consume(operation &): an operation in progress is canceled
\* first, which unlocks its queue, and then waits for the other.
ConcTryStartConsume(q, o) ==
    /\ IsIdle(o)
    /\ call' = [call EXCEPT ![o] = [Idle EXCEPT !.pc = "lock", !.queue = q]]
    /\ \/ ~OpBound(o) /\ UNCHANGED <<mem, put, op, iter, mutex>>
       \/ CancelConsume(o) /\ mutex' = [mutex EXCEPT ![op[o].queue] = Nobody]
    /\ UNCHANGED bound

LockAndTake(o) ==
    /\ call[o].pc = "lock"
    /\ LET q == call[o].queue
       IN /\ Free(q) /\ TryStartConsume(q, o)
          /\ mutex' = IF op'[o] = NoOp THEN mutex ELSE [mutex EXCEPT ![q] = o]
    /\ call' = [call EXCEPT ![o] = Idle]
    /\ UNCHANGED bound

ConcCommitConsume(o) == IsIdle(o) /\ CommitConsume(o) /\ Unlock(op[o].queue)
ConcCancelConsume(o) == IsIdle(o) /\ CancelConsume(o) /\ Unlock(op[o].queue)

\* The move constructor, and the assignment to an operation that is empty:
\* the lock of the source follows it.
ConcMoveConsume(o, u) ==
    /\ IsIdle(o) /\ IsIdle(u) /\ ~OpBound(o)
    /\ MoveConsume(o, u)
    /\ mutex' = [mutex EXCEPT ![op[u].queue] = o]
    /\ UNCHANGED <<bound, call>>

\* The assignment to an operation in progress: m_lock = std::move(...) unlocks
\* its queue and takes the lock of the source,
AssignLock(o, u) ==
    /\ MayAssign(TRUE) /\ o # u
    /\ IsIdle(o) /\ IsIdle(u) /\ OpBound(o) /\ OpBound(u)
    /\ mutex' = [mutex EXCEPT ![op[o].queue] = Nobody, ![op[u].queue] = o]
    /\ call' = [call EXCEPT ![o] = [Idle EXCEPT !.pc = "assign", !.queue = op[u].queue],
                            ![u] = [Idle EXCEPT !.pc = "assigned"]]
    /\ UNCHANGED <<mem, put, op, iter, bound>>

\* then its element is committed, in a queue that others may have locked.
AssignOperation(o, u) ==
    /\ call[o].pc = "assign" /\ call[u].pc = "assigned" /\ op[u].queue = call[o].queue
    /\ MoveConsume(o, u)
    /\ call' = [call EXCEPT ![o] = Idle, ![u] = Idle]
    /\ UNCHANGED <<mutex, bound>>

---------------------------------------------------------------------------
(* Reentrant consumes *)

\* try_start_reentrant_consume(): a new operation.
ConcNewReentrantConsume(q, o) ==
    /\ IsIdle(o) /\ bound[o] = NoQueue
    /\ Free(q) /\ TryStartReentrantConsume(q, o)
    /\ bound' = [bound EXCEPT ![o] = q]
    /\ UNCHANGED <<mutex, call>>

\* start_consume_impl: m_queue is not reset when the operation ends.
\* "same_queue": users reuse an operation on its queue; "crossing": more than
\* one at a time goes from a queue to another.
MayReuse(q, o) ==
    \/ bound[o] = NoQueue
    \/ bound[o] = q /\ "same_queue" \in Reuses
    \/ bound[o] # q /\ \/ "crossing" \in Reuses
                       \/ \A u \in ReentrantConsumes : IsIdle(u)
ConcTryStartReentrantConsume(q, o) ==
    /\ IsIdle(o) /\ MayReuse(q, o)
    /\ call' = [call EXCEPT ![o] =
         [Idle EXCEPT !.queue = q, !.pc = IF bound[o] = NoQueue THEN "lock_new" ELSE "lock_old"]]
    /\ UNCHANGED <<mem, put, op, iter, mutex, bound>>

LockOld(o) ==
    /\ call[o].pc = "lock_old" /\ Free(bound[o])
    /\ mutex' = [mutex EXCEPT ![bound[o]] = o]
    /\ Goto(o, IF bound[o] = call[o].queue THEN "switch" ELSE "lock_new")
    /\ UNCHANGED <<mem, put, op, iter, bound>>

LockNew(o) ==
    /\ call[o].pc = "lock_new" /\ Free(call[o].queue)
    /\ mutex' = [mutex EXCEPT ![call[o].queue] = o]
    /\ Goto(o, "switch")
    /\ UNCHANGED <<mem, put, op, iter, bound>>

\* The element is given back; lock = std::move(new_lock) unlocks the old
\* queue, and new_lock is empty when it is the same.
\* Mutant: it is not given back.
SwitchOnly(o) ==
    /\ call[o].pc = "switch"
    /\ UNCHANGED <<mem, put, op, iter>>
    /\ mutex' = [q \in Queues |-> IF q = bound[o] THEN Nobody ELSE mutex[q]]
    /\ bound' = [bound EXCEPT ![o] = call[o].queue]
    /\ Goto(o, "find")
Switch(o) ==
    /\ call[o].pc = "switch"
    /\ IF OpBound(o) THEN CancelReentrantConsume(o) ELSE UNCHANGED <<mem, put, op, iter>>
    /\ mutex' = [q \in Queues |-> IF q = bound[o] THEN Nobody ELSE mutex[q]]
    /\ bound' = [bound EXCEPT ![o] = call[o].queue]
    /\ Goto(o, "find")

\* try_start_reentrant_consume looks for a block, and marks it.  Where the
\* lock is held no other step can come between.
Find(o) ==
    /\ call[o].pc = "find"
    /\ call' = [call EXCEPT ![o].pc = "mark", ![o].block = FirstReady(mem, call[o].queue)]
    /\ UNCHANGED <<mem, put, op, iter, mutex, bound>>

Mark(o) ==
    /\ call[o].pc = "mark"
    /\ LET b == call[o].block
       IN /\ mem' = IF b = NoBlock THEN mem ELSE Take(mem, b)
          /\ op' = [op EXCEPT ![o] = IF b = NoBlock THEN NoOp
                                     ELSE [queue |-> call[o].queue, block |-> b]]
    /\ mutex' = [q \in Queues |-> IF mutex[q] = o THEN Nobody ELSE mutex[q]]
    /\ call' = [call EXCEPT ![o] = Idle]
    /\ UNCHANGED <<put, iter, bound>>

ConcCommitReentrantConsume(o) == IsIdle(o) /\ Free(op[o].queue) /\ CommitReentrantConsume(o) /\ LocksSame
ConcCancelReentrantConsume(o) == IsIdle(o) /\ Free(op[o].queue) /\ CancelReentrantConsume(o) /\ LocksSame

\* The move constructor and the assignment: m_queue is copied.  The element of
\* a target in use is committed without the lock.
ConcMoveReentrantConsume(o, u) ==
    /\ IsIdle(o) /\ IsIdle(u) /\ MayAssign(OpBound(o))
    /\ MoveReentrantConsume(o, u)
    /\ bound' = [bound EXCEPT ![o] = bound[u]]
    /\ UNCHANGED <<mutex, call>>

ConcReentrantPop(q) == Free(q) /\ ReentrantPop(q) /\ LocksSame

---------------------------------------------------------------------------
(* Whole queues *)

ConcClear(q) == Free(q) /\ ClearQueue(q) /\ LocksSame

\* Lifetime functions are not concurrent with any other, and an operation
\* keeps referring to the queue it was bound to.
Unreferenced(q) ==
    /\ Free(q) /\ Unused(q)
    /\ \A o \in Consumes : call[o].queue # q
    /\ \A o \in ReentrantConsumes : bound[o] # q

ConcDestroy(q) == Unreferenced(q) /\ DestroyQueue(q) /\ LocksSame
ConcMove(q, r) == Unreferenced(q) /\ Unreferenced(r) /\ MoveQueue(q, r) /\ LocksSame
ConcSwap(q, r) == Unreferenced(q) /\ Unreferenced(r) /\ SwapQueues(q, r) /\ LocksSame

---------------------------------------------------------------------------

ConcInit ==
    /\ Init
    /\ mutex = [q \in Queues |-> Nobody]
    /\ bound = [o \in ReentrantConsumes |-> NoQueue]
    /\ call = [o \in Consumes |-> Idle]

ConcPutNext ==
    \/ \E q \in Queues, n \in Sizes :
         \/ ConcPut(q, n) \/ ConcReentrantPut(q, n)
         \/ \E t \in PlainPuts : ConcStartEmplace(q, t, n) \/ ConcStartDynPush(q, t, n)
         \/ \E t \in ReentrantPuts : \/ ConcStartReentrantEmplace(q, t, n)
                                     \/ ConcStartReentrantDynPush(q, t, n)
    \/ \E t \in PlainPuts : \/ \E n \in RawSizes : ConcRawAllocate(t, n)
                            \/ ConcCommitPut(t)
                            \/ ConcCancelPut(t)
                            \/ \E u \in PlainPuts : ConcMovePut(t, u)
    \/ \E t \in ReentrantPuts : PutBound(t) /\
                                \/ \E n \in RawSizes : ConcReentrantRawAllocate(t, n)
                                \/ ConcCommitReentrantPut(t)
                                \/ ConcCancelReentrantPut(t)
    \/ \E t, u \in ReentrantPuts : ConcMoveReentrantPut(t, u)

ConcConsumeNext ==
    \/ \E q \in Queues : ConcPop(q) \/ ConcReentrantPop(q)
    \/ \E o \in PlainConsumes : \/ \E q \in Queues : ConcTryStartConsume(q, o)
                                \/ LockAndTake(o)
                                \/ ConcCommitConsume(o)
                                \/ ConcCancelConsume(o)
                                \/ \E u \in PlainConsumes : \/ ConcMoveConsume(o, u)
                                                           \/ AssignLock(o, u)
                                                           \/ AssignOperation(o, u)

ConcReentrantConsumeNext == \E o \in ReentrantConsumes :
    \/ \E q \in Queues : \/ ConcNewReentrantConsume(q, o)
                         \/ ConcTryStartReentrantConsume(q, o)
    \/ LockOld(o) \/ LockNew(o) \/ Switch(o) \/ Find(o) \/ Mark(o)
    \/ OpBound(o) /\ (ConcCommitReentrantConsume(o) \/ ConcCancelReentrantConsume(o))
    \/ \E u \in ReentrantConsumes : ConcMoveReentrantConsume(o, u)

ConcQueueNext ==
    \/ \E q \in Queues : ConcClear(q) \/ ConcDestroy(q)
    \/ \E q, r \in Queues : ConcMove(q, r) \/ ConcSwap(q, r)

ConcNext == ConcPutNext \/ ConcConsumeNext \/ ConcReentrantConsumeNext \/ ConcQueueNext

ConcSpec == ConcInit /\ [][ConcNext]_cvars

---------------------------------------------------------------------------
(* Properties *)

\* The queue whose mutex a plain object must own: the one it is in progress
\* on.  In the middle of an assignment to an operation in progress that is the
\* queue of the source only: the target has unlocked its own too early.
Engaged(x, q) ==
    \/ x \in PlainPuts /\ put[x].queue = q
    \/ x \in PlainConsumes /\ \/ call[x].pc = "assign" /\ call[x].queue = q
                              \/ /\ call[x].pc \notin {"assign", "assigned"}
                                 /\ OpBound(x) /\ op[x].queue = q

\* Whoever uses a heter_queue keeps its contract: while a plain transaction or
\* operation is in progress it is the one that owns the mutex, wherever it was
\* moved, but for an operation that is being assigned to while in progress
\* (conc_heter_queue.h:572); and a mutex is owned by nothing that has ended.
LockHeld == \A q \in Queues :
    /\ \A x \in PlainPuts \cup PlainConsumes : Engaged(x, q) => mutex[q] = x
    /\ mutex[q] \in PlainPuts \cup PlainConsumes => Engaged(mutex[q], q)
    /\ mutex[q] \in ReentrantConsumes => ~IsIdle(mutex[q])

\* No two operations wait each for the queue the other has locked.
Waits(o) ==
    CASE call[o].pc = "lock_old" -> {bound[o]}
      [] call[o].pc = "lock_new" -> {call[o].queue}
      [] OTHER -> {}
NoCrossedLocks == \A o, u \in ReentrantConsumes :
    ~(/\ \E q \in Waits(o) : mutex[q] = u
      /\ \E q \in Waits(u) : mutex[q] = o)

\* Concurrent consumes never take the same element (conc_heter_queue.h:23:
\* puts and consumes can be executed concurrently).
TakenOnce == \A o, u \in Consumes :
    OpBound(o) /\ OpBound(u) /\ o # u => op[o].block # op[u].block

===========================================================================
