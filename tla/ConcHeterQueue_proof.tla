------------------------ MODULE ConcHeterQueue_proof ------------------------
(***************************************************************************)
(* What is proved of conc_heter_queue: the mutex of a queue belongs to the *)
(* plain transaction or operation in progress on it, however objects are   *)
(* reused and moved, but for an operation assigned to while in progress.   *)
(***************************************************************************)
EXTENDS ConcHeterQueue, TLAPS

Plain == PlainPuts \cup PlainConsumes

\* A plain object has the mutex of the queue it is in progress on and no other.
PlainHold == \A x \in Plain, q \in Queues :
    /\ Engaged(x, q) => mutex[q] = x
    /\ mutex[q] = x => Engaged(x, q)

\* A reentrant operation has one only inside a call.
ReentrantHold == \A q \in Queues : mutex[q] \in ReentrantConsumes => ~IsIdle(mutex[q])

\* Before it takes the second mutex, and until it switches, it has the first.
FirstHeld == \A o \in ReentrantConsumes :
    call[o].pc \in {"lock_new", "switch"} /\ bound[o] \in Queues => mutex[bound[o]] = o

\* A call that waits for the mutex has given back what it had.
GivenBack == \A o \in PlainConsumes : call[o].pc = "lock" => ~OpBound(o)

\* The variables are functions, and calls have a pc.
Shape ==
    /\ put = [t \in Puts |-> put[t]]
    /\ op = [o \in Consumes |-> op[o]]
    /\ mutex \in [Queues -> Plain \cup ReentrantConsumes \cup {Nobody}]
    /\ bound = [o \in ReentrantConsumes |-> bound[o]]
    /\ call = [o \in Consumes |-> call[o]]
    /\ \A o \in Consumes : {"pc", "queue", "block"} \subseteq DOMAIN call[o]

Inv == Shape /\ PlainHold /\ ReentrantHold /\ FirstHeld /\ GivenBack

---------------------------------------------------------------------------

\* The kinds of objects are apart, and none of them is Nobody.
LEMMA Kinds ==
    /\ PlainPuts \cap PlainConsumes = {}
    /\ Plain \cap ReentrantConsumes = {} /\ Plain \cap ReentrantPuts = {}
    /\ Nobody \notin Plain \cup ReentrantConsumes
    /\ NoQueue \notin Queues
  BY ConcHeterQueueAssumption, HeterQueueAssumption DEF Plain, Puts, Consumes

\* A function with a new value for an argument, or for two.
LEMMA Updated ==
    ASSUME NEW S, NEW f, f = [x \in S |-> f[x]], NEW g, NEW a, NEW b, NEW v, NEW w,
           g = [f EXCEPT ![a] = v, ![b] = w]
    PROVE  /\ g = [x \in S |-> g[x]]
           /\ \A x \in S : g[x] = IF x = b THEN w ELSE IF x = a THEN v ELSE f[x]
  OBVIOUS
LEMMA UpdatedOnce ==
    ASSUME NEW S, NEW f, f = [x \in S |-> f[x]], NEW g, NEW a, NEW v,
           g = [f EXCEPT ![a] = v]
    PROVE  /\ g = [x \in S |-> g[x]]
           /\ \A x \in S : g[x] = IF x = a THEN v ELSE f[x]
  OBVIOUS

\* What the mutex and the calls stay, a step that leaves the plain objects on
\* their queues keeps.
LEMMA SameEngaged ==
    ASSUME Inv, UNCHANGED <<mutex, bound, call>>,
           put' = [t \in Puts |-> put'[t]], op' = [o \in Consumes |-> op'[o]],
           \A t \in PlainPuts : put'[t].queue = put[t].queue,
           \A o \in PlainConsumes : op'[o] = op[o]
    PROVE  Inv'
  <1>1. Shape'
    BY DEF Inv, Shape
  <1>2. PlainHold'
    BY DEF Inv, PlainHold, Engaged, OpBound
  <1>3. ReentrantHold' /\ FirstHeld'
    BY DEF Inv, ReentrantHold, FirstHeld, IsIdle
  <1>4. GivenBack'
    BY DEF Inv, GivenBack, IsIdle, OpBound
  <1> QED
    BY <1>1, <1>2, <1>3, <1>4 DEF Inv

\* A transaction is bound to a queue that is free, with a block, or is not.
LEMMA StartPutSteps ==
    ASSUME Inv, NEW q \in Queues, NEW n, NEW t \in PlainPuts,
           ConcStartEmplace(q, t, n) \/ ConcStartDynPush(q, t, n)
    PROVE  Inv'
  <1>1. /\ Free(q) /\ ~PutBound(t) /\ UNCHANGED <<op, iter, bound, call>>
        /\ mutex' = IF put'[t].queue = q THEN [mutex EXCEPT ![q] = t] ELSE mutex
        /\ UNCHANGED put \/ \E b : Bind(t, q, b, TRUE)
    BY DEF ConcStartEmplace, ConcStartDynPush, StartDynPush, StartEmplace, StartAndConstruct, LockWith
  <1>2. CASE UNCHANGED put
    <2>1. UNCHANGED mutex
      BY <1>1, <1>2, Kinds DEF PutBound
    <2> QED
      BY <1>1, <1>2, <2>1, SameEngaged DEF Inv, Shape
  <1>3. CASE \E b : Bind(t, q, b, TRUE)
    <2>1. /\ put' = [u \in Puts |-> put'[u]] /\ put'[t].queue = q
          /\ \A u \in Puts \ {t} : put'[u] = put[u]
      <3>1. PICK b : put' = [put EXCEPT ![t] = [queue |-> q, block |-> b, built |-> TRUE]]
        BY <1>3 DEF Bind
      <3> QED
        BY <3>1, UpdatedOnce DEF Inv, Shape, Puts
    <2>2. mutex[q] = Nobody /\ mutex' = [mutex EXCEPT ![q] = t]
      BY <1>1, <2>1 DEF Free
    <2>3. Shape'
      BY <1>1, <2>1, <2>2 DEF Inv, Shape, Plain
    <2>4. PlainHold'
      <3>1. \A r \in Queues : mutex'[r] = IF r = q THEN t ELSE mutex[r]
        BY <2>2 DEF Inv, Shape
      <3>2. \A r \in Queues : ~Engaged(t, r)
        BY <1>1, Kinds DEF Engaged, PutBound
      <3>3. \A r \in Queues : Engaged(t, r)' <=> r = q
        BY <2>1, Kinds DEF Engaged
      <3>4. \A x \in Plain \ {t}, r \in Queues : Engaged(x, r)' <=> Engaged(x, r)
        BY <1>1, <2>1 DEF Engaged, Puts, OpBound
      <3> QED
        BY <2>2, <3>1, <3>2, <3>3, <3>4, Kinds DEF Inv, PlainHold, Plain
    <2>5. ReentrantHold' /\ FirstHeld'
      BY <1>1, <2>2, Kinds DEF Inv, Shape, Plain, ReentrantHold, FirstHeld, IsIdle
    <2> QED
      BY <1>1, <2>3, <2>4, <2>5 DEF Inv, GivenBack, IsIdle, OpBound
  <1> QED
    BY <1>1, <1>2, <1>3

\* A transaction ends and the queue it was bound to is free.
LEMMA EndPutSteps ==
    ASSUME Inv, NEW t \in PlainPuts, ConcCommitPut(t) \/ ConcCancelPut(t)
    PROVE  Inv'
  <1>1. /\ put' = [put EXCEPT ![t] = NoPut] /\ UNCHANGED <<op, bound, call>>
        /\ mutex' = [mutex EXCEPT ![put[t].queue] = Nobody]
        /\ PutBound(t)
    BY DEF ConcCommitPut, ConcCancelPut, CommitPut, CancelPut, Unlock
  <1>2. /\ put' = [u \in Puts |-> put'[u]] /\ put'[t].queue = NoQueue
        /\ \A u \in Puts \ {t} : put'[u] = put[u]
    BY <1>1 DEF NoPut, Inv, Shape, Puts
  <1>3. \A q \in Queues : mutex'[q] = IF mutex[q] = t THEN Nobody ELSE mutex[q]
    BY <1>1, Kinds DEF Inv, Shape, PlainHold, Engaged, Plain
  <1>4. Shape'
    BY <1>1, <1>2 DEF Inv, Shape
  <1>5. PlainHold'
    <2>1. \A r \in Queues : ~Engaged(t, r)'
      BY <1>2, Kinds DEF Engaged
    <2>2. \A x \in Plain \ {t}, r \in Queues : Engaged(x, r)' <=> Engaged(x, r)
      BY <1>1, <1>2 DEF Engaged, Puts, OpBound
    <2> QED
      BY <1>3, <2>1, <2>2, Kinds DEF Inv, PlainHold, Plain
  <1>6. ReentrantHold' /\ FirstHeld'
    <2>1. ReentrantHold'
      BY <1>1, <1>3, Kinds DEF Inv, ReentrantHold, IsIdle
    <2>2. FirstHeld'
      BY <1>1, <1>3, Kinds DEF Inv, Plain, FirstHeld
    <2> QED
      BY <2>1, <2>2
  <1> QED
    BY <1>1, <1>4, <1>5, <1>6 DEF Inv, GivenBack, IsIdle, OpBound

\* The lock of a transaction follows it to the one it is moved to.
LEMMA MovePutStep ==
    ASSUME Inv, NEW t \in PlainPuts, NEW u \in PlainPuts, ConcMovePut(t, u)
    PROVE  Inv'
  <1>1. /\ put' = [put EXCEPT ![t] = put[u], ![u] = NoPut] /\ UNCHANGED <<op, bound, call>>
        /\ mutex' = MoveLock(t, u) /\ t # u /\ PutBound(u)
    BY DEF ConcMovePut, MovePut
  <1>2. /\ put' = [v \in Puts |-> put'[v]] /\ put'[u].queue = NoQueue
        /\ put'[t] = put[u]
        /\ \A v \in Puts \ {t, u} : put'[v] = put[v]
    BY <1>1 DEF NoPut, Inv, Shape, Puts
  <1>3. \A q \in Queues : mutex'[q] = IF mutex[q] = u THEN t
                                      ELSE IF mutex[q] = t THEN Nobody ELSE mutex[q]
    BY <1>1, Kinds DEF MoveLock, Inv, Shape, PlainHold, Engaged, Plain, PutBound
  <1>4. Shape'
    BY <1>1, <1>2 DEF Inv, Shape, MoveLock, Plain
  <1>5. PlainHold'
    <2>1. \A r \in Queues : ~Engaged(u, r)'
      BY <1>2, Kinds DEF Engaged
    <2>2. \A r \in Queues : Engaged(t, r)' <=> Engaged(u, r)
      BY <1>2, Kinds DEF Engaged
    <2>3. \A x \in Plain \ {t, u}, r \in Queues : Engaged(x, r)' <=> Engaged(x, r)
      BY <1>1, <1>2 DEF Engaged, Puts, OpBound
    <2> QED
      BY <1>1, <1>3, <2>1, <2>2, <2>3, Kinds DEF Inv, PlainHold, Plain
  <1>6. ReentrantHold' /\ FirstHeld'
    BY <1>1, <1>3, Kinds DEF Inv, Shape, Plain, ReentrantHold, FirstHeld, IsIdle
  <1> QED
    BY <1>1, <1>4, <1>5, <1>6 DEF Inv, GivenBack, IsIdle, OpBound

\* The other steps of transactions: a function that locks while it runs, or
\* one of a reentrant transaction.
LEMMA OtherPutSteps ==
    ASSUME Inv,
           \/ \E q \in Queues, n \in Sizes :
                \/ ConcPut(q, n) \/ ConcReentrantPut(q, n)
                \/ \E t \in ReentrantPuts : \/ ConcStartReentrantEmplace(q, t, n)
                                            \/ ConcStartReentrantDynPush(q, t, n)
           \/ \E t \in PlainPuts, n \in RawSizes : ConcRawAllocate(t, n)
           \/ \E t \in ReentrantPuts : \/ \E n \in RawSizes : ConcReentrantRawAllocate(t, n)
                                       \/ ConcCommitReentrantPut(t)
                                       \/ ConcCancelReentrantPut(t)
           \/ \E t, u \in ReentrantPuts : ConcMoveReentrantPut(t, u)
    PROVE  Inv'
  <1>1. UNCHANGED <<op, mutex, bound, call>>
    BY DEF ConcPut, ConcReentrantPut, ReentrantPut, Put, ConcStartReentrantEmplace, ConcStartReentrantDynPush,
           StartAndConstruct, ConcRawAllocate, RawAllocate, ConcReentrantRawAllocate, ReentrantRawAllocate,
           ConcCommitReentrantPut, CommitReentrantPut, ConcCancelReentrantPut, CancelReentrantPut,
           ConcMoveReentrantPut, MoveReentrantPut, MovePut, LocksSame
  <1>2. \/ UNCHANGED put
        \/ \E t \in ReentrantPuts : \E r : put' = [put EXCEPT ![t] = r]
        \/ \E t, u \in ReentrantPuts : put' = [put EXCEPT ![t] = put[u], ![u] = NoPut]
    <2>1. CASE \E t \in ReentrantPuts : \/ \E n \in RawSizes : ConcReentrantRawAllocate(t, n)
                                        \/ ConcCommitReentrantPut(t)
                                        \/ ConcCancelReentrantPut(t)
      BY <2>1 DEF ConcReentrantRawAllocate, ReentrantRawAllocate,
           ConcCommitReentrantPut, CommitReentrantPut, ConcCancelReentrantPut, CancelReentrantPut
    <2>2. CASE \E t, u \in ReentrantPuts : ConcMoveReentrantPut(t, u)
      BY <2>2 DEF ConcMoveReentrantPut, MoveReentrantPut, MovePut
    <2>3. CASE \E q \in Queues, n \in Sizes, t \in ReentrantPuts :
                   ConcStartReentrantEmplace(q, t, n) \/ ConcStartReentrantDynPush(q, t, n)
      BY <2>3 DEF ConcStartReentrantEmplace, ConcStartReentrantDynPush, StartAndConstruct, Bind
    <2>4. CASE \/ \E q \in Queues, n \in Sizes : ConcPut(q, n) \/ ConcReentrantPut(q, n)
               \/ \E t \in PlainPuts, n \in RawSizes : ConcRawAllocate(t, n)
      BY <2>4 DEF ConcPut, ConcReentrantPut, ReentrantPut, Put, ConcRawAllocate, RawAllocate
    <2> QED
      BY <2>1, <2>2, <2>3, <2>4
  <1>3. put' = [t \in Puts |-> put'[t]] /\ \A t \in PlainPuts : put'[t] = put[t]
    BY <1>2, Kinds DEF Inv, Shape, Plain, Puts
  <1> QED
    BY <1>1, <1>3, SameEngaged DEF Inv, Shape

---------------------------------------------------------------------------

\* A step of one or two operations that are not reentrant: each has the
\* mutexes of the queue it is in progress on, and the others do not change.
Settles(o, u) ==
    /\ UNCHANGED <<put, bound>>
    /\ mutex' \in [Queues -> Plain \cup ReentrantConsumes \cup {Nobody}]
    /\ op' = [c \in Consumes |-> op'[c]] /\ call' = [c \in Consumes |-> call'[c]]
    /\ \A c \in Consumes \ {o, u} : op'[c] = op[c] /\ call'[c] = call[c]
    /\ \A c \in {o, u} : /\ {"pc", "queue", "block"} \subseteq DOMAIN call'[c]
                         /\ call'[c].pc = "lock" => ~OpBound(c)'
                         /\ \A q \in Queues : Engaged(c, q)' <=> mutex'[q] = c
    /\ \A q \in Queues : \A x \in (Plain \cup ReentrantConsumes) \ {o, u} :
          mutex'[q] = x <=> mutex[q] = x

\* Such a step keeps the invariant.
LEMMA OpSteps ==
    ASSUME Inv, NEW o \in PlainConsumes, NEW u \in PlainConsumes, Settles(o, u)
    PROVE  Inv'
  <1>1. Shape'
    BY DEF Settles, Inv, Shape
  <1>2. PlainHold'
    <2>1. \A r \in Queues, c \in {o, u} : Engaged(c, r)' <=> mutex'[r] = c
      BY DEF Settles
    <2>2. \A x \in Plain \ {o, u}, r \in Queues : Engaged(x, r)' <=> Engaged(x, r)
      BY DEF Settles, Engaged, OpBound, Consumes
    <2> QED
      BY <2>1, <2>2 DEF Settles, Inv, PlainHold, Plain
  <1>3. ReentrantHold'
    BY Kinds DEF Settles, Inv, ReentrantHold, IsIdle, Plain, Consumes
  <1>4. FirstHeld'
    BY Kinds DEF Settles, Inv, FirstHeld, Plain, Consumes
  <1>5. GivenBack'
    BY DEF Settles, Inv, GivenBack, IsIdle, OpBound, Consumes
  <1> QED
    BY <1>1, <1>2, <1>3, <1>4, <1>5 DEF Inv

\* The mutexes of an operation that is not reentrant, and of the others.
LEMMA OwnMutex ==
    ASSUME Inv, NEW o \in PlainConsumes, call[o].pc \notin {"assign", "assigned"}
    PROVE  \A q \in Queues : mutex[q] = o <=> OpBound(o) /\ op[o].queue = q
  BY Kinds DEF Inv, PlainHold, Engaged, Plain

\* The queue it is engaged on after a step that leaves it in no assignment.
LEMMA EngagedNow ==
    ASSUME NEW o \in PlainConsumes, call'[o].pc \notin {"assign", "assigned"}
    PROVE  \A q \in Queues : Engaged(o, q)' <=> (OpBound(o) /\ op[o].queue = q)'
  BY Kinds DEF Engaged, Plain

\* The operation ends and the queue is free, or gives back what it has to
\* wait for another queue.
LEMMA EndConsumeSteps ==
    ASSUME Inv, NEW o \in PlainConsumes,
           \/ ConcCommitConsume(o) \/ ConcCancelConsume(o)
           \/ \E q \in Queues : ConcTryStartConsume(q, o)
    PROVE  Inv'
  <1>1. /\ UNCHANGED <<put, bound>> /\ call[o].pc = "idle"
        /\ \/ OpBound(o) /\ op' = [op EXCEPT ![o] = NoOp] /\ mutex' = [mutex EXCEPT ![op[o].queue] = Nobody]
           \/ ~OpBound(o) /\ UNCHANGED <<op, mutex>>
        /\ UNCHANGED call \/ \E q : call' = [call EXCEPT ![o] = [Idle EXCEPT !.pc = "lock", !.queue = q]]
    BY DEF ConcCommitConsume, ConcCancelConsume, ConcTryStartConsume, CommitConsume, CancelConsume, Unlock, IsIdle
  <1>2. o \in Consumes
    BY DEF Consumes
  <1>3. op' = [c \in Consumes |-> op'[c]] /\ \A c \in Consumes \ {o} : op'[c] = op[c]
    <2>1. CASE UNCHANGED op
      BY <2>1 DEF Inv, Shape
    <2>2. CASE op' = [op EXCEPT ![o] = NoOp]
      BY <2>2, UpdatedOnce DEF Inv, Shape
    <2> QED
      BY <1>1, <2>1, <2>2
  <1>4. ~OpBound(o)'
    <2>1. CASE OpBound(o)
      <3>1. op'[o] = NoOp
        BY <1>1, <1>2, <2>1 DEF Inv, Shape
      <3> QED
        BY <3>1 DEF OpBound, NoOp
    <2>2. CASE ~OpBound(o)
      BY <1>1, <2>2 DEF OpBound
    <2> QED
      BY <2>1, <2>2
  <1>5. /\ call' = [c \in Consumes |-> call'[c]] /\ \A c \in Consumes \ {o} : call'[c] = call[c]
        /\ {"pc", "queue", "block"} \subseteq DOMAIN call'[o]
        /\ call'[o].pc \in {"idle", "lock"}
    <2>1. CASE UNCHANGED call
      BY <1>1, <1>2, <2>1 DEF Inv, Shape
    <2>2. CASE \E q : call' = [call EXCEPT ![o] = [Idle EXCEPT !.pc = "lock", !.queue = q]]
      <3>1. PICK q : call' = [call EXCEPT ![o] = [Idle EXCEPT !.pc = "lock", !.queue = q]]
        BY <2>2
      <3> DEFINE r == [Idle EXCEPT !.pc = "lock", !.queue = q]
      <3>2. {"pc", "queue", "block"} \subseteq DOMAIN r /\ r.pc = "lock"
        BY DEF Idle
      <3>3. call' = [call EXCEPT ![o] = r]
        BY <3>1
      <3> HIDE DEF r
      <3> QED
        BY <1>2, <3>2, <3>3, UpdatedOnce DEF Inv, Shape
    <2> QED
      BY <1>1, <2>1, <2>2
  <1>6. \A q \in Queues : mutex'[q] = IF mutex[q] = o THEN Nobody ELSE mutex[q]
    <2>1. \A q \in Queues : mutex[q] = o <=> OpBound(o) /\ op[o].queue = q
      BY <1>1, OwnMutex
    <2> QED
      BY <1>1, <2>1 DEF Inv, Shape
  <1>7. mutex' \in [Queues -> Plain \cup ReentrantConsumes \cup {Nobody}]
    BY <1>1 DEF Inv, Shape
  <1>8. \A q \in Queues : mutex'[q] # o /\ ~Engaged(o, q)'
    BY <1>4, <1>5, <1>6, EngagedNow, Kinds DEF Plain
  <1>9. \A q \in Queues : \A x \in (Plain \cup ReentrantConsumes) \ {o} : mutex'[q] = x <=> mutex[q] = x
    BY <1>6, Kinds
  <1> QED
    <2>1. Settles(o, o)
      BY <1>1, <1>3, <1>4, <1>5, <1>7, <1>8, <1>9 DEF Settles
    <2> QED
      BY <2>1, OpSteps

\* The operation, which has no element, gets the mutex and takes one: if
\* there is none it lets go.
LEMMA LockAndTakeStep ==
    ASSUME Inv, NEW o \in PlainConsumes, LockAndTake(o)
    PROVE  Inv'
  <1> DEFINE q == call[o].queue
             b == FirstReady(mem, q)
             r == IF b = NoBlock THEN NoOp ELSE [queue |-> q, block |-> b]
  <1>1. o \in Consumes
    BY DEF Consumes
  <1>2. ~OpBound(o)
    BY DEF LockAndTake, Inv, GivenBack
  <1>3. /\ UNCHANGED <<put, bound>> /\ mutex[q] = Nobody
        /\ op' = [op EXCEPT ![o] = r]
        /\ mutex' = IF op'[o] = NoOp THEN mutex ELSE [mutex EXCEPT ![q] = o]
        /\ call' = [call EXCEPT ![o] = Idle]
    BY <1>2 DEF LockAndTake, TryStartConsume, TakeFirst, Free
  <1>4. r.block = b /\ (b # NoBlock => r.queue = q /\ r # NoOp) /\ (b = NoBlock => r = NoOp)
    BY DEF NoOp
  <1> HIDE DEF b, r
  <1>5. op' = [c \in Consumes |-> op'[c]] /\ op'[o] = r /\ \A c \in Consumes \ {o} : op'[c] = op[c]
    BY <1>1, <1>3, UpdatedOnce DEF Inv, Shape
  <1>6. {"pc", "queue", "block"} \subseteq DOMAIN Idle /\ Idle.pc = "idle"
    BY DEF Idle
  <1>7. /\ call' = [c \in Consumes |-> call'[c]] /\ call'[o] = Idle
        /\ \A c \in Consumes \ {o} : call'[c] = call[c]
    BY <1>1, <1>3, UpdatedOnce DEF Inv, Shape
  <1>8. \A s \in Queues : mutex[s] # o
    BY <1>2, OwnMutex DEF LockAndTake
  <1>9. mutex' \in [Queues -> Plain \cup ReentrantConsumes \cup {Nobody}]
    BY <1>3 DEF Inv, Shape, Plain
  <1>10. \A s \in Queues : mutex'[s] = IF b # NoBlock /\ s = q THEN o ELSE mutex[s]
    BY <1>3, <1>4, <1>5 DEF Inv, Shape
  <1>11. \A s \in Queues : Engaged(o, s)' <=> mutex'[s] = o
    <2>1. \A s \in Queues : (OpBound(o) /\ op[o].queue = s)' <=> mutex'[s] = o
      BY <1>4, <1>5, <1>8, <1>10 DEF OpBound
    <2> QED
      BY <1>6, <1>7, <2>1, EngagedNow
  <1>12. \A s \in Queues : \A x \in (Plain \cup ReentrantConsumes) \ {o} : mutex'[s] = x <=> mutex[s] = x
    BY <1>3, <1>10, Kinds
  <1>13. call'[o].pc # "lock"
    BY <1>6, <1>7
  <1>14. {"pc", "queue", "block"} \subseteq DOMAIN call'[o]
    BY <1>6, <1>7
  <1> HIDE DEF q
  <1> QED
    <2>1. Settles(o, o)
      BY <1>3, <1>5, <1>7, <1>9, <1>11, <1>12, <1>13, <1>14 DEF Settles
    <2> QED
      BY <2>1, OpSteps

\* The lock of an operation follows it to the one it is moved to.
LEMMA MoveConsumeStep ==
    ASSUME Inv, NEW o \in PlainConsumes, NEW u \in PlainConsumes, ConcMoveConsume(o, u)
    PROVE  Inv'
  <1>1. /\ UNCHANGED <<put, bound, call>> /\ call[o].pc = "idle" /\ call[u].pc = "idle" /\ o # u
        /\ ~OpBound(o) /\ OpBound(u)
        /\ op' = [op EXCEPT ![o] = op[u], ![u] = NoOp]
        /\ mutex' = [mutex EXCEPT ![op[u].queue] = o]
    BY DEF ConcMoveConsume, MoveConsume, IsIdle
  <1>2. o \in Consumes /\ u \in Consumes
    BY DEF Consumes
  <1>3. /\ op' = [c \in Consumes |-> op'[c]] /\ op'[o] = op[u] /\ op'[u] = NoOp
        /\ \A c \in Consumes \ {o, u} : op'[c] = op[c]
    BY <1>1, <1>2, Updated DEF Inv, Shape
  <1>4. \A q \in Queues : mutex[q] # o
    BY <1>1, OwnMutex
  <1>5. \A q \in Queues : mutex[q] = u <=> op[u].queue = q
    BY <1>1, OwnMutex
  <1>6. \A q \in Queues : mutex'[q] = IF mutex[q] = u THEN o ELSE mutex[q]
    BY <1>1, <1>5 DEF Inv, Shape
  <1>7. mutex' \in [Queues -> Plain \cup ReentrantConsumes \cup {Nobody}]
    BY <1>1 DEF Inv, Shape, Plain
  <1>8. OpBound(o)' /\ ~OpBound(u)'
    BY <1>1, <1>3 DEF OpBound, NoOp
  <1>9. \A q \in Queues : /\ (op'[o].queue = q <=> mutex'[q] = o) /\ mutex'[q] # u
                          /\ \A x \in (Plain \cup ReentrantConsumes) \ {o, u} : mutex'[q] = x <=> mutex[q] = x
    BY <1>1, <1>3, <1>4, <1>5, <1>6
  <1>10. call'[o].pc = "idle" /\ call'[u].pc = "idle"
    BY <1>1
  <1>11. /\ call' = [c \in Consumes |-> call'[c]]
         /\ \A c \in Consumes : call'[c] = call[c] /\ {"pc", "queue", "block"} \subseteq DOMAIN call'[c]
    BY <1>1 DEF Inv, Shape
  <1>12. \A c \in {o, u} : /\ {"pc", "queue", "block"} \subseteq DOMAIN call'[c]
                           /\ call'[c].pc # "lock"
                           /\ \A q \in Queues : Engaged(c, q)' <=> mutex'[q] = c
    BY <1>2, <1>8, <1>9, <1>10, <1>11, EngagedNow
  <1> QED
    <2>1. Settles(o, u)
      BY <1>1, <1>3, <1>7, <1>9, <1>11, <1>12 DEF Settles
    <2> QED
      BY <2>1, OpSteps

\* The assignment to an operation in progress: it gives the mutex of its queue
\* back and gets the one of the source.
LEMMA AssignLockStep ==
    ASSUME Inv, NEW o \in PlainConsumes, NEW u \in PlainConsumes, AssignLock(o, u)
    PROVE  Inv'
  <1> DEFINE r == [Idle EXCEPT !.pc = "assign", !.queue = op[u].queue]
             s == [Idle EXCEPT !.pc = "assigned"]
  <1>1. /\ UNCHANGED <<put, op, bound>> /\ call[o].pc = "idle" /\ call[u].pc = "idle" /\ o # u
        /\ OpBound(o) /\ OpBound(u)
        /\ mutex' = [mutex EXCEPT ![op[o].queue] = Nobody, ![op[u].queue] = o]
        /\ call' = [call EXCEPT ![o] = r, ![u] = s]
    BY DEF AssignLock, IsIdle
  <1>2. /\ {"pc", "queue", "block"} \subseteq DOMAIN r /\ r.pc = "assign" /\ r.queue = op[u].queue
        /\ {"pc", "queue", "block"} \subseteq DOMAIN s /\ s.pc = "assigned"
    BY DEF Idle
  <1> HIDE DEF r, s
  <1>3. o \in Consumes /\ u \in Consumes
    BY DEF Consumes
  <1>4. /\ call' = [c \in Consumes |-> call'[c]] /\ call'[o] = r /\ call'[u] = s
        /\ \A c \in Consumes \ {o, u} : call'[c] = call[c]
    BY <1>1, <1>3, Updated DEF Inv, Shape
  <1>5. \A q \in Queues : (mutex[q] = o <=> op[o].queue = q) /\ (mutex[q] = u <=> op[u].queue = q)
    BY <1>1, OwnMutex
  <1>6. \A q \in Queues : mutex'[q] = IF mutex[q] = u THEN o ELSE IF mutex[q] = o THEN Nobody ELSE mutex[q]
    BY <1>1, <1>5 DEF Inv, Shape
  <1>7. mutex' \in [Queues -> Plain \cup ReentrantConsumes \cup {Nobody}]
    BY <1>1 DEF Inv, Shape, Plain
  <1>8. \A q \in Queues : /\ Engaged(o, q)' <=> op[u].queue = q
                          /\ ~Engaged(u, q)'
    BY <1>1, <1>2, <1>4, Kinds DEF Engaged, Plain
  <1>9. \A q \in Queues : /\ (op[u].queue = q <=> mutex'[q] = o) /\ mutex'[q] # u
                          /\ \A x \in (Plain \cup ReentrantConsumes) \ {o, u} : mutex'[q] = x <=> mutex[q] = x
    <2>1. o # u /\ Nobody \notin {o, u} /\ Nobody \notin Plain \cup ReentrantConsumes
      BY <1>1, Kinds DEF Plain
    <2> QED
      BY <1>5, <1>6, <2>1
  <1>10. op' = [c \in Consumes |-> op'[c]] /\ \A c \in Consumes \ {o, u} : op'[c] = op[c]
    BY <1>1 DEF Inv, Shape
  <1>11. \A c \in {o, u} : /\ {"pc", "queue", "block"} \subseteq DOMAIN call'[c]
                           /\ call'[c].pc # "lock"
                           /\ \A q \in Queues : Engaged(c, q)' <=> mutex'[q] = c
    BY <1>2, <1>4, <1>8, <1>9
  <1> QED
    <2>1. Settles(o, u)
      BY <1>1, <1>4, <1>7, <1>9, <1>10, <1>11 DEF Settles
    <2> QED
      BY <2>1, OpSteps

\* Its element is committed and it takes the one of the source, whose mutex it
\* has.
LEMMA AssignOperationStep ==
    ASSUME Inv, NEW o \in PlainConsumes, NEW u \in PlainConsumes, AssignOperation(o, u)
    PROVE  Inv'
  <1>1. /\ UNCHANGED <<put, bound, mutex>> /\ o # u /\ OpBound(u)
        /\ call[o].pc = "assign" /\ call[u].pc = "assigned" /\ op[u].queue = call[o].queue
        /\ op' = [op EXCEPT ![o] = op[u], ![u] = NoOp]
        /\ call' = [call EXCEPT ![o] = Idle, ![u] = Idle]
    BY DEF AssignOperation, MoveConsume
  <1>2. o \in Consumes /\ u \in Consumes
    BY DEF Consumes
  <1>3. /\ op' = [c \in Consumes |-> op'[c]] /\ op'[o] = op[u] /\ op'[u] = NoOp
        /\ \A c \in Consumes \ {o, u} : op'[c] = op[c]
    BY <1>1, <1>2, Updated DEF Inv, Shape
  <1>4. /\ call' = [c \in Consumes |-> call'[c]] /\ call'[o] = Idle /\ call'[u] = Idle
        /\ \A c \in Consumes \ {o, u} : call'[c] = call[c]
    BY <1>1, <1>2, Updated DEF Inv, Shape
  <1>5. {"pc", "queue", "block"} \subseteq DOMAIN Idle /\ Idle.pc = "idle"
    BY DEF Idle
  <1>6. OpBound(o)' /\ ~OpBound(u)'
    BY <1>1, <1>3 DEF OpBound, NoOp
  <1>7. \A q \in Queues : (mutex[q] = o <=> call[o].queue = q) /\ mutex[q] # u
    BY <1>1, Kinds DEF Inv, PlainHold, Engaged, Plain
  <1>8. \A c \in {o, u} : /\ {"pc", "queue", "block"} \subseteq DOMAIN call'[c]
                          /\ call'[c].pc # "lock"
                          /\ \A q \in Queues : Engaged(c, q)' <=> mutex'[q] = c
    <2>1. call'[o].pc = "idle" /\ call'[u].pc = "idle"
      BY <1>4, <1>5
    <2>2. \A q \in Queues : /\ Engaged(o, q)' <=> (OpBound(o) /\ op[o].queue = q)'
                            /\ Engaged(u, q)' <=> (OpBound(u) /\ op[u].queue = q)'
      BY <2>1, EngagedNow
    <2>3. \A q \in Queues : Engaged(o, q)' <=> mutex'[q] = o
      <3>1. mutex' = mutex /\ op'[o].queue = call[o].queue
        BY <1>1, <1>3
      <3> QED
        BY <1>6, <1>7, <2>2, <3>1
    <2>4. \A q \in Queues : Engaged(u, q)' <=> mutex'[q] = u
      BY <1>1, <1>6, <1>7, <2>2
    <2> QED
      BY <1>4, <1>5, <2>1, <2>3, <2>4
  <1>9. mutex' \in [Queues -> Plain \cup ReentrantConsumes \cup {Nobody}]
    BY <1>1 DEF Inv, Shape
  <1> QED
    <2>1. Settles(o, u)
      BY <1>1, <1>3, <1>4, <1>8, <1>9 DEF Settles
    <2> QED
      BY <2>1, OpSteps

---------------------------------------------------------------------------

\* A step of a reentrant operation does not disturb the plain objects.
KeepsPlain ==
    /\ UNCHANGED put
    /\ mutex' \in [Queues -> Plain \cup ReentrantConsumes \cup {Nobody}]
    /\ op' = [c \in Consumes |-> op'[c]] /\ call' = [c \in Consumes |-> call'[c]]
    /\ bound' = [c \in ReentrantConsumes |-> bound'[c]]
    /\ \A c \in Consumes : {"pc", "queue", "block"} \subseteq DOMAIN call'[c]
    /\ \A c \in PlainConsumes : op'[c] = op[c] /\ call'[c] = call[c]
    /\ \A q \in Queues, x \in Plain : mutex'[q] = x <=> mutex[q] = x

\* It keeps the invariant if it keeps what is said of reentrant operations.
LEMMA ReentrantSteps ==
    ASSUME Inv, KeepsPlain, ReentrantHold', FirstHeld'
    PROVE  Inv'
  <1>1. Shape'
    BY DEF KeepsPlain, Inv, Shape
  <1>2. PlainHold'
    BY DEF KeepsPlain, Inv, PlainHold, Engaged, OpBound
  <1>3. GivenBack'
    BY DEF KeepsPlain, Inv, GivenBack, IsIdle, OpBound
  <1> QED
    BY <1>1, <1>2, <1>3 DEF Inv

\* Operations change outside of the calls that lock twice.
LEMMA OneLockSteps ==
    ASSUME Inv, NEW o \in ReentrantConsumes,
           \/ \E q \in Queues : ConcNewReentrantConsume(q, o)
           \/ ConcCommitReentrantConsume(o) \/ ConcCancelReentrantConsume(o)
           \/ \E u \in ReentrantConsumes : ConcMoveReentrantConsume(o, u)
    PROVE  Inv'
  <1>1. /\ UNCHANGED <<put, mutex, call>> /\ IsIdle(o)
        /\ UNCHANGED bound \/ \E v : bound' = [bound EXCEPT ![o] = v]
        /\ \E u \in ReentrantConsumes : \E v, w : op' = [op EXCEPT ![o] = v, ![u] = w]
    <2>1. CASE \E q \in Queues : ConcNewReentrantConsume(q, o)
      <3>1. PICK q \in Queues : ConcNewReentrantConsume(q, o)
        BY <2>1
      <3>2. \E v : op' = [op EXCEPT ![o] = v]
        BY <3>1 DEF ConcNewReentrantConsume, TryStartReentrantConsume, TryStartConsume, TakeFirst
      <3>3. PICK v : op' = [op EXCEPT ![o] = v]
        BY <3>2
      <3>4. op' = [op EXCEPT ![o] = v, ![o] = v]
        BY <3>3
      <3> QED
        BY <3>1, <3>4 DEF ConcNewReentrantConsume, TryStartReentrantConsume, TryStartConsume, TakeFirst
    <2>2. CASE ConcCommitReentrantConsume(o) \/ ConcCancelReentrantConsume(o)
      <3>1. op' = [op EXCEPT ![o] = NoOp] /\ UNCHANGED <<put, mutex, call, bound>> /\ IsIdle(o)
        BY <2>2 DEF ConcCommitReentrantConsume, ConcCancelReentrantConsume, CommitReentrantConsume,
                    CancelReentrantConsume, CommitConsume, CancelConsume, LocksSame
      <3>2. op' = [op EXCEPT ![o] = NoOp, ![o] = NoOp]
        BY <3>1
      <3> QED
        BY <3>1, <3>2
    <2>3. CASE \E u \in ReentrantConsumes : ConcMoveReentrantConsume(o, u)
      <3>1. PICK u \in ReentrantConsumes : ConcMoveReentrantConsume(o, u)
        BY <2>3
      <3>2. /\ UNCHANGED <<put, mutex, call>> /\ IsIdle(o)
            /\ bound' = [bound EXCEPT ![o] = bound[u]]
            /\ op' = [op EXCEPT ![o] = op[u], ![u] = NoOp]
        BY <3>1 DEF ConcMoveReentrantConsume, MoveReentrantConsume, MoveConsume
      <3> QED
        BY <3>2
    <2> QED
      BY <2>1, <2>2, <2>3
  <1>2. op' = [c \in Consumes |-> op'[c]] /\ \A c \in PlainConsumes : op'[c] = op[c]
    <2>0. PICK u \in ReentrantConsumes : \E v, w : op' = [op EXCEPT ![o] = v, ![u] = w]
      BY <1>1
    <2>1. PICK v, w : op' = [op EXCEPT ![o] = v, ![u] = w]
      BY <2>0
    <2>2. op = [c \in Consumes |-> op[c]]
      BY DEF Inv, Shape
    <2>3. /\ op' = [c \in Consumes |-> op'[c]]
          /\ \A c \in Consumes : op'[c] = IF c = u THEN w ELSE IF c = o THEN v ELSE op[c]
      BY <2>1, <2>2, Updated
    <2> QED
      BY <2>3, Kinds DEF Plain, Consumes
  <1>3. /\ bound' = [c \in ReentrantConsumes |-> bound'[c]]
        /\ \A c \in ReentrantConsumes \ {o} : bound'[c] = bound[c]
    BY <1>1, UpdatedOnce DEF Inv, Shape
  <1>4. KeepsPlain
    BY <1>1, <1>2, <1>3 DEF KeepsPlain, Inv, Shape
  <1>5. ReentrantHold'
    BY <1>1 DEF Inv, ReentrantHold, IsIdle
  <1>6. FirstHeld'
    BY <1>1, <1>3 DEF Inv, FirstHeld, IsIdle
  <1> QED
    BY <1>4, <1>5, <1>6, ReentrantSteps

\* A call goes on, from a pc to another.
LEMMA CallMoves ==
    ASSUME Inv, NEW o \in Consumes, NEW r, call' = [call EXCEPT ![o] = r],
           {"pc", "queue", "block"} \subseteq DOMAIN r
    PROVE  /\ call' = [c \in Consumes |-> call'[c]]
           /\ \A c \in Consumes : {"pc", "queue", "block"} \subseteq DOMAIN call'[c]
           /\ call'[o] = r /\ \A c \in Consumes \ {o} : call'[c] = call[c]
  BY UpdatedOnce DEF Inv, Shape

\* The call starts: without a lock, and with no queue if it takes only one.
LEMMA CallStarts ==
    ASSUME Inv, NEW o \in ReentrantConsumes, NEW q \in Queues, ConcTryStartReentrantConsume(q, o)
    PROVE  Inv'
  <1> DEFINE r == [Idle EXCEPT !.queue = q, !.pc = IF bound[o] = NoQueue THEN "lock_new" ELSE "lock_old"]
  <1>1. UNCHANGED <<put, op, mutex, bound>> /\ call' = [call EXCEPT ![o] = r] /\ IsIdle(o)
    BY DEF ConcTryStartReentrantConsume
  <1>2. /\ {"pc", "queue", "block"} \subseteq DOMAIN r /\ r.pc \in {"lock_new", "lock_old"}
        /\ r.pc = "lock_new" => bound[o] = NoQueue
    BY DEF Idle
  <1> HIDE DEF r
  <1>3. /\ call' = [c \in Consumes |-> call'[c]]
        /\ \A c \in Consumes : {"pc", "queue", "block"} \subseteq DOMAIN call'[c]
        /\ call'[o] = r /\ \A c \in Consumes \ {o} : call'[c] = call[c]
    BY <1>1, <1>2, CallMoves DEF Consumes
  <1>4. KeepsPlain
    BY <1>1, <1>3, Kinds DEF KeepsPlain, Inv, Shape, Plain, Consumes
  <1>5. ReentrantHold'
    BY <1>1, <1>2, <1>3 DEF Inv, ReentrantHold, IsIdle, Consumes
  <1>6. FirstHeld'
    BY <1>1, <1>2, <1>3, Kinds DEF Inv, FirstHeld, Consumes
  <1> QED
    BY <1>4, <1>5, <1>6, ReentrantSteps

\* The call takes a mutex that is free: of the queue it was bound to, or the
\* new one.
LEMMA CallLocks ==
    ASSUME Inv, NEW o \in ReentrantConsumes, LockOld(o) \/ LockNew(o)
    PROVE  Inv'
  <1> DEFINE q == IF call[o].pc = "lock_old" THEN bound[o] ELSE call[o].queue
             to == IF call[o].pc = "lock_old" /\ bound[o] # call[o].queue THEN "lock_new" ELSE "switch"
             r == [call[o] EXCEPT !.pc = to]
  <1>0. o \in Consumes
    BY DEF Consumes
  <1>1. /\ UNCHANGED <<put, op, bound>> /\ mutex[q] = Nobody /\ mutex' = [mutex EXCEPT ![q] = o]
        /\ call' = [call EXCEPT ![o] = r] /\ call[o].pc \in {"lock_old", "lock_new"}
    BY DEF LockOld, LockNew, Free, Goto
  <1>2. {"pc", "queue", "block"} \subseteq DOMAIN r /\ r.pc \in {"lock_new", "switch"}
    BY <1>0 DEF Inv, Shape
  <1>3. call[o].pc = "lock_old" => q = bound[o]
    OBVIOUS
  <1> HIDE DEF r, to, q
  <1>4. /\ call' = [c \in Consumes |-> call'[c]]
        /\ \A c \in Consumes : {"pc", "queue", "block"} \subseteq DOMAIN call'[c]
        /\ call'[o] = r /\ \A c \in Consumes \ {o} : call'[c] = call[c]
    BY <1>0, <1>1, <1>2, CallMoves
  <1>5. /\ mutex' \in [Queues -> Plain \cup ReentrantConsumes \cup {Nobody}]
        /\ \A s \in Queues : mutex'[s] = IF s = q THEN o ELSE mutex[s]
    BY <1>1 DEF Inv, Shape
  <1>6. KeepsPlain
    <2>1. \A s \in Queues, x \in Plain : mutex'[s] = x <=> mutex[s] = x
      BY <1>1, <1>5, Kinds
    <2>2. \A c \in PlainConsumes : c # o /\ c \in Consumes
      BY Kinds DEF Plain, Consumes
    <2> QED
      BY <1>1, <1>4, <1>5, <2>1, <2>2 DEF KeepsPlain, Inv, Shape
  <1>7. ReentrantHold'
    BY <1>1, <1>2, <1>4, <1>5 DEF Inv, ReentrantHold, IsIdle, Consumes
  <1>8. FirstHeld'
    <2> SUFFICES ASSUME NEW c \in ReentrantConsumes, call'[c].pc \in {"lock_new", "switch"}, bound'[c] \in Queues
                 PROVE  mutex'[bound'[c]] = c
      BY DEF FirstHeld
    <2>1. CASE c = o
      BY <1>1, <1>3, <1>5, <2>1 DEF Inv, FirstHeld
    <2>2. CASE c # o
      <3>1. mutex[bound[c]] = c
        BY <1>1, <1>4, <2>2 DEF Inv, FirstHeld, Consumes
      <3> QED
        BY <1>1, <1>5, <3>1, Kinds
    <2> QED
      BY <2>1, <2>2
  <1> QED
    BY <1>6, <1>7, <1>8, ReentrantSteps

\* The call goes to the new queue and lets the other go, if it is another.
LEMMA CallSwitches ==
    ASSUME Inv, NEW o \in ReentrantConsumes, Switch(o)
    PROVE  Inv'
  <1> DEFINE r == [call[o] EXCEPT !.pc = "find"]
  <1>0. o \in Consumes
    BY DEF Consumes
  <1>1. /\ UNCHANGED put
        /\ UNCHANGED op \/ op' = [op EXCEPT ![o] = NoOp]
        /\ mutex' = [q \in Queues |-> IF q = bound[o] THEN Nobody ELSE mutex[q]]
        /\ bound' = [bound EXCEPT ![o] = call[o].queue]
        /\ call' = [call EXCEPT ![o] = r] /\ call[o].pc = "switch"
    BY DEF Switch, CancelReentrantConsume, CancelConsume, Goto
  <1>2. {"pc", "queue", "block"} \subseteq DOMAIN r /\ r.pc = "find"
    BY <1>0 DEF Inv, Shape
  <1> HIDE DEF r
  <1>3. /\ call' = [c \in Consumes |-> call'[c]]
        /\ \A c \in Consumes : {"pc", "queue", "block"} \subseteq DOMAIN call'[c]
        /\ call'[o] = r /\ \A c \in Consumes \ {o} : call'[c] = call[c]
    BY <1>0, <1>1, <1>2, CallMoves
  <1>4. op' = [c \in Consumes |-> op'[c]] /\ \A c \in Consumes \ {o} : op'[c] = op[c]
    BY <1>1, UpdatedOnce DEF Inv, Shape
  <1>5. /\ bound' = [c \in ReentrantConsumes |-> bound'[c]]
        /\ \A c \in ReentrantConsumes \ {o} : bound'[c] = bound[c]
    BY <1>1, UpdatedOnce DEF Inv, Shape
  <1>6. bound[o] \in Queues => mutex[bound[o]] = o
    BY <1>1 DEF Inv, FirstHeld
  <1>7. /\ mutex' \in [Queues -> Plain \cup ReentrantConsumes \cup {Nobody}]
        /\ \A q \in Queues : mutex'[q] = IF q = bound[o] THEN Nobody ELSE mutex[q]
    BY <1>1 DEF Inv, Shape
  <1>8. KeepsPlain
    <2>1. \A s \in Queues, x \in Plain : mutex'[s] = x <=> mutex[s] = x
      BY <1>6, <1>7, Kinds
    <2>2. \A c \in PlainConsumes : c # o /\ c \in Consumes
      BY Kinds DEF Plain, Consumes
    <2> QED
      BY <1>1, <1>3, <1>4, <1>5, <1>7, <2>1, <2>2 DEF KeepsPlain
  <1>9. ReentrantHold'
    BY <1>2, <1>3, <1>7, Kinds DEF Inv, ReentrantHold, IsIdle, Consumes
  <1>10. FirstHeld'
    BY <1>2, <1>3, <1>5, <1>6, <1>7 DEF Inv, FirstHeld, Consumes
  <1> QED
    BY <1>8, <1>9, <1>10, ReentrantSteps

\* The call finds a block, and then takes it and lets every mutex it has go.
LEMMA CallTakes ==
    ASSUME Inv, NEW o \in ReentrantConsumes, Find(o) \/ Mark(o)
    PROVE  Inv'
  <1>0. o \in Consumes
    BY DEF Consumes
  <1>1. CASE Find(o)
    <2> DEFINE r == [call[o] EXCEPT !.pc = "mark", !.block = FirstReady(mem, call[o].queue)]
    <2>1. UNCHANGED <<put, op, mutex, bound>> /\ call' = [call EXCEPT ![o] = r]
      BY <1>1 DEF Find
    <2>2. {"pc", "queue", "block"} \subseteq DOMAIN r /\ r.pc = "mark"
      BY <1>0 DEF Inv, Shape
    <2> HIDE DEF r
    <2>3. /\ call' = [c \in Consumes |-> call'[c]]
          /\ \A c \in Consumes : {"pc", "queue", "block"} \subseteq DOMAIN call'[c]
          /\ call'[o] = r /\ \A c \in Consumes \ {o} : call'[c] = call[c]
      BY <1>0, <2>1, <2>2, CallMoves
    <2>4. KeepsPlain
      BY <2>1, <2>3, Kinds DEF KeepsPlain, Inv, Shape, Plain, Consumes
    <2>5. ReentrantHold'
      BY <2>1, <2>2, <2>3 DEF Inv, ReentrantHold, IsIdle, Consumes
    <2>6. FirstHeld'
      BY <2>1, <2>2, <2>3 DEF Inv, FirstHeld, Consumes
    <2> QED
      BY <2>4, <2>5, <2>6, ReentrantSteps
  <1>2. CASE Mark(o)
    <2>1. /\ UNCHANGED <<put, bound>> /\ call' = [call EXCEPT ![o] = Idle]
          /\ mutex' = [q \in Queues |-> IF mutex[q] = o THEN Nobody ELSE mutex[q]]
          /\ \E v : op' = [op EXCEPT ![o] = v]
      BY <1>2 DEF Mark
    <2>2. {"pc", "queue", "block"} \subseteq DOMAIN Idle /\ Idle.pc = "idle"
      BY DEF Idle
    <2>3. /\ call' = [c \in Consumes |-> call'[c]]
          /\ \A c \in Consumes : {"pc", "queue", "block"} \subseteq DOMAIN call'[c]
          /\ call'[o] = Idle /\ \A c \in Consumes \ {o} : call'[c] = call[c]
      BY <1>0, <2>1, <2>2, CallMoves
    <2>4. op' = [c \in Consumes |-> op'[c]] /\ \A c \in Consumes \ {o} : op'[c] = op[c]
      BY <2>1, UpdatedOnce DEF Inv, Shape
    <2>5. /\ mutex' \in [Queues -> Plain \cup ReentrantConsumes \cup {Nobody}]
          /\ \A q \in Queues : mutex'[q] = IF mutex[q] = o THEN Nobody ELSE mutex[q]
      BY <2>1 DEF Inv, Shape
    <2>6. KeepsPlain
      <3>1. \A s \in Queues, x \in Plain : mutex'[s] = x <=> mutex[s] = x
        BY <2>5, Kinds
      <3>2. \A c \in PlainConsumes : c # o /\ c \in Consumes
        BY Kinds DEF Plain, Consumes
      <3> QED
        BY <2>1, <2>3, <2>4, <2>5, <3>1, <3>2 DEF KeepsPlain, Inv, Shape
    <2>7. ReentrantHold'
      BY <2>3, <2>5, Kinds DEF Inv, ReentrantHold, IsIdle, Consumes
    <2>8. FirstHeld'
      BY <2>1, <2>2, <2>3, <2>5 DEF Inv, FirstHeld, Consumes
    <2> QED
      BY <2>6, <2>7, <2>8, ReentrantSteps
  <1> QED
    BY <1>1, <1>2

---------------------------------------------------------------------------

\* No other function leaves a mutex or an object different.
LEMMA WholeQueueSteps ==
    ASSUME Inv, (\E q \in Queues : ConcPop(q) \/ ConcReentrantPop(q)) \/ ConcQueueNext
    PROVE  Inv'
  <1>1. UNCHANGED <<put, op, mutex, bound, call>>
    BY DEF ConcPop, ConcReentrantPop, ReentrantPop, Pop, ConcQueueNext, ConcClear, ClearQueue, ConcDestroy,
           DestroyQueue, ConcMove, MoveQueue, ConcSwap, SwapQueues, LocksSame
  <1> QED
    BY <1>1, SameEngaged DEF Inv, Shape

\* The objects are empty and the mutexes free at first.
LEMMA InitInv == ConcInit => Inv
  <1> SUFFICES ASSUME ConcInit PROVE Inv
    OBVIOUS
  <1>1. /\ put = [t \in Puts |-> NoPut] /\ op = [o \in Consumes |-> NoOp]
        /\ mutex = [q \in Queues |-> Nobody] /\ bound = [o \in ReentrantConsumes |-> NoQueue]
        /\ call = [o \in Consumes |-> Idle]
    BY DEF ConcInit, Init
  <1>2. /\ NoPut.queue = NoQueue /\ NoOp.block = NoBlock
        /\ Idle.pc = "idle" /\ {"pc", "queue", "block"} \subseteq DOMAIN Idle
    BY DEF NoPut, NoOp, Idle
  <1>3. Shape
    BY <1>1, <1>2 DEF Shape
  <1>4. PlainHold
    BY <1>1, <1>2, Kinds DEF PlainHold, Engaged, OpBound, Puts, Consumes, Plain
  <1>5. ReentrantHold /\ FirstHeld
    BY <1>1, <1>2, Kinds DEF ReentrantHold, FirstHeld, Consumes
  <1>6. GivenBack
    BY <1>1, <1>2 DEF GivenBack, OpBound, Consumes
  <1> QED
    BY <1>3, <1>4, <1>5, <1>6 DEF Inv

\* Every step.
LEMMA NextInv == Inv /\ [ConcNext]_cvars => Inv'
  <1> SUFFICES ASSUME Inv, [ConcNext]_cvars PROVE Inv'
    OBVIOUS
  <1>1. CASE ConcPutNext
    BY <1>1, StartPutSteps, EndPutSteps, MovePutStep, OtherPutSteps DEF ConcPutNext
  <1>2. CASE ConcConsumeNext
    BY <1>2, EndConsumeSteps, LockAndTakeStep, MoveConsumeStep,
       AssignLockStep, AssignOperationStep, WholeQueueSteps DEF ConcConsumeNext
  <1>3. CASE ConcReentrantConsumeNext
    BY <1>3, OneLockSteps, CallStarts, CallLocks, CallSwitches, CallTakes DEF ConcReentrantConsumeNext
  <1>4. CASE ConcQueueNext
    BY <1>4, WholeQueueSteps
  <1>5. CASE UNCHANGED cvars
    BY <1>5, SameEngaged DEF cvars, Inv, Shape
  <1> QED
    BY <1>1, <1>2, <1>3, <1>4, <1>5 DEF ConcNext

\* Mutual exclusion of conc_heter_queue: while a plain transaction or
\* operation is in progress on a queue it owns the mutex, through moves from
\* object to object and operations that are used again, and a mutex is owned
\* by nothing that has ended.  This is so for any number of queues and objects
\* and whatever objects are assigned to; the only exception is the operation
\* that is assigned to while in progress, from the moment m_lock is overwritten
\* until its element is committed (conc_heter_queue.h:572-573).
THEOREM MutexHeld == ConcSpec => []LockHeld
  <1>1. Inv => LockHeld
    BY Kinds DEF Inv, PlainHold, ReentrantHold, LockHeld, Plain
  <1> QED
    BY <1>1, InitInv, NextInv, PTL DEF ConcSpec

============================================================================
