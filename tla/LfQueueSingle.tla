-------------------------- MODULE LfQueueSingle --------------------------
(***************************************************************************)
(* The queues with a single-threaded or a spin-locking side: lf_heter_queue*)
(* with concurrency_single producers or consumers, and sp_heter_queue.     *)
(* put and consume say which layer each side has.  The queue can be        *)
(* destroyed when nobody uses it.                                          *)
(***************************************************************************)
EXTENDS LfQueueChain, LfQueueHeadSingle, SpQueueTailMultiple

CONSTANTS PutLayers, ConsumeLayers    \* the layers a queue may have

ASSUME LayersAssumption ==
    /\ PutLayers \subseteq {"single", "spin"}
    /\ ConsumeLayers \subseteq {"single", "multiple"}
    /\ ~ZeroedPages /\ MaxInPage = EndSlot

VARIABLES
    put,            \* the put layer
    consume,        \* the consume layer
    alive           \* the queue has not been destroyed

layers == <<put, consume>>
queueVars == <<vars, m_mutex, layers, alive>>

---------------------------------------------------------------------------

\* Mutant: the page of the tail is not deallocated.
DestroyAllButTail ==
    /\ \A p \in Producers : PAt(p, "idle")
    /\ \A c \in Consumers : At(c, "idle") /\ cons[c].control = NoBlock
    /\ LET passed == {b \in Chain : b \in Block /\ ~IsEnd(m_next[b])}
           left == {PageOf(b) : b \in {a \in passed : ~SamePage(a, m_next[a].to)}}
       IN /\ pool' = [q \in Pages |-> IF q \in left THEN "uninitialized" ELSE pool[q]]
          /\ heap' = heap \ {content[b] : b \in {a \in passed : "external" \in m_next[a].flags}}
    /\ status' = [e \in Element |-> IF status[e] = "ready" THEN "consumed" ELSE status[e]]
    /\ alive' = FALSE
    /\ UNCHANGED <<m_next, content, pinners, m_initial_page, headVars, tailVars, m_mutex, layers>>

\* ~lf_heter_queue: clear() consumes what is left, clean_dead_elements passes
\* the dead blocks, and the destructor of the tail frees its page.  No Consume
\* or transaction is bound to the queue: it is one step.
Destroy ==
    /\ \A p \in Producers : PAt(p, "idle")
    /\ \A c \in Consumers : At(c, "idle") /\ cons[c].control = NoBlock
    /\ LET passed == {b \in Chain : b \in Block /\ ~IsEnd(m_next[b])}
           left == {PageOf(b) : b \in {a \in passed : ~SamePage(a, m_next[a].to)}}
       IN /\ pool' = [q \in Pages |-> IF q \in left \cup {PageOf(m_tail)}
                                      THEN "uninitialized" ELSE pool[q]]
          /\ heap' = heap \ {content[b] : b \in {a \in passed : "external" \in m_next[a].flags}}
    /\ status' = [e \in Element |-> IF status[e] = "ready" THEN "consumed" ELSE status[e]]
    /\ alive' = FALSE
    /\ UNCHANGED <<m_next, content, pinners, m_initial_page, headVars, tailVars, m_mutex, layers>>

QueueInit ==
    /\ Init /\ SpinInit
    /\ put \in PutLayers
    /\ consume \in ConsumeLayers
    /\ alive = TRUE

PutNext ==
    \E p \in Producers :
        \/ put = "single" /\ SinglePutNext(p) /\ UNCHANGED m_mutex
        \/ put = "spin" /\ SpinPutNext(p)

ConsumeNext ==
    \E c \in Consumers :
        \/ consume = "single" /\ SingleConsumeNext(c)
        \/ consume = "multiple" /\ ConsumerNext(c)

Next ==
    /\ alive
    /\ \/ PutNext /\ UNCHANGED <<headVars, layers, alive>>
       \/ ConsumeNext /\ UNCHANGED <<tailVars, m_mutex, layers, alive>>
       \/ Destroy

Spec == QueueInit /\ [][Next]_queueVars

---------------------------------------------------------------------------

\* The words of the chain end at the tail: a consumer that follows them is
\* neither cut off before it nor led past it, into what an earlier life of a
\* page has left there.
EndsAtTail ==
    alive /\ m_tail # InvalidBlock => m_tail \in Chain /\ IsEnd(m_next[m_tail])

\* An element that is being consumed keeps its block, its word and its page,
\* though under the single layer nothing is pinned.
TakenKept ==
    \A c \in Consumers : At(c, "consuming") =>
        LET b == cons[c].control
        IN /\ m_next[b] = [cons[c].next EXCEPT !.flags = (@ \ {"dead"}) \cup {"busy"}]
           /\ content[b] # NoItem /\ status[ElementOf(content[b])] = "consuming"
           /\ pool[PageOf(b)] = "queue" /\ b \in Chain

\* A page or an external block is the queue's exactly while the queue can
\* still reach it; the destructor leaves none.
NothingLeft ==
    IF alive THEN PagesAccountedFor /\ ExternalBlocks
    ELSE heap = {} /\ \A q \in Pages : pool[q] # "queue" /\ pinners[q] = {}

\* Under the single-consumer layer a call that finds nothing has not missed an
\* element that was ready all along, and at some moment of it there was none.
\* Nothing is said of the layers for many consumers.
NeverMissed == consume = "single" => NothingMissed /\ NoSpuriousEmpty

\* Every way out of the function that takes the spin lock releases it, and a
\* thread that asks for it does not hold it: no thread waits for itself.
LockHeldInside ==
    put = "spin" => \A p \in Producers :
                      /\ Inside(p) => m_mutex = p
                      /\ Outside(p) => m_mutex # p
==========================================================================
