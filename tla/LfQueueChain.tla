-------------------------- MODULE LfQueueChain ---------------------------
(***************************************************************************)
(* The head and the tail of a lock-free queue together: the chain of       *)
(* blocks that goes from one to the other, and what must hold of it under  *)
(* either put layer for many producers.                                    *)
(***************************************************************************)
EXTENDS LfQueueHeadMultiple, LfQueueTailMultiple

\* There is memory, and it is finite.
ASSUME ChainAssumption == IsFiniteSet(Pages) /\ Pages # {}

vars == <<baseVars, headVars, tailVars>>

Init == BaseInit /\ HeadInit /\ TailInit

TypeOK == BaseTypeOK /\ HeadTypeOK /\ TailTypeOK

\* The inductive invariant behind TypeOK and ControlPinned.
IInv == TypeOK /\ WordsOK /\ ConsumersOK /\ ControlPinned /\ ProducersOK /\ TailOK

---------------------------------------------------------------------------
(* The chain of blocks from the head to the tail *)

\* The block after b: the one its control word names, or the one a producer
\* that has moved the tail past b is about to name.
Reserving(b) == {p \in Producers : prod[p].pc \in {"store", "store_pad"} /\ prod[p].tail = b}
After(b) ==
    IF b = NoBlock THEN NoBlock
    ELSE IF ~IsEnd(m_next[b]) THEN m_next[b].to
    ELSE IF Reserving(b) = {} THEN NoBlock
    ELSE ReservedEnd(CHOOSE p \in Reserving(b) : TRUE)

First == IF m_head = NoBlock THEN FirstBlock(m_initial_page) ELSE m_head

\* The blocks from First on; no chain is longer than the memory.
Chain ==
    LET at[n \in 0 .. Cardinality(Block)] == IF n = 0 THEN First ELSE After(at[n - 1])
    IN {at[n] : n \in 0 .. Cardinality(Block) - 1} \ {NoBlock}

ChainPages == {PageOf(b) : b \in Chain}

---------------------------------------------------------------------------
(* Safety *)

\* A committed element is in the chain from the head, consumable until a
\* consumer takes it and busy while one has it: no interleaving of advancing,
\* zeroing and recycling cuts the queue before it.
NoElementLost ==
    \A e \in Element : status[e] \in {"ready", "consuming"} =>
        \E b \in Chain : /\ content[b] = <<e[1], e[2], 0>>
                         /\ Consumable(m_next[b]) <=> status[e] = "ready"

\* The tail is at the end of the chain from the head, in a page the allocator
\* cannot hand out.  Two exceptions: a pad has been written but m_tail not
\* moved past it, so that the head may have overtaken it; a page has been
\* linked, the consumers have left the old one, and the producer that will
\* move the tail there has the old page pinned.
TailReachable ==
    m_tail # InvalidBlock =>
    /\ ~Allocatable(PageOf(m_tail))
    /\ \/ m_tail \in Chain
       \/ NewTail(m_tail, m_rest) \in Chain
       \/ \E p \in Producers : /\ PAt(p, "advance_tail")
                               /\ prod[p].tail = m_tail
                               /\ <<p, "end_block">> \in pinners[PageOf(m_tail)]
                               /\ prod[p].new_page \in ChainPages

\* Every page the queue has allocated is in the chain, or new and not yet
\* linked, or left behind by a consumer about to give it back: none leaks and
\* none is given back while the chain goes through it.
NewPages == {prod[p].new_page : p \in {r \in Producers :
               prod[r].pc \in {"link_page", "discard_page", "init_page", "discard_initial"}}}
LeftPages == {PageOf(cons[c].control) : c \in {d \in Consumers :
                /\ cons[d].pc \in {"zero", "free_page"}
                /\ ~SamePage(cons[d].control, cons[d].next.to)}}
PagesAccountedFor ==
    {q \in Pages : pool[q] = "queue"} = (ChainPages \ {NoPage}) \cup NewPages \cup LeftPages

\* A pending put owns its block, as commit_put_impl asserts: the control word
\* is the one it stored and the page is the queue's.
PendingHolds ==
    \A p \in Producers : prod[p].control # NoBlock =>
        /\ m_next[prod[p].control] = prod[p].next
        /\ prod[p].control \in Chain
        /\ pool[PageOf(prod[p].control)] = "queue"
        /\ PAt(p, "pending") => content[prod[p].control] = <<p, prod[p].puts, 0>>

\* An external block lives as long as its block is in the chain, or is being
\* put, or a consumer that has just advanced past it is about to free it: it
\* is freed once, and not leaked by a put that fails.
ExternalBlocks ==
    LET inChain == {content[b] : b \in {a \in Chain : "external" \in m_next[a].flags}} \ {NoItem}
        leaving == {content[cons[c].control] : c \in {d \in Consumers : At(d, "free_external")}}
        inPut == {Allocating(p) : p \in {r \in Producers : "external" \in prod[r].flags}}
    IN heap = inChain \cup leaving \cup inPut

\* A consumer that finds nothing is right: at some moment of its call there
\* was no ready element.
NoSpuriousEmpty ==
    \A c \in Consumers : At(c, "nothing") => c \in sawEmpty

\* A consumer that finds nothing has missed nothing: no element was ready all
\* along its call.
NothingMissed ==
    \A c \in Consumers : At(c, "nothing") => waiting[c] = {}

---------------------------------------------------------------------------
(* Progress *)

\* A producer is inside start_push or raw_allocate, a consumer inside
\* try_start_consume, empty() or commit().
Allocates(p) == prod[p].pc \notin {"idle", "pending"}
Consumes(c) == cons[c].pc \notin {"idle", "consuming"}

\* A call of a consumer comes to its end.
Returns(c) == Consumes(c) ~> ~Consumes(c)

\* What is committed is consumed.
Delivered == \A e \in Element : status[e] = "ready" ~> status[e] = "consumed"
==========================================================================
