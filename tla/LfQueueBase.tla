--------------------------- MODULE LfQueueBase ---------------------------
(***************************************************************************)
(* The memory every concurrent heterogeneous queue of the library works    *)
(* on (detail/lf_queue_base.h): pages of control blocks, the m_next word   *)
(* of a block with its flags, and what the queue asks of its page          *)
(* allocator.  The head and tail layers EXTEND this module, as their       *)
(* classes derive from LFQueue_Base.                                       *)
(*                                                                         *)
(* An address is <<page, slot>>: a slot is s_alloc_granularity bytes, slot *)
(* 0 starts the page and slot EndSlot is its end control block.            *)
(*                                                                         *)
(* density_config.h sets enable_relaxed_atomics to false, so every atomic  *)
(* access is sequentially consistent: one atomic access is one step.       *)
(***************************************************************************)
EXTENDS Naturals, FiniteSets

CONSTANTS
    Pages,          \* the pages the allocator can ever hand out
    NoPage,         \* the page of the null address
    EndSlot,        \* s_end_control_offset, in slots
    Producers,      \* threads that put
    Consumers,      \* Consume objects, one per consuming thread
    MaxPuts,        \* bound: put transactions each producer starts
    MaxRaw,         \* bound: raw blocks allocated in a transaction
    ZeroedPages     \* s_deallocate_zeroed_pages of the tail layer

ASSUME BaseAssumption ==
    /\ NoPage \notin Pages
    /\ EndSlot \in Nat \ {0}
    /\ MaxPuts \in Nat
    /\ MaxRaw \in Nat
    /\ ZeroedPages \in BOOLEAN
    /\ Producers \cap Consumers = {}
    /\ Consumers \cap (Producers \X {"end_block", "scoped_pin"}) = {}

VARIABLES
    m_next,         \* the control word at each address
    content,        \* the item, element or raw block, that fills a slot
    pool,           \* where the allocator has each page
    pinners,        \* who has each page pinned: m_pin_count counts them
    heap,           \* items whose external block is allocated
    m_initial_page, \* first page of the queue, null until the first put
    status          \* history: what has become of each element

baseVars == <<m_next, content, pool, pinners, heap, m_initial_page, status>>

---------------------------------------------------------------------------
(* Addresses *)

Slots == 0 .. EndSlot
Block == Pages \X Slots
NoBlock == <<NoPage, 0>>
InvalidBlock == <<NoPage, EndSlot>>
BlockOrNull == Block \cup {NoBlock}
PageOf(b) == b[1]
SamePage(a, b) == PageOf(a) = PageOf(b)
FirstBlock(p) == <<p, 0>>
EndBlock(b) == <<PageOf(b), EndSlot>>

(* Control words *)

Flag == {"busy", "dead", "external", "invalid_next_page"}
NextPtr == [to : BlockOrNull, flags : SUBSET Flag]
Zero == [to |-> NoBlock, flags |-> {}]
InvalidNextPage == [to |-> NoBlock, flags |-> {"invalid_next_page"}]
NextWord(b, f) == [to |-> b, flags |-> f]

\* Mutant: a search stops at the first busy block.
IsEndOrBusy(n) == n.to = NoBlock \/ "busy" \in n.flags

\* m_next_ptr <= LfQueue_AllFlags
IsEnd(n) == n.to = NoBlock

\* Mutants: a block that another consumer has made busy is taken again; an
\* element whose storage is external is passed over.
ConsumableBusy(n) == n.flags \cap {"dead", "invalid_next_page"} = {}
ConsumableInPage(n) == n.flags = {}
Consumable(n) == n.flags \cap {"busy", "dead", "invalid_next_page"} = {}

\* Mutant: a block that a producer is still filling passes for a dead one.
IsDeadOrBusy(n) == n.flags \cap {"busy", "dead"} # {}
IsDead(n) == n.flags \cap {"busy", "dead"} = {"dead"}

(* Elements: the k-th put of producer p *)

Element == Producers \X (1 .. MaxPuts)

\* What fills a block: the element (0) or a raw block of its transaction.
Item == Producers \X (1 .. MaxPuts) \X (0 .. MaxRaw)
NoItem == <<"none", 0, 0>>
ElementOf(i) == <<i[1], i[2]>>
Status == {"none", "putting", "ready", "cancelled", "consuming", "consumed"}

---------------------------------------------------------------------------
(* What the queue asks of ALLOCATOR_TYPE.  A page is in the pool of zeroed *)
(* pages, in the pool of uninitialized ones, or allocated by the queue;    *)
(* a pinned page is never handed out.                                      *)

\* Who pins: a Consume, or one of the PinGuards of a put.
Holder == Consumers \cup (Producers \X {"end_block", "scoped_pin"})

Allocatable(p) == pool[p] = "zeroed" /\ pinners[p] = {}

Pin(h, p) == pinners' = [pinners EXCEPT ![p] = @ \cup {h}]
Unpin(h, p) == pinners' = [pinners EXCEPT ![p] = @ \ {h}]

---------------------------------------------------------------------------

BaseInit ==
    /\ m_next = [b \in Block |-> Zero]
    /\ content = [b \in Block |-> NoItem]
    /\ pool = [p \in Pages |-> "zeroed"]
    /\ pinners = [p \in Pages |-> {}]
    /\ heap = {}
    /\ m_initial_page = NoPage
    /\ status = [e \in Element |-> "none"]

BaseTypeOK ==
    /\ m_next \in [Block -> NextPtr]
    /\ content \in [Block -> Item \cup {NoItem}]
    /\ pool \in [Pages -> {"zeroed", "uninitialized", "queue"}]
    /\ pinners \in [Pages -> SUBSET Holder]
    /\ heap \subseteq Item
    /\ m_initial_page \in Pages \cup {NoPage}
    /\ status \in [Element -> Status]

\* A control word that is busy or dead names the next block.
WordsOK ==
    \A b \in Block : m_next[b].flags \cap {"busy", "dead"} # {} => m_next[b].to \in Block
==========================================================================
