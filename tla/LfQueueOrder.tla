-------------------------- MODULE LfQueueOrder ---------------------------
(***************************************************************************)
(* How the blocks of a lock-free queue lie in its pages: the inductive     *)
(* invariant behind what the consumers and the producers rely on.  It says *)
(* nothing of paths: each page of the queue knows the one after it, each   *)
(* block where it ends, and each thread the block it works on.             *)
(***************************************************************************)
EXTENDS LfQueueChain

---------------------------------------------------------------------------
(* Pages *)

\* The pages from that of the head to the last one.
LinkedPages == {q \in Pages : pool[q] = "queue"} \ (NewPages \cup LeftPages)

End(x) == <<x, EndSlot>>

\* The last page: none has been linked after it.
Open(x) == x \in LinkedPages /\ m_next[End(x)] = InvalidNextPage

\* Where the blocks of the last page end.  The tail may still be at the end
\* of the page before.
TailSlot(x) == IF PageOf(m_tail) = x THEN m_tail[2] ELSE 0

\* rank counts the pages in the order they were linked.
PageOrdered(rank, x) ==
    /\ rank[PageOf(First)] <= rank[x]
    /\ \A y \in LinkedPages : rank[x] = rank[y] => x = y
    /\ \/ Open(x) /\ \A y \in LinkedPages : rank[y] <= rank[x]
       \/ \E y \in LinkedPages : /\ m_next[End(x)] = NextWord(FirstBlock(y), {"dead"})
                                 /\ rank[y] = rank[x] + 1

PagesOrdered(rank) == \A x \in LinkedPages : PageOrdered(rank, x)

HeadPlace ==
    IF m_initial_page = NoPage
    THEN LinkedPages = {} /\ m_head = NoBlock /\ m_tail = InvalidBlock
    ELSE PageOf(First) \in LinkedPages /\ \E x \in LinkedPages : Open(x)

\* The tail is in the last page.  Or it is at the end of the page before,
\* which the consumers may have left, with a producer about to move it; or no
\* producer has moved it to the first page.
AdvancesTail(p) == PAt(p, "advance_tail") /\ prod[p].tail = m_tail
TailPlace ==
    /\ \A x \in LinkedPages : Open(x) /\ PageOf(First) = x => First[2] <= TailSlot(x)
    /\ m_tail = InvalidBlock /\ m_initial_page # NoPage => Open(m_initial_page)
    /\ m_tail # InvalidBlock =>
          \/ Open(PageOf(m_tail))
          \/ /\ m_tail[2] = EndSlot
             /\ \E p \in Producers : AdvancesTail(p)
             /\ m_next[m_tail].to # NoBlock => Open(PageOf(m_next[m_tail].to))

\* A page that is not linked yet has no blocks, and one producer has it.
Creates(p) == prod[p].pc \in {"link_page", "discard_page", "init_page", "discard_initial"}
NewPageBlank(p) == Creates(p) =>
    /\ pool[prod[p].new_page] = "queue"
    /\ \A b \in Block : PageOf(b) = prod[p].new_page =>
          m_next[b] = IF b[2] < EndSlot THEN Zero ELSE InvalidNextPage
NewPagesBlank ==
    /\ \A p \in Producers : NewPageBlank(p)
    /\ \A p, q \in Producers : Creates(p) /\ Creates(q) /\ p # q =>
          prod[p].new_page # prod[q].new_page

---------------------------------------------------------------------------
(* Blocks *)

\* The head has not left b behind; and b is not the end of its page.
Live(b) ==
    /\ b \in Block
    /\ PageOf(b) \in LinkedPages
    /\ PageOf(b) = PageOf(First) => First[2] <= b[2]
Inner(b) == Live(b) /\ b[2] < EndSlot

\* A block from b to e: its control word says so, or is about to.
Spans(b, e) == m_next[b].to = e \/ \E p \in Reserving(b) : ReservedEnd(p) = e

\* The blocks of a page do not overlap, those still to be written included;
\* in the last page they end before the tail.
BlockApart(a, e) ==
    /\ SamePage(a, e) /\ a[2] < e[2]
    /\ Open(PageOf(a)) => e[2] <= TailSlot(PageOf(a))
    /\ \A b \in Block : SamePage(a, b) /\ a[2] <= b[2] /\ Inner(b) =>
          \A g \in Block : Spans(b, g) => IF a = b THEN e = g ELSE e[2] <= b[2]
BlocksApart ==
    \A a \in Block : Inner(a) =>
        /\ IsEnd(m_next[a]) => m_next[a] = Zero
        /\ \A e \in Block : Spans(a, e) => BlockApart(a, e)

Stores(p) == prod[p].pc \in {"store", "store_pad"}
ReservationOK(p) == Stores(p) => Inner(prod[p].tail) /\ m_next[prod[p].tail] = Zero
ReservationsOK ==
    /\ \A p \in Producers : ReservationOK(p)
    /\ \A p, q \in Producers : Stores(p) /\ Stores(q) /\ p # q => prod[p].tail # prod[q].tail

\* A consumer that has moved the head past its block and will zero it.
Passed(c) == cons[c].pc \in {"free_external", "zero"}

\* Behind the head, every word is zero but those of the blocks just passed.
LeftBehind ==
    \A b \in Block : ~Live(b) /\ PageOf(b) \notin NewPages /\ m_next[b] # Zero =>
        \E c \in Consumers : Passed(c) /\ cons[c].control = b

---------------------------------------------------------------------------
(* Consumers *)

ConsumerPlaced(c) ==
    LET r == cons[c]
    IN /\ r.pc \in {"advance", "free_external", "zero", "memset", "free_page"} =>
             PageOf(r.control) \notin NewPages /\ IsDead(r.next)
       /\ r.pc = "try_busy" => Consumable(r.next)
       /\ r.pc = "advance" /\ Live(r.control) => m_next[r.control] = r.next
       /\ r.pc \in {"free_external", "zero", "memset", "free_page"} => ~Live(r.control)
       /\ Passed(c) => m_next[r.control] = r.next
       /\ r.pc \in {"free_external", "memset"} => SamePage(r.control, r.next.to)
       /\ r.pc = "free_page" => ~SamePage(r.control, r.next.to)
       /\ r.pc \in {"free_external", "zero", "memset"} /\ SamePage(r.control, r.next.to) =>
             /\ r.control[2] < r.next.to[2]
             /\ PageOf(r.control) = PageOf(First) => r.next.to[2] <= First[2]
       /\ r.pc = "init_head" => r.target \in {NoBlock, FirstBlock(m_initial_page)}
ConsumersPlaced ==
    /\ \A c \in Consumers : ConsumerPlaced(c)
    /\ \A c, d \in Consumers : Passed(c) /\ Passed(d) /\ c # d => cons[c].control # cons[d].control

---------------------------------------------------------------------------
(* Blocks that a thread owns: its word is busy and stays as it is *)

Putting(p) == prod[p].control # NoBlock
Takes(c) == At(c, "consuming")

\* The word of the block that a consumer has taken.
TakenWord(c) == NextWord(cons[c].next.to, (cons[c].next.flags \ {"dead"}) \cup {"busy"})

PutterOwns(p) == Putting(p) =>
    /\ Inner(prod[p].control) /\ m_next[prod[p].control] = prod[p].next
    /\ "busy" \in prod[p].next.flags /\ "dead" \notin prod[p].next.flags
TakerOwns(c) == Takes(c) =>
    /\ Inner(cons[c].control) /\ m_next[cons[c].control] = TakenWord(c)
    /\ "dead" \in cons[c].next.flags /\ "busy" \notin cons[c].next.flags

OwnersOK ==
    /\ \A p \in Producers : PutterOwns(p)
    /\ \A c \in Consumers : TakerOwns(c)
    /\ \A p, q \in Producers : Putting(p) /\ Putting(q) /\ p # q => prod[p].control # prod[q].control
    /\ \A c, d \in Consumers : Takes(c) /\ Takes(d) /\ c # d => cons[c].control # cons[d].control
    /\ \A p \in Producers, c \in Consumers : Putting(p) /\ Takes(c) => prod[p].control # cons[c].control

---------------------------------------------------------------------------
(* Producers *)

\* a comes before b in the queue.
Before(rank, a, b) ==
    \/ rank[PageOf(a)] < rank[PageOf(b)]
    \/ PageOf(a) = PageOf(b) /\ a[2] < b[2]

\* The element of a transaction is allocated first, in a busy block, and the
\* raw blocks, which are dead, after it: the head cannot reach them before
\* the transaction ends.
PutOK(rank, p) ==
    LET r == prod[p]
    IN /\ r.pc = "idle" => ~Putting(p)
       /\ r.pc = "pending" => Putting(p)
       /\ r.pc \notin {"idle", "pending", "fill"} =>
             IF Putting(p) THEN "dead" \in r.flags /\ "busy" \notin r.flags
             ELSE "busy" \in r.flags /\ "dead" \notin r.flags
       /\ r.pc = "fill" =>
             /\ Putting(p) /\ Inner(r.tail)
             /\ m_next[r.tail].to = NewTail(r.tail, r.size)
             /\ r.tail = r.control <=> "dead" \notin r.flags
             /\ r.tail # r.control => IsDead(m_next[r.tail])
       /\ r.pc \in {"store", "fill"} /\ Putting(p) /\ r.tail # r.control =>
             Before(rank, r.control, r.tail)
PutsOK(rank) == \A p \in Producers : PutOK(rank, p)

\* A producer whose tail is the end of a page has the page pinned, and after
\* the second read of m_tail the tail is there or will never be again.
CreationPlaced(p) ==
    LET r == prod[p]
    IN /\ r.pinned # NoPage => <<p, "end_block">> \in pinners[r.pinned]
       /\ r.pc \in {"recheck", "create_page", "link_page", "discard_page", "advance_tail"} =>
             r.tail \in Block /\ r.tail[2] = EndSlot /\ r.pinned = PageOf(r.tail)
       /\ r.pc \in {"create_page", "link_page", "discard_page", "advance_tail"} =>
             /\ PageOf(r.tail) \notin NewPages
             /\ Open(PageOf(r.tail)) => m_tail = r.tail
       /\ r.pc = "advance_tail" /\ r.tail = m_tail =>
             Open(r.new_page) /\ r.new_page # PageOf(m_tail)
       /\ r.pc = "discard_page" /\ r.tail = m_tail /\ r.found # NoBlock =>
             Open(PageOf(r.found)) /\ PageOf(r.found) # PageOf(m_tail)
       /\ r.pc = "discard_initial" => r.found = FirstBlock(m_initial_page)
       /\ r.pc = "init_tail" => r.new_page = m_initial_page
CreationOK == \A p \in Producers : CreationPlaced(p)

---------------------------------------------------------------------------
(* Contents *)

\* The slot x lies in a block from a to e.
Between(a, x, e) == SamePage(a, x) /\ SamePage(a, e) /\ a[2] <= x[2] /\ x[2] < e[2]

\* What has been written in a block is wiped after the head has left it.
InBlock(x) == \E b \in Block : Inner(b) /\ Between(b, x, m_next[b].to)
Wipes(c) == cons[c].pc \in {"free_external", "zero", "memset"}
BeingWiped(x) == \E c \in Consumers : Wipes(c) /\ Between(cons[c].control, x, cons[c].next.to)
ContentsWiped == \A x \in Block : content[x] # NoItem => InBlock(x) \/ BeingWiped(x)

\* A block that can be consumed, or that a consumer has taken, holds the
\* element the history says, and no two blocks hold the same.
ReadyBlock(b) ==
    Inner(b) /\ m_next[b].to \in Block /\ m_next[b].flags \cap {"busy", "dead"} = {}
Holds(b, s) ==
    content[b] \in Item /\ content[b][3] = 0 /\ status[ElementOf(content[b])] = s
PutElementOK(p) ==
    /\ Putting(p) => status[Current(p)] = "putting"
    /\ Putting(p) /\ ~(PAt(p, "fill") /\ prod[p].tail = prod[p].control) =>
          content[prod[p].control] = <<p, prod[p].puts, 0>>
    /\ ~PAt(p, "idle") /\ ~Putting(p) => status[Current(p)] = "none"
    /\ \A k \in 1 .. MaxPuts : k > prod[p].puts => status[<<p, k>>] = "none"
ElementsOK ==
    /\ \A p \in Producers : PutElementOK(p)
    /\ \A b \in Block : ReadyBlock(b) => Holds(b, "ready")
    /\ \A c \in Consumers : Takes(c) => Holds(cons[c].control, "consuming")
    /\ \A a, b \in Block : ReadyBlock(a) /\ ReadyBlock(b) /\ a # b => content[a] # content[b]
    /\ \A c, d \in Consumers : Takes(c) /\ Takes(d) /\ c # d =>
          content[cons[c].control] # content[cons[d].control]

---------------------------------------------------------------------------

Ordered(rank) ==
    /\ PagesOrdered(rank) /\ HeadPlace /\ TailPlace /\ NewPagesBlank
    /\ BlocksApart /\ ReservationsOK /\ LeftBehind
    /\ ConsumersPlaced /\ OwnersOK /\ PutsOK(rank) /\ CreationOK
    /\ ContentsWiped /\ ElementsOK

---------------------------------------------------------------------------
(* Nothing is missing: with the order above, what the chain of blocks from *)
(* the head must pass through.                                             *)

\* A block begins at b: the first of the queue, the first of a page, or the
\* one after another.
Begins(b) == b = First \/ b[2] = 0 \/ \E a \in Block : Inner(a) /\ Spans(a, b)

\* Where a block may begin there is one, or the tail.
Tiled ==
    \A b \in Block : Inner(b) /\ Begins(b) =>
        \/ \E e \in Block : Spans(b, e)
        \/ Open(PageOf(b)) /\ b[2] = TailSlot(PageOf(b))

\* An element that is committed has a block, an element that is being
\* consumed is in the hands of a consumer.
ElementLocated(e) ==
    /\ status[e] = "ready" =>
          \E b \in Block : ReadyBlock(b) /\ content[b] = <<e[1], e[2], 0>>
    /\ status[e] = "consuming" =>
          \E c \in Consumers : Takes(c) /\ content[cons[c].control] = <<e[1], e[2], 0>>
Located == \A e \in Element : ElementLocated(e)

\* A page that the head has left is given back by one consumer.
Leaves(c) ==
    cons[c].pc \in {"zero", "free_page"} /\ ~SamePage(cons[c].control, cons[c].next.to)
LeftApart ==
    /\ \A c \in Consumers : Leaves(c) => pool[PageOf(cons[c].control)] = "queue"
    /\ \A c, d \in Consumers : Leaves(c) /\ Leaves(d) /\ c # d =>
          ~SamePage(cons[c].control, cons[d].control)

\* Only a word that names no block says that there is no next page yet.
LinksValid ==
    /\ \A b \in Block : m_next[b].to # NoBlock => "invalid_next_page" \notin m_next[b].flags
    /\ \A p \in Producers : "invalid_next_page" \notin prod[p].flags

NothingMissing == Tiled /\ Located /\ LeftApart /\ LinksValid

---------------------------------------------------------------------------
(* External blocks *)

\* The block b stands for an external block, whose item fills it or will: it
\* is in the queue, or the consumer that has moved the head past it will
\* free the external block.
HasExternal(b) ==
    \/ Inner(b) /\ "external" \in m_next[b].flags
    \/ \E c \in Consumers : At(c, "free_external") /\ cons[c].control = b

\* The allocation of producer p has an external block.
Asks(p) == "external" \in prod[p].flags

\* x was allocated before what its producer allocates now, or will.
Earlier(x) ==
    LET r == prod[x[1]]
    IN /\ x \in Item /\ x[2] <= r.puts
       /\ x[2] = r.puts /\ r.pc # "idle" => x[3] <= r.raws
       /\ Allocates(x[1]) => x # Allocating(x[1])

\* What is allocated in the heap is what these blocks and producers have.
Held == {content[b] : b \in {a \in Block : HasExternal(a)}} \ {NoItem}
Asked == {Allocating(p) : p \in {q \in Producers : Asks(q)}}
HeapOwned == heap = Held \cup Asked

\* A block that is not filled yet is being filled; no two have the same item.
ItemsApart ==
    /\ \A b \in Block : HasExternal(b) =>
          IF content[b] = NoItem THEN \E p \in Producers : PAt(p, "fill") /\ prod[p].tail = b
          ELSE Earlier(content[b])
    /\ \A a, b \in Block : HasExternal(a) /\ HasExternal(b) /\ content[a] = content[b] =>
          a = b \/ content[a] = NoItem

AskerOK(p) ==
    /\ Asks(p) => Allocates(p)
    /\ PAt(p, "fill") =>
          /\ Asks(p) <=> HasExternal(prod[p].tail)
          /\ Asks(p) => content[prod[p].tail] = NoItem
AskersOK ==
    /\ \A p \in Producers : AskerOK(p)
    /\ \A p, q \in Producers : PAt(p, "fill") /\ PAt(q, "fill") /\ p # q =>
          prod[p].tail # prod[q].tail

\* The end of a page stands for no external block; and what a consumer is
\* about to free is not wiped by another.
ExternalsPlaced ==
    /\ \A b \in Block : "external" \in m_next[b].flags => b[2] < EndSlot
    /\ \A c, d \in Consumers : At(c, "free_external") /\ Wipes(d) /\ c # d =>
          ~Between(cons[d].control, cons[c].control, cons[d].next.to)

ExternalsOK == HeapOwned /\ ItemsApart /\ AskersOK /\ ExternalsPlaced
==========================================================================
