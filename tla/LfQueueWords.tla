--------------------------- MODULE LfQueueWords ---------------------------
(***************************************************************************)
(* Who writes which control word of the sequentially consistent queue: the *)
(* inductive invariant behind what a producer finds in the block it has    *)
(* reserved, and what a consumer keeps of the block it has taken.          *)
(*                                                                         *)
(* Pages are not given back zeroed and the queue takes zeroed ones only,   *)
(* so the control word of a block is written once from zero on, and the    *)
(* tail never comes back to a page: nothing is said of the head.           *)
(***************************************************************************)
EXTENDS LfQueueSeqCst, LfQueueOrder

---------------------------------------------------------------------------
(* Blocks that nobody has reserved yet *)

InPage(b) == b \in Block /\ b[2] < EndSlot
Clear(b) == m_next[b] = Zero /\ Reserving(b) = {}

\* A page that the tail has not entered: no block, and no page linked to it.
Blank(x) ==
    /\ \A b \in Block : PageOf(b) = x /\ b[2] < EndSlot => Clear(b)
    /\ m_next[End(x)].to = NoBlock

\* A page of the allocator's, or created by a producer that has not linked it.
Spare(x) == pool[x] = "zeroed" \/ \E p \in Producers : Creates(p) /\ prod[p].new_page = x

\* A page where the tail can go next.
Enterable(x) == x \in Pages /\ Blank(x) /\ ~Spare(x) /\ x # PageOf(m_tail)

SparesBlank ==
    /\ \A x \in Pages : Spare(x) => Blank(x)
    /\ \A p \in Producers : Creates(p) => pool[prod[p].new_page] # "zeroed"
    /\ \A p, q \in Producers : Creates(p) /\ Creates(q) /\ p # q =>
          prod[p].new_page # prod[q].new_page

\* From the tail on, its page is clear, and no page is linked to it before the
\* tail is at its end.
TailPage(x) ==
    /\ ~Spare(x)
    /\ \A b \in Block : /\ PageOf(b) = x /\ m_tail[2] <= b[2] /\ b[2] < EndSlot
                        /\ b = m_tail => m_rest = 0
                        => Clear(b)
    /\ m_tail[2] > 0 => ~Clear(FirstBlock(x))
    /\ IF m_tail[2] < EndSlot
       THEN m_next[End(x)].to = NoBlock
       ELSE m_next[m_tail].to # NoBlock =>
              \E y \in Pages : m_next[m_tail].to = FirstBlock(y) /\ Enterable(y)

TailEnds ==
    /\ m_tail \in Block => TailPage(PageOf(m_tail))
    /\ m_tail = InvalidBlock /\ m_initial_page # NoPage => Enterable(m_initial_page)
    /\ m_initial_page = NoPage => m_tail = InvalidBlock

---------------------------------------------------------------------------
(* Reservations in progress *)

\* A reservation of n slots at b that has been seen in progress: unless the
\* control word is there, the producer that reserved it is about to write it.
Pending(b, n) ==
    /\ InPage(b) /\ n # 0
    /\ m_next[b] = Zero => \E p \in Reserving(b) : ReservedEnd(p) = NewTail(b, n)

TailPending == m_rest # 0 => Pending(m_tail, m_rest)

Saw(p) ==
    \/ prod[p].pc \in {"unpin_helped", "help_recheck", "help_store", "help_tail"}
    \/ prod[p].pc \in {"try", "unpin_end"} /\ prod[p].rest # 0
HelpersOK == \A p \in Producers : Saw(p) => Pending(prod[p].tail, prod[p].rest)

\* The word of a reserved block is zero or what a helper has written.
StorerOK(p) == Stores(p) =>
    /\ InPage(prod[p].tail)
    /\ m_next[prod[p].tail] \in {Zero, NextWord(ReservedEnd(p), {"busy"})}
    /\ ReservedEnd(p) \in Block /\ SamePage(prod[p].tail, ReservedEnd(p))
    /\ prod[p].tail[2] < ReservedEnd(p)[2]
StoredOK(p) == prod[p].pc \in {"settle", "settle_pad"} =>
    InPage(prod[p].tail) /\ m_next[prod[p].tail] # Zero

---------------------------------------------------------------------------
(* Blocks that a thread owns: nobody else writes their words *)

PutterHas(p) == Putting(p) =>
    /\ InPage(prod[p].control) /\ m_next[prod[p].control] = prod[p].next
    /\ "busy" \in prod[p].next.flags /\ "dead" \notin prod[p].next.flags
TakerHas(c) == Takes(c) =>
    /\ InPage(cons[c].control) /\ m_next[cons[c].control] = TakenWord(c)
    /\ "dead" \in cons[c].next.flags /\ "busy" \notin cons[c].next.flags

OwnersApart ==
    /\ \A p, q \in Producers : Stores(p) /\ Stores(q) /\ p # q => prod[p].tail # prod[q].tail
    /\ \A p, q \in Producers : Stores(p) /\ Putting(q) => prod[p].tail # prod[q].control
    /\ \A p \in Producers, c \in Consumers : Stores(p) /\ Takes(c) => prod[p].tail # cons[c].control
    /\ \A p, q \in Producers : Putting(p) /\ Putting(q) /\ p # q => prod[p].control # prod[q].control
    /\ \A p \in Producers, c \in Consumers : Putting(p) /\ Takes(c) => prod[p].control # cons[c].control
    /\ \A c, d \in Consumers : Takes(c) /\ Takes(d) /\ c # d => cons[c].control # cons[d].control

\* The element of a transaction is allocated first, in a busy block, and then
\* the raw blocks, which are dead.
PutterFlags(p) ==
    LET r == prod[p]
    IN /\ r.pc = "idle" => ~Putting(p)
       /\ r.pc \in {"pending", "settle", "fill"} => Putting(p)
       /\ r.pc \notin {"idle", "pending", "settle", "fill"} =>
             IF Putting(p) THEN "dead" \in r.flags /\ "busy" \notin r.flags
             ELSE "busy" \in r.flags /\ "dead" \notin r.flags

---------------------------------------------------------------------------
(* Where the words lead, and what the threads know of it *)

\* A block ends in its page, and the word at the end of a page links another.
WordsLead ==
    \A b \in Block :
        /\ b[2] < EndSlot => m_next[b] = Zero \/ (m_next[b].to \in Block /\ SamePage(b, m_next[b].to))
        /\ b[2] = EndSlot /\ m_next[b].to # NoBlock => "dead" \in m_next[b].flags

ConsumerKnows(c) ==
    LET r == cons[c]
    IN /\ r.pc \in {"try_busy", "advance", "free_external", "consuming"} /\ r.control[2] < EndSlot =>
             SamePage(r.control, r.next.to)
       /\ r.pc = "zero" => r.control[2] = EndSlot /\ ~SamePage(r.control, r.next.to)
       /\ r.pc # "memset"
       /\ r.pc = "try_busy" => Consumable(r.next)

\* A producer at the end of a page: the tail is there or has left the page.
Gone(x) == ~Clear(FirstBlock(x)) /\ x # PageOf(m_tail)
CreatorKnows(p) ==
    LET r == prod[p]
    IN /\ r.pc \in {"recheck", "create_page", "link_page", "discard_page", "advance_tail"} =>
             r.tail \in Block /\ r.tail[2] = EndSlot
       /\ r.pc \in {"create_page", "link_page", "discard_page", "advance_tail"} =>
             r.tail = m_tail \/ Gone(PageOf(r.tail))
       /\ r.pc = "advance_tail" /\ r.tail = m_tail => Enterable(r.new_page)
       /\ r.pc = "discard_page" /\ r.tail = m_tail /\ r.found # NoBlock =>
             \E y \in Pages : r.found = FirstBlock(y) /\ Enterable(y)
       /\ r.pc = "discard_initial" => r.found = FirstBlock(m_initial_page)
       /\ r.pc = "init_tail" => r.new_page = m_initial_page
       /\ r.pc \in {"discard_initial", "init_tail"} => m_initial_page # NoPage

---------------------------------------------------------------------------

WordsInv ==
    /\ SparesBlank /\ TailEnds /\ TailPending /\ HelpersOK /\ WordsLead /\ OwnersApart
    /\ \A p \in Producers : StorerOK(p) /\ StoredOK(p) /\ PutterHas(p) /\ PutterFlags(p) /\ CreatorKnows(p)
    /\ \A c \in Consumers : TakerHas(c) /\ ConsumerKnows(c)

\* Unless a compare-exchange fails without a cause, a helper writes the word
\* before it moves the tail, so a reserved block without a word is at the tail.
ReservedAtTail ==
    ~SpuriousFailures =>
        /\ \A p \in Producers : PAt(p, "help_tail") => m_next[prod[p].tail] # Zero
        /\ \A p \in Producers : Stores(p) /\ m_next[prod[p].tail] = Zero => prod[p].tail = m_tail
==========================================================================
