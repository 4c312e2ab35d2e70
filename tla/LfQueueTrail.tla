--------------------------- MODULE LfQueueTrail ---------------------------
(***************************************************************************)
(* The inductive invariant of the queues with a single-threaded or a       *)
(* spin-locking side.  One producer at a time moves the tail, so that the  *)
(* blocks the tail has been at since the queue is there form one sequence, *)
(* the trail.  The head follows it.  Pages are not zeroed: what the words  *)
(* of a page mean is said of the blocks of its last life only.             *)
(***************************************************************************)
EXTENDS LfQueueSingle

\* The blocks in the order they were appended, the last of which is at the
\* tail; where the head is; and where the last life of each page begins.
Trail == [at : [Nat -> Block], base : [Pages -> Nat], head : Nat, last : Nat]

Index(w) == 1 .. w.last
Live(w) == w.head .. w.last
Written(w) == w.head .. (w.last - 1)
In(w, i, x) == PageOf(w.at[i]) = x
Continues(w, i) == SamePage(w.at[i], w.at[i + 1])

\* A page that is not linked yet, and one that a consumer has left and will
\* give back.
New(x) == \E p \in Producers : prod[p].pc \in {"link_page", "init_page"} /\ prod[p].new_page = x
Leaves(c) ==
    cons[c].pc \in {"zero", "free_page"} /\ ~SamePage(cons[c].control, cons[c].next.to)

\* The i-th block belongs to the last life of its page.
Valid(w, i) ==
    /\ i \in Index(w)
    /\ w.base[PageOf(w.at[i])] <= i
    /\ ~New(PageOf(w.at[i]))

---------------------------------------------------------------------------
(* The trail *)

EndsOK(w) ==
    IF w.last = 0
    THEN w.head = 1 /\ m_tail = InvalidBlock /\ m_initial_page = NoPage /\ m_head = NoBlock
    ELSE /\ w.head \in Index(w) /\ m_tail = w.at[w.last] /\ m_initial_page # NoPage
         /\ m_head = NoBlock => w.head = 1 /\ w.at[1] = FirstBlock(m_initial_page)
         /\ m_head # NoBlock => m_head = w.at[w.head]

\* A page is entered at its first block, and blocks do not overlap.
StepsOK(w) ==
    \A i \in 1 .. (w.last - 1) :
        IF Continues(w, i) THEN w.at[i][2] < w.at[i + 1][2] ELSE w.at[i + 1][2] = 0

\* In its last life a page is not left and entered again.
LivesOK(w) ==
    /\ \A i \in Index(w) :
        LET x == PageOf(w.at[i])
        IN w.base[x] \in Index(w) /\ w.at[w.base[x]] = FirstBlock(x)
    /\ \A i, j \in Index(w) :
          i < j /\ w.base[PageOf(w.at[i])] <= i /\ SamePage(w.at[i], w.at[j]) =>
             /\ w.at[i][2] < w.at[j][2]
             /\ \A k \in i .. j : SamePage(w.at[i], w.at[k])
    /\ \A i \in Live(w) : Valid(w, i)

---------------------------------------------------------------------------
(* Words *)

WrittenWord(w, i) ==
    /\ m_next[w.at[i]].to = w.at[i + 1]
    /\ ~Continues(w, i) => m_next[w.at[i]].flags = {"dead"}

\* Many consumers may still be in a page that the head has left.
PassedWord(w, i) ==
    \/ m_next[w.at[i]].to = w.at[i + 1] /\ IsDead(m_next[w.at[i]])
    \/ ~Continues(w, i) /\ m_next[w.at[i]] = Zero

\* With the spin lock, the word at the end of a page is there from the start.
EndClear(x) == put = "spin" => IsEnd(m_next[EndBlock(FirstBlock(x))])

WordsTrail(w) ==
    /\ \A i \in Written(w) : WrittenWord(w, i)
    /\ consume = "multiple" => \A i \in 1 .. (w.head - 1) : Valid(w, i) => PassedWord(w, i)
    /\ w.last > 0 => IsEnd(m_next[m_tail])
    /\ w.last > 0 /\ m_tail[2] < EndSlot => EndClear(PageOf(m_tail))
    /\ \A x \in Pages : New(x) => m_next[FirstBlock(x)] = Zero /\ EndClear(x)

---------------------------------------------------------------------------
(* Pages *)

PagesHeld(w) ==
    /\ \A x \in Pages : pool[x] = "queue" <=>
          \/ \E i \in Live(w) : In(w, i, x)
          \/ New(x)
          \/ \E c \in Consumers : Leaves(c) /\ PageOf(cons[c].control) = x
    /\ \A c, d \in Consumers : Leaves(c) /\ Leaves(d) /\ c # d =>
          ~SamePage(cons[c].control, cons[d].control)

\* Only consumers pin, the page they are in and the one they enter.
PinsHeld ==
    /\ consume = "single" => \A x \in Pages : pinners[x] = {}
    /\ \A x \in Pages : \A h \in pinners[x] :
        /\ h \in Consumers /\ cons[h].control # NoBlock
        /\ \/ PageOf(cons[h].control) = x
           \/ /\ cons[h].pc \in {"unpin_old", "reread", "unpin_left", "unpin_left_restart"}
              /\ PageOf(cons[h].target) = x

---------------------------------------------------------------------------
(* Producers *)

Putting(p) == prod[p].control # NoBlock

\* One producer at a time is in the allocation.
AloneInside ==
    /\ put = "spin" => LockHeldInside
    /\ put = "single" => \A p, q \in Producers :
          \/ p = q
          \/ prod[p].pc \in {"idle", "fill", "pending"}
          \/ prod[q].pc \in {"idle", "fill", "pending"}

AllocationOK(p) ==
    LET r == prod[p]
    IN /\ r.pc \in {"idle", "load_tail", "try", "store", "settle", "fill", "link_page",
                    "init_page", "give_up", "pending"}
       /\ r.pc # "idle" => r.puts \in 1 .. MaxPuts
       /\ r.pc \notin {"idle", "pending"} => r.size > 0
       /\ r.pc \in {"link_page", "init_page"} => r.new_page \in Pages
       /\ r.pc = "settle" => put = "spin"
       /\ r.pc \in {"try", "store", "link_page", "init_page"} => r.tail = m_tail
       /\ r.pc \in {"store", "link_page"} => m_tail \in Block
       /\ r.pc = "store" => m_tail[2] + r.size <= EndSlot /\ m_next[ReservedEnd(p)] = Zero
       /\ r.pc = "init_page" => m_tail = InvalidBlock
       /\ r.pc = "idle" => ~Putting(p)
       /\ r.pc \in {"settle", "fill", "pending"} => Putting(p)
       /\ r.pc \notin {"idle", "pending", "settle", "fill"} =>
             IF Putting(p) THEN "dead" \in r.flags /\ "busy" \notin r.flags
             ELSE "busy" \in r.flags /\ "dead" \notin r.flags

\* A pending put owns the word of its element; a raw block comes after it.
PutterOK(w, p) ==
    LET r == prod[p]
    IN Putting(p) =>
       \E i \in Written(w) :
          /\ w.at[i] = r.control /\ Continues(w, i)
          /\ m_next[r.control] = r.next /\ "busy" \in r.next.flags /\ "dead" \notin r.next.flags
          /\ r.pc \in {"settle", "fill"} =>
               \E j \in i .. (w.last - 1) :
                  /\ w.at[j] = r.tail /\ w.at[j + 1] = NewTail(r.tail, r.size)
                  /\ j = i <=> "dead" \notin r.flags
                  /\ j # i => IsDead(m_next[r.tail])

PuttersOK(w) ==
    /\ \A p \in Producers : AllocationOK(p) /\ PutterOK(w, p)
    /\ \A p, q \in Producers : Putting(p) /\ Putting(q) /\ p # q => prod[p].control # prod[q].control

---------------------------------------------------------------------------
(* Consumers *)

\* The word of the block that a consumer has taken.
Takes(c) == At(c, "consuming")
TakenWord(c) == NextWord(cons[c].next.to, (cons[c].next.flags \ {"dead"}) \cup {"busy"})
TakerOK(w, c) == Takes(c) =>
    \E i \in Written(w) :
        /\ w.at[i] = cons[c].control /\ cons[c].next.to = w.at[i + 1] /\ Continues(w, i)
        /\ m_next[cons[c].control] = TakenWord(c)
        /\ "dead" \in cons[c].next.flags /\ "busy" \notin cons[c].next.flags

\* The Consume is in the i-th block, which is of the last life of its page.
Placed(w, c, i) ==
    Valid(w, i) /\ i < w.last /\ w.at[i] = cons[c].control /\ cons[c].next.to = w.at[i + 1]

\* What is read of a block that the head may have left.
ManyPlaced(w, c) ==
    LET r == cons[c]
    IN /\ r.pc = "init_head" => r.target \in {NoBlock, FirstBlock(m_initial_page)}
       /\ r.pc = "load_head_next" => \E i \in Index(w) : Valid(w, i) /\ w.at[i] = r.target
       /\ r.pc = "try_busy" => Consumable(r.next) /\ \E i \in Index(w) : Placed(w, c, i)
       /\ r.pc = "advance" =>
             /\ IsDead(r.next)
             /\ \E i \in Index(w) : Placed(w, c, i) /\ (i >= w.head => m_next[r.control] = r.next)
       /\ r.pc = "free_external" =>
             \E i \in Index(w) : Placed(w, c, i) /\ i < w.head /\ Continues(w, i)
       /\ r.pc \in {"zero", "free_page"} =>
             \E i \in Index(w) : Placed(w, c, i) /\ i < w.head /\ ~Continues(w, i)
       /\ r.pc = "move" => \E i \in Index(w) : Placed(w, c, i)
       /\ r.pc \in {"reread", "unpin_left", "unpin_left_restart"} =>
             r.target[2] = 0 /\ \E i \in Index(w) : w.at[i] = r.target
       /\ r.pc = "load_next" => r.control[2] = 0 /\ \E i \in Index(w) : w.at[i] = r.control
       /\ r.pc # "memset"

\* A single consumer is where the head is or further, but for the page that it
\* has just left.
OnePlaced(w, c) ==
    LET r == cons[c]
    IN /\ r.pc \in {"idle", "begin", "try_busy", "advance", "free_page", "move", "nothing",
                    "found", "consuming"}
       /\ r.pc = "idle" => r.control = NoBlock
       /\ r.pc \in {"try_busy", "advance"} =>
             m_next[r.control] = r.next /\ \E i \in Written(w) : Placed(w, c, i)
       /\ r.pc = "try_busy" => Consumable(r.next)
       /\ r.pc = "advance" => IsDead(r.next)
       /\ r.pc = "free_page" => Placed(w, c, w.head - 1) /\ ~Continues(w, w.head - 1)
       /\ r.pc = "move" => \E i \in Live(w) : r.next.to = w.at[i]

TakersOK(w) ==
    /\ \A c \in Consumers : TakerOK(w, c)
    /\ \A c, d \in Consumers : Takes(c) /\ Takes(d) /\ c # d => cons[c].control # cons[d].control
    /\ \A p \in Producers, c \in Consumers : Putting(p) /\ Takes(c) => prod[p].control # cons[c].control
    /\ consume = "multiple" => \A c \in Consumers : ManyPlaced(w, c)
    /\ consume = "single" =>
          /\ \A c \in Consumers : OnePlaced(w, c)
          /\ \A c, d \in Consumers :
               c = d \/ cons[c].pc \in {"idle", "consuming"} \/ cons[d].pc \in {"idle", "consuming"}

---------------------------------------------------------------------------
(* Elements *)

\* What the producer has said of the element it is putting.
PutElementOK(p) ==
    /\ Putting(p) => status[Current(p)] = "putting"
    /\ Putting(p) /\ ~(prod[p].pc \in {"settle", "fill"} /\ prod[p].tail = prod[p].control) =>
          content[prod[p].control] = <<p, prod[p].puts, 0>>
    /\ ~PAt(p, "idle") /\ ~Putting(p) => status[Current(p)] = "none"
    /\ \A k \in 1 .. MaxPuts : k > prod[p].puts => status[<<p, k>>] = "none"

\* The types; and what the steps of the layers for many keep of their own.
TypesTrail ==
    /\ TypeOK /\ WordsOK
    /\ consume = "multiple" => ConsumersOK /\ ControlPinned
    /\ put \in {"single", "spin"} /\ consume \in {"single", "multiple"} /\ alive \in BOOLEAN
============================================================================
