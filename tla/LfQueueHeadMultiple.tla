----------------------- MODULE LfQueueHeadMultiple -----------------------
(***************************************************************************)
(* The consume layer for many consumers (detail/lf_queue_head_multiple.h). *)
(* Each consumer owns one Consume object.  A step is one atomic access to  *)
(* the queue or the allocator, and the local computation that follows it.  *)
(***************************************************************************)
EXTENDS LfQueueBase

CONSTANT
    Outcomes        \* what a consumer may do with an element: commit, cancel

ASSUME HeadAssumption == Outcomes \subseteq {"commit", "cancel"}

VARIABLES
    m_head,         \* first block of the queue, null until a consumer sets it
    cons,           \* the Consume objects and where their owners are
    sawEmpty,       \* history: consumers during whose call there was a moment
                    \* with no ready element
    waiting         \* history: the elements that have been ready all along
                    \* the call of each consumer

history == <<sawEmpty, waiting>>
headVars == <<m_head, cons, history>>

---------------------------------------------------------------------------
(* A Consume: m_control and m_next_ptr; target is the block a traversal is *)
(* about to enter, pc and mode say which function is running.              *)

Mode == {"consume", "empty", "clean"}
ConsumerPC == {"idle", "begin", "reload_head", "initial_page", "init_head", "pin_head",
               "unpin_old", "load_head_next", "nothing", "found", "try_busy",
               "advance", "free_external", "zero", "memset", "free_page",
               "move", "reread", "unpin_left", "unpin_left_restart",
               "load_next", "consuming"}

Consume == [pc : ConsumerPC, mode : Mode, control : BlockOrNull,
            next : NextPtr, target : BlockOrNull]

NewConsume == [pc |-> "idle", mode |-> "consume", control |-> NoBlock,
               next |-> Zero, target |-> NoBlock]

\* Where each loop goes once m_next_ptr has been read: the loops of
\* start_consume_impl, is_queue_empty and clean_dead_elements.
AfterLoad(mode, n) ==
    CASE mode = "consume" -> IF IsEnd(n) THEN "nothing"
                             ELSE IF Consumable(n) THEN "try_busy"
                             ELSE IF IsDead(n) THEN "advance"
                             ELSE "move"
      [] mode = "empty"   -> IF IsEnd(n) THEN "nothing"
                             ELSE IF Consumable(n) THEN "found"
                             ELSE "move"
      [] mode = "clean"   -> IF IsDead(n) THEN "advance" ELSE "idle"

At(c, pc) == cons[c].pc = pc
Goto(c, pc) == cons' = [cons EXCEPT ![c].pc = pc]

\* m_control and m_next_ptr take new values.  When clean_dead_elements ends,
\* commit_consume_impl resets m_next_ptr.
Enter(c, b, n) ==
    LET to == AfterLoad(cons[c].mode, n)
    IN cons' = [cons EXCEPT ![c].pc = to, ![c].control = b, ![c].target = NoBlock,
                            ![c].next = IF to = "idle" THEN Zero ELSE n]

Searching == {c \in Consumers : cons[c].mode # "clean"
                                /\ cons[c].pc \notin {"idle", "consuming"}}
Ready == {e \in Element : status[e] = "ready"}

---------------------------------------------------------------------------
(* begin_iteration and init_head *)

\* try_start_consume and empty() on a Consume that holds no element; it may
\* still have the page of an earlier operation pinned.  empty() works on a
\* Consume of its own.
Start(c, mode) ==
    /\ At(c, "idle")
    /\ "empty" \in {mode, cons[c].mode} => cons[c].control = NoBlock
    /\ cons' = [cons EXCEPT ![c].pc = "begin", ![c].mode = mode]
    /\ sawEmpty' = IF Ready = {} THEN sawEmpty \cup {c} ELSE sawEmpty \ {c}
    /\ waiting' = [waiting EXCEPT ![c] = Ready]
    /\ UNCHANGED <<baseVars, m_head>>

\* Mutant: the page is pinned again even if it is the one already pinned.
FollowHeadAgain(c, head) ==
    cons' = [cons EXCEPT ![c].target = head, ![c].pc = "pin_head"]

\* With head in hand: read its m_next if its page is pinned, else pin it.
FollowHead(c, head) ==
    cons' = [cons EXCEPT ![c].target = head,
                         ![c].pc = IF SamePage(cons[c].control, head)
                                   THEN "load_head_next" ELSE "pin_head"]

LoadHead(c) ==
    /\ At(c, "begin")
    /\ IF m_head = NoBlock THEN Goto(c, "reload_head") ELSE FollowHead(c, m_head)
    /\ UNCHANGED <<baseVars, m_head, history>>

\* init_head loads it once more.
ReloadHead(c) ==
    /\ At(c, "reload_head")
    /\ IF m_head = NoBlock THEN Goto(c, "initial_page") ELSE FollowHead(c, m_head)
    /\ UNCHANGED <<baseVars, m_head, history>>

LoadInitialPage(c) ==
    /\ At(c, "initial_page")
    /\ cons' = [cons EXCEPT ![c].pc = "init_head",
                            ![c].target = FirstBlock(m_initial_page)]
    /\ UNCHANGED <<baseVars, m_head, history>>

\* Mutant: m_head is stored, not compared and exchanged.
InitHeadStore(c) ==
    /\ At(c, "init_head")
    /\ m_head' = cons[c].target
    /\ IF m_head' = NoBlock
       THEN Enter(c, cons[c].control, Zero)
       ELSE FollowHead(c, m_head')
    /\ UNCHANGED <<baseVars, history>>

InitHead(c) ==
    /\ At(c, "init_head")
    /\ m_head' = IF m_head = NoBlock THEN cons[c].target ELSE m_head
    /\ IF m_head' = NoBlock
       THEN Enter(c, cons[c].control, Zero)
       ELSE FollowHead(c, m_head')
    /\ UNCHANGED <<baseVars, history>>

PinHead(c) ==
    /\ At(c, "pin_head")
    /\ Pin(c, PageOf(cons[c].target))
    /\ IF cons[c].control = NoBlock
       THEN cons' = [cons EXCEPT ![c].pc = "begin", ![c].control = cons[c].target,
                                 ![c].target = NoBlock]
       ELSE Goto(c, "unpin_old")
    /\ UNCHANGED <<m_next, content, pool, heap, m_initial_page, status, m_head, history>>

\* The head is read again after the pin: back to "begin".
UnpinOld(c) ==
    /\ At(c, "unpin_old")
    /\ Unpin(c, PageOf(cons[c].control))
    /\ cons' = [cons EXCEPT ![c].pc = "begin", ![c].control = cons[c].target,
                            ![c].target = NoBlock]
    /\ UNCHANGED <<m_next, content, pool, heap, m_initial_page, status, m_head, history>>

LoadHeadNext(c) ==
    /\ At(c, "load_head_next")
    /\ Enter(c, cons[c].target, m_next[cons[c].target])
    /\ UNCHANGED <<baseVars, m_head, history>>

---------------------------------------------------------------------------
(* start_consume_impl *)

\* The CAS that sets the busy flag.  If it fails m_next_ptr has the value
\* found: zero restarts the iteration, anything else is passed over.
TryBusy(c) ==
    /\ At(c, "try_busy")
    /\ LET b == cons[c].control
           n == cons[c].next
       IN IF m_next[b] = n
          THEN /\ m_next' = [m_next EXCEPT ![b].flags = @ \cup {"busy"}]
               /\ cons' = [cons EXCEPT ![c].pc = "consuming",
                                       ![c].next.flags = @ \cup {"dead"}]
               /\ status' = [status EXCEPT ![ElementOf(content[b])] = "consuming"]
               /\ sawEmpty' = (IF Ready' = {} THEN Searching ELSE sawEmpty) \ {c}
               /\ waiting' = [d \in Consumers |->
                                IF d = c THEN {} ELSE waiting[d] \cap Ready']
          ELSE /\ cons' = [cons EXCEPT ![c].next = m_next[b],
                                       ![c].pc = IF IsEnd(m_next[b]) THEN "begin" ELSE "move"]
               /\ UNCHANGED <<m_next, status, history>>
    /\ UNCHANGED <<content, pool, pinners, heap, m_initial_page, m_head>>

\* The operation ends: no element found, or empty() saw one.
Return(c) ==
    /\ cons[c].pc \in {"nothing", "found"}
    /\ cons' = [cons EXCEPT ![c].pc = "idle", ![c].next = Zero]
    /\ sawEmpty' = sawEmpty \ {c}
    /\ waiting' = [waiting EXCEPT ![c] = {}]
    /\ UNCHANGED <<baseVars, m_head>>

---------------------------------------------------------------------------
(* advance_head *)

\* A block left behind is zeroed if pages are to be freed zeroed; the end
\* block of a page always is.
\* Mutant: only end blocks are zeroed.
AfterAdvanceKeeps(b, n) == IF SamePage(b, n.to) THEN "move" ELSE "zero"
AfterAdvance(b, n) == IF SamePage(b, n.to) /\ ~ZeroedPages THEN "move" ELSE "zero"

AdvanceHead(c) ==
    /\ At(c, "advance")
    /\ LET b == cons[c].control
           n == cons[c].next
       IN IF m_head = b
          THEN /\ m_head' = n.to
               /\ Goto(c, IF "external" \in n.flags THEN "free_external"
                          ELSE AfterAdvance(b, n))
          ELSE /\ m_head' = m_head
               /\ Goto(c, "move")
    /\ UNCHANGED <<baseVars, history>>

FreeExternal(c) ==
    /\ At(c, "free_external")
    /\ heap' = heap \ {content[cons[c].control]}
    /\ Goto(c, AfterAdvance(cons[c].control, cons[c].next))
    /\ UNCHANGED <<m_next, content, pool, pinners, m_initial_page, status, m_head, history>>

ZeroControl(c) ==
    /\ At(c, "zero")
    /\ m_next' = [m_next EXCEPT ![cons[c].control] = Zero]
    /\ Goto(c, IF SamePage(cons[c].control, cons[c].next.to) THEN "memset" ELSE "free_page")
    /\ UNCHANGED <<content, pool, pinners, heap, m_initial_page, status, m_head, history>>

Memset(c) ==
    /\ At(c, "memset")
    /\ LET first == cons[c].control
           end == cons[c].next.to
       IN content' = [b \in Block |->
             IF SamePage(b, first) /\ b[2] \in first[2] .. (end[2] - 1)
             THEN NoItem ELSE content[b]]
    /\ Goto(c, "move")
    /\ UNCHANGED <<m_next, pool, pinners, heap, m_initial_page, status, m_head, history>>

DeallocatePage(c) ==
    /\ At(c, "free_page")
    /\ pool' = [pool EXCEPT ![PageOf(cons[c].control)] =
                  IF ZeroedPages THEN "zeroed" ELSE "uninitialized"]
    /\ Goto(c, "move")
    /\ UNCHANGED <<m_next, content, pinners, heap, m_initial_page, status, m_head, history>>

---------------------------------------------------------------------------
(* move_next *)

\* The next block is in the same page, which is pinned: enter it.
\* Otherwise pin the page of the next block.
MoveNext(c) ==
    /\ At(c, "move")
    /\ LET to == cons[c].next.to
       IN IF SamePage(cons[c].control, to)
          THEN Enter(c, to, m_next[to]) /\ UNCHANGED pinners
          ELSE /\ Pin(c, PageOf(to))
               /\ cons' = [cons EXCEPT ![c].pc = "reread", ![c].target = to]
    /\ UNCHANGED <<m_next, content, pool, heap, m_initial_page, status, m_head, history>>

\* potentially_different_next_ptr
Reread(c) ==
    /\ At(c, "reread")
    /\ Goto(c, IF m_next[cons[c].control] = Zero THEN "unpin_left_restart" ELSE "unpin_left")
    /\ UNCHANGED <<baseVars, m_head, history>>

\* Mutant: the page just pinned is unpinned, not the one left.
UnpinEntered(c) ==
    /\ cons[c].pc \in {"unpin_left", "unpin_left_restart"}
    /\ Unpin(c, PageOf(cons[c].target))
    /\ cons' = [cons EXCEPT ![c].pc = IF At(c, "unpin_left") THEN "load_next" ELSE "begin",
                            ![c].control = cons[c].target, ![c].target = NoBlock]
    /\ UNCHANGED <<m_next, content, pool, heap, m_initial_page, status, m_head, history>>

UnpinLeft(c) ==
    /\ cons[c].pc \in {"unpin_left", "unpin_left_restart"}
    /\ Unpin(c, PageOf(cons[c].control))
    /\ cons' = [cons EXCEPT ![c].pc = IF At(c, "unpin_left") THEN "load_next" ELSE "begin",
                            ![c].control = cons[c].target, ![c].target = NoBlock]
    /\ UNCHANGED <<m_next, content, pool, heap, m_initial_page, status, m_head, history>>

LoadNext(c) ==
    /\ At(c, "load_next")
    /\ Enter(c, cons[c].control, m_next[cons[c].control])
    /\ UNCHANGED <<baseVars, m_head, history>>

---------------------------------------------------------------------------
(* The end of a consume operation, and of a Consume *)

\* The user has destroyed the element; clean_dead_elements starts.
CommitConsume(c) ==
    /\ "commit" \in Outcomes
    /\ At(c, "consuming")
    /\ m_next' = [m_next EXCEPT ![cons[c].control] = cons[c].next]
    /\ status' = [status EXCEPT ![ElementOf(content[cons[c].control])] = "consumed"]
    /\ cons' = [cons EXCEPT ![c].pc = "advance", ![c].mode = "clean"]
    /\ UNCHANGED <<content, pool, pinners, heap, m_initial_page, m_head, history>>

CancelConsume(c) ==
    /\ "cancel" \in Outcomes
    /\ At(c, "consuming")
    /\ m_next' = [m_next EXCEPT ![cons[c].control] =
                     NextWord(cons[c].next.to, cons[c].next.flags \ {"dead"})]
    /\ status' = [status EXCEPT ![ElementOf(content[cons[c].control])] = "ready"]
    /\ cons' = [cons EXCEPT ![c].pc = "idle", ![c].next = Zero]
    /\ UNCHANGED <<content, pool, pinners, heap, m_initial_page, m_head, history>>

\* ~Consume
DestroyConsume(c) ==
    /\ At(c, "idle")
    /\ cons[c].control # NoBlock
    /\ Unpin(c, PageOf(cons[c].control))
    /\ cons' = [cons EXCEPT ![c].control = NoBlock]
    /\ UNCHANGED <<m_next, content, pool, heap, m_initial_page, status, m_head, history>>

---------------------------------------------------------------------------

HeadInit ==
    /\ m_head = NoBlock
    /\ cons = [c \in Consumers |-> NewConsume]
    /\ sawEmpty = {}
    /\ waiting = [c \in Consumers |-> {}]

\* The steps of a call in progress: everything but starting a new operation
\* and deciding what to do with an element.  empty() destroys its Consume.
ConsumerStep(c) ==
    \/ LoadHead(c) \/ ReloadHead(c) \/ LoadInitialPage(c) \/ InitHead(c)
    \/ PinHead(c) \/ UnpinOld(c) \/ LoadHeadNext(c)
    \/ TryBusy(c) \/ Return(c)
    \/ AdvanceHead(c) \/ FreeExternal(c) \/ ZeroControl(c) \/ Memset(c)
    \/ DeallocatePage(c)
    \/ MoveNext(c) \/ Reread(c) \/ UnpinLeft(c) \/ LoadNext(c)
    \/ cons[c].mode = "empty" /\ DestroyConsume(c)

ConsumerNext(c) ==
    \/ Start(c, "consume") \/ Start(c, "empty")
    \/ ConsumerStep(c)
    \/ CommitConsume(c) \/ CancelConsume(c) \/ DestroyConsume(c)

HeadTypeOK ==
    /\ m_head \in BlockOrNull
    /\ cons \in [Consumers -> Consume]
    /\ sawEmpty \subseteq Consumers
    /\ waiting \in [Consumers -> SUBSET Element]

\* What is known of a Consume at each step of its functions.
ConsumerOK(c) ==
    LET r == cons[c]
    IN /\ r.pc \in {"pin_head", "unpin_old", "load_head_next", "reread", "unpin_left",
                     "unpin_left_restart"} => r.target \in Block
       /\ r.pc \in {"try_busy", "advance", "free_external", "zero", "memset", "free_page",
                     "move", "consuming"} => r.next.to \in Block
       /\ r.pc \in {"unpin_old", "load_head_next", "try_busy", "advance", "free_external",
                     "zero", "memset", "free_page", "move", "reread", "unpin_left",
                     "unpin_left_restart", "load_next", "consuming"} => r.control \in Block
       /\ r.pc \in {"pin_head", "unpin_old", "reread", "unpin_left", "unpin_left_restart"}
             => ~SamePage(r.control, r.target)
       /\ r.pc = "load_head_next" => SamePage(r.control, r.target)

ConsumersOK == \A c \in Consumers : ConsumerOK(c)

---------------------------------------------------------------------------
(* Properties of the consume layer over any put layer *)

\* What consume_dbg_checks asserts of an operation in progress: the control
\* word is still the one the consumer made busy, the element is still there
\* and its page is pinned, whatever the other consumers have advanced over;
\* and no other operation holds the same element.
ConsumeHolds ==
    \A c \in Consumers : At(c, "consuming") =>
        LET b == cons[c].control
            n == cons[c].next
        IN /\ m_next[b] = [n EXCEPT !.flags = (@ \ {"dead"}) \cup {"busy"}]
           /\ content[b] # NoItem /\ content[b][3] = 0
           /\ status[ElementOf(content[b])] = "consuming"
           /\ c \in pinners[PageOf(b)]
           /\ \A d \in Consumers \ {c} : At(d, "consuming") => cons[d].control # b

\* A page is pinned by whoever is in it: a Consume pins the page of m_control
\* and, between two pages, the one it enters too.
ControlPinned ==
    \A c \in Consumers :
        /\ cons[c].control # NoBlock => c \in pinners[PageOf(cons[c].control)]
        /\ cons[c].pc \in {"unpin_old", "reread", "unpin_left", "unpin_left_restart"}
              => c \in pinners[PageOf(cons[c].target)]

\* A put is consumed at most once, and never if it was cancelled: the history
\* of an element only moves forward, except that a cancelled consume makes it
\* ready again.
StatusStep(old, new) ==
    \/ new = old
    \/ old = "none" /\ new = "putting"
    \/ old = "putting" /\ new \in {"ready", "cancelled"}
    \/ old = "ready" /\ new = "consuming"
    \/ old = "consuming" /\ new \in {"ready", "consumed"}

ConsumedOnce == [][\A e \in Element : StatusStep(status[e], status'[e])]_status

\* First in, first out: a consumer does not take an element while an earlier
\* one of its producer has been ready all along its call.  (One that becomes
\* ready behind the consumer's back, by a late commit or a cancelled consume,
\* is passed over.)
FirstInFirstOut ==
    [][\A c \in Consumers : At(c, "try_busy") /\ At(c, "consuming")' =>
          LET e == ElementOf(content[cons[c].control])
          IN \A k \in 1 .. (e[2] - 1) : <<e[1], k>> \notin waiting[c]]_cons
==========================================================================
