------------------------ MODULE LfQueueHeadSingle ------------------------
(***************************************************************************)
(* The consume layer for one consumer thread                               *)
(* (detail/lf_queue_head_single.h).  Its Consume objects are used in turn: *)
(* each may hold an element while the thread goes on with another.  There  *)
(* are no pins: a page is left only by the thread itself, so m_head and    *)
(* the words of busy blocks are written with plain stores.                 *)
(***************************************************************************)
EXTENDS LfQueueHeadMultiple

---------------------------------------------------------------------------

\* The thread is in no call on another Consume.
OnlyConsume(c) == \A d \in Consumers \ {c} : cons[d].pc \in {"idle", "consuming"}

StartSingle(c, mode) == OnlyConsume(c) /\ Start(c, mode)

\* m_control and m_next_ptr take new values.  What an empty Consume keeps in
\* m_control is never read: begin_iteration sets it.
EnterPlain(c, b, n) ==
    LET to == AfterLoad(cons[c].mode, n)
    IN cons' = [cons EXCEPT ![c] =
         IF to = "idle" THEN NewConsume
         ELSE [NewConsume EXCEPT !.pc = to, !.mode = cons[c].mode, !.control = b, !.next = n]]

\* begin_iteration: m_head is set to the initial page, if there is one.
InitHeadPlain(c) ==
    /\ At(c, "begin") /\ m_head = NoBlock
    /\ m_head' = FirstBlock(m_initial_page)
    /\ IF m_head' = NoBlock
       THEN EnterPlain(c, NoBlock, Zero)
       ELSE UNCHANGED cons
    /\ UNCHANGED <<baseVars, history>>

EnterHead(c) ==
    /\ At(c, "begin") /\ m_head # NoBlock
    /\ EnterPlain(c, m_head, m_next[m_head])
    /\ UNCHANGED <<baseVars, m_head, history>>

\* start_consume_impl has found an element.
Take(c) ==
    /\ At(c, "try_busy")
    /\ LET b == cons[c].control
       IN /\ m_next' = [m_next EXCEPT ![b] = [cons[c].next EXCEPT !.flags = @ \cup {"busy"}]]
          /\ status' = [status EXCEPT ![ElementOf(content[b])] = "consuming"]
    /\ cons' = [cons EXCEPT ![c].pc = "consuming", ![c].next.flags = @ \cup {"dead"}]
    /\ sawEmpty' = (IF Ready' = {} THEN Searching ELSE sawEmpty) \ {c}
    /\ waiting' = [d \in Consumers |-> IF d = c THEN {} ELSE waiting[d] \cap Ready']
    /\ UNCHANGED <<content, pool, pinners, heap, m_initial_page, m_head>>

\* Mutant: the head passes over a block that another Consume has left dead
\* though it does not point to it.
AdvanceAnyway(c) ==
    /\ At(c, "advance")
    /\ LET b == cons[c].control
           to == cons[c].next.to
       IN /\ m_head' = to
          /\ heap' = IF "external" \in cons[c].next.flags
                     THEN heap \ {content[b]} ELSE heap
          /\ Goto(c, IF SamePage(b, to) THEN "move" ELSE "free_page")
    /\ UNCHANGED <<m_next, content, pool, pinners, m_initial_page, status, history>>

\* advance_head, for pages that are not freed zeroed, up to deallocate_page.
AdvancePlain(c) ==
    /\ At(c, "advance")
    /\ LET b == cons[c].control
           to == cons[c].next.to
       IN IF m_head = b
          THEN /\ m_head' = to
               /\ heap' = IF "external" \in cons[c].next.flags
                          THEN heap \ {content[b]} ELSE heap
               /\ Goto(c, IF SamePage(b, to) THEN "move" ELSE "free_page")
          ELSE Goto(c, "move") /\ UNCHANGED <<m_head, heap>>
    /\ UNCHANGED <<m_next, content, pool, pinners, m_initial_page, status, history>>

\* move_next: the page left may be freed already, the word was read before.
MoveNextPlain(c) ==
    /\ At(c, "move")
    /\ EnterPlain(c, cons[c].next.to, m_next[cons[c].next.to])
    /\ UNCHANGED <<baseVars, m_head, history>>

\* The operation ends: no element found, or empty() saw one.
ReturnPlain(c) ==
    /\ cons[c].pc \in {"nothing", "found"}
    /\ cons' = [cons EXCEPT ![c] = NewConsume]
    /\ sawEmpty' = sawEmpty \ {c}
    /\ waiting' = [waiting EXCEPT ![c] = {}]
    /\ UNCHANGED <<baseVars, m_head>>

CancelPlain(c) ==
    /\ "cancel" \in Outcomes
    /\ At(c, "consuming")
    /\ m_next' = [m_next EXCEPT ![cons[c].control] =
                     NextWord(cons[c].next.to, cons[c].next.flags \ {"dead"})]
    /\ status' = [status EXCEPT ![ElementOf(content[cons[c].control])] = "ready"]
    /\ cons' = [cons EXCEPT ![c] = NewConsume]
    /\ UNCHANGED <<content, pool, pinners, heap, m_initial_page, m_head, history>>

---------------------------------------------------------------------------

SingleConsumeStep(c) ==
    \/ InitHeadPlain(c) \/ EnterHead(c) \/ Take(c) \/ ReturnPlain(c)
    \/ AdvancePlain(c) \/ DeallocatePage(c) \/ MoveNextPlain(c)

SingleConsumeNext(c) ==
    \/ StartSingle(c, "consume") \/ StartSingle(c, "empty")
    \/ SingleConsumeStep(c)
    \/ OnlyConsume(c) /\ (CommitConsume(c) \/ CancelPlain(c))
==========================================================================
