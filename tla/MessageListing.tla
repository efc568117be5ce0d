--------------------------- MODULE MessageListing ---------------------------
(***************************************************************************)
(* EFacturaClient.list_messages (efactura/client.py): one walk over the    *)
(* pages of a window of ANAF's message list.                               *)
(*                                                                         *)
(* ANAF judges the window by its own clock, which differs from this        *)
(* machine's by `skew`, drops messages from the list when they leave the   *)
(* retention span, and indexes new ones late.  It lists the oldest or the  *)
(* newest message first, and may or may not state the number of pages.     *)
(* Times are in units of the smallest margin (_END_CLOCK_SKEW_MS).         *)
(***************************************************************************)
EXTENDS Integers, Sequences, FiniteSets

CONSTANTS
    Messages,       \* message ids: numbers, in the order of their times
    Retention,      \* ANAF's floor, 60 days
    StartSkew,      \* _START_CLOCK_SKEW_MS
    EndSkew,        \* _END_CLOCK_SKEW_MS
    Skews,          \* by how much this machine's clock may be ahead
    PageSize,       \* messages of a page
    MaxPages,       \* _MAX_LIST_PAGES
    LastTick        \* bound: how long a behaviour lasts

ASSUME ListingBounds ==
    /\ Messages \subseteq Nat /\ IsFiniteSet(Messages) /\ Skews \subseteq Int
    /\ {StartSkew, EndSkew, LastTick} \subseteq Nat
    /\ {Retention, PageSize, MaxPages} \subseteq Nat \ {0}

VARIABLES
    tick,           \* ANAF's clock
    skew,           \* this machine's clock is at tick + skew
    newestFirst,    \* ANAF's order
    sentAt,         \* when each message was sent
    indexed,        \* the messages ANAF lists
    walk,           \* the walk
    yielded,        \* how often it yielded each message
    there           \* the messages of its window that were listed when it began

listVars == <<tick, skew, newestFirst, sentAt, indexed, walk, yielded, there>>
mailbox == <<newestFirst, sentAt, skew>>

\* days: the window came from `days`; began: when; shifted: corrected behind page
\* one; correctedAt: when ANAF's clock was read, 0 before; quoted: the fault that
\* ended the walk quoted it.
Walks == [at : {"idle", "asking", "done", "fault", "aborted"}, days : BOOLEAN,
          start : Int, end : Int, page : Nat, began : Nat, corrected : BOOLEAN,
          shifted : BOOLEAN, correctedAt : Nat, quoted : BOOLEAN]

InWindow(m, w) == w.start <= sentAt[m] /\ sentAt[m] <= w.end
Kept(m) == sentAt[m] >= tick - Retention

\* mutant: the window touches both of ANAF's limits
BareWindow(moment) == [start |-> moment - Retention, end |-> moment]

DaysWindow(moment) == [start |-> moment - Retention + StartSkew, end |-> moment - EndSkew]

ListInit ==
    /\ tick = Retention
    /\ skew \in Skews
    /\ newestFirst \in BOOLEAN
    /\ sentAt \in [Messages -> 0..LastTick]
    /\ \A m, n \in Messages : m < n => sentAt[m] < sentAt[n]
    /\ indexed \in SUBSET {m \in Messages : sentAt[m] <= tick}
    /\ walk = [at |-> "idle", days |-> TRUE, start |-> 0, end |-> 0, page |-> 1,
               began |-> 0, corrected |-> FALSE, shifted |-> FALSE, correctedAt |-> 0,
               quoted |-> FALSE]
    /\ yielded = [m \in Messages |-> 0]
    /\ there = {}

\* list_messages(days=60), or an explicit range; _resolve_window judges it by
\* this machine's clock.
Begin(days, s, e) ==
    /\ walk.at = "idle"
    /\ LET now == tick + skew
           win == IF days THEN DaysWindow(now) ELSE [start |-> s, end |-> e] IN
       /\ days \/ (s <= e /\ e <= now /\ s >= now - Retention)
       /\ walk' = [walk EXCEPT !.at = "asking", !.days = days, !.began = tick,
                               !.start = win.start, !.end = win.end]
       /\ there' = {m \in indexed : Kept(m) /\ InWindow(m, walk')}
    /\ UNCHANGED <<tick, mailbox, indexed, yielded>>

\* ANAF judges the window by its own clock.  The fault it answers with may quote
\* that clock ("momentul requestului = ...") or not: the start-side one has not
\* been seen to, and the swagger's examples quote none at all.
Faulty(w) == w.end > tick \/ w.start < tick - Retention

\* _rebuild_window: NoWindow when nothing moves or nothing would be left.
Rebuilt(w) ==
    IF w.days THEN DaysWindow(tick)
    ELSE [start |-> w.start, end |-> IF w.end <= tick - EndSkew THEN w.end ELSE tick - EndSkew]
Moves(w) ==
    /\ Rebuilt(w) # [start |-> w.start, end |-> w.end]
    /\ w.days \/ Rebuilt(w).end > w.start

Moved(w) == [w EXCEPT !.corrected = TRUE, !.correctedAt = tick, !.shifted = w.page > 1,
                      !.start = Rebuilt(w).start, !.end = Rebuilt(w).end]

\* mutant: the walk goes on with the next page instead of asking again
MovedOn(w) == [Moved(w) EXCEPT !.page = @ + 1]

Reasked(w) == Moved(w)

\* A fault that quotes the clock, the first of the walk: _clock_fault_moment.
Correct ==
    /\ walk.at = "asking" /\ Faulty(walk) /\ ~walk.corrected /\ Moves(walk)
    /\ walk' = Reasked(walk)
    /\ there' = there \cap {m \in indexed : InWindow(m, walk')}
    /\ UNCHANGED <<tick, mailbox, indexed, yielded>>

\* Every other fault is raised: it quotes nothing, nothing would move, or the walk
\* was corrected before.
WindowFault(quoted) ==
    /\ walk.at = "asking" /\ Faulty(walk)
    /\ quoted => walk.corrected \/ ~Moves(walk)
    /\ walk' = [walk EXCEPT !.at = "fault", !.quoted = quoted]
    /\ UNCHANGED <<tick, mailbox, indexed, yielded, there>>

\* ANAF's list of the window now, in its order; the place of each message.
Listed(w) == {m \in indexed : Kept(m) /\ InWindow(m, w)}
Before(m, w) == {n \in Listed(w) : IF newestFirst THEN n > m ELSE n < m}
PageOf(m, w) == Cardinality(Before(m, w)) \div PageSize + 1
OnPage(w) == {m \in Listed(w) : PageOf(m, w) = w.page}
TotalPages(w) == (Cardinality(Listed(w)) + PageSize - 1) \div PageSize

\* A page, yielded message by message.  An empty one ends the walk, and so
\* does the last one where ANAF states their number.
Page(stated) ==
    /\ walk.at = "asking" /\ ~Faulty(walk)
    /\ LET items == OnPage(walk)
           last == items = {} \/ (stated /\ walk.page >= TotalPages(walk)) IN
       /\ yielded' = [m \in Messages |-> yielded[m] + IF m \in items THEN 1 ELSE 0]
       /\ walk' = IF last THEN [walk EXCEPT !.at = "done"]
                  ELSE IF walk.page = MaxPages THEN [walk EXCEPT !.at = "aborted"]
                  ELSE [walk EXCEPT !.page = @ + 1]
    /\ UNCHANGED <<tick, mailbox, indexed, there>>

Index(m) ==
    /\ m \notin indexed /\ sentAt[m] <= tick
    /\ indexed' = indexed \cup {m}
    /\ UNCHANGED <<tick, mailbox, walk, yielded, there>>

ClockTicks ==
    /\ tick < LastTick
    /\ tick' = tick + 1
    /\ UNCHANGED <<mailbox, indexed, walk, yielded, there>>

ListNext ==
    \/ Begin(TRUE, 0, 0)
    \/ \E s, e \in 0..LastTick : Begin(FALSE, s, e)
    \/ Correct
    \/ \E quoted \in BOOLEAN : WindowFault(quoted)
    \/ \E stated \in BOOLEAN : Page(stated)
    \/ \E m \in Messages : Index(m)
    \/ ClockTicks

ListSpec == ListInit /\ [][ListNext]_listVars

-----------------------------------------------------------------------------
(* Properties.                                                             *)

ListTypeOK ==
    /\ tick \in Nat /\ skew \in Skews /\ newestFirst \in BOOLEAN
    /\ sentAt \in [Messages -> Nat] /\ indexed \subseteq Messages
    /\ walk \in Walks /\ there \subseteq Messages
    /\ yielded \in [Messages -> Nat]

\* "Iterate every e-Factura message in a window": a walk that ends well, and
\* whose window was not moved behind its first page, has yielded every message
\* that was there when it began - whatever was indexed or left the retention
\* span meanwhile.  Messages indexed meanwhile may be missing or come twice.
NothingSkipped ==
    walk.at = "done" /\ ~walk.shifted => \A m \in there : yielded[m] >= 1

\* How far the clocks may differ: a `days` walk fails on its window only if the
\* fault quotes no clock and the difference, or the time the walk has taken, is
\* beyond the margins; or long after its one correction.
SkewIsAbsorbed ==
    walk.at = "fault" /\ walk.days =>
        IF walk.corrected THEN tick - walk.correctedAt > StartSkew
        ELSE ~walk.quoted /\ (skew > EndSkew \/ tick - walk.began > StartSkew + skew)
=============================================================================
