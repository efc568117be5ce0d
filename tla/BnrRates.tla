------------------------------ MODULE BnrRates ------------------------------
(***************************************************************************)
(* BnrClient.get_rates (bnr/client.py): which of BNR's documents answers   *)
(* which day, and for how long a fetched one may answer for.               *)
(*                                                                         *)
(* BNR publishes at most one set of rates a day, by a certain hour, and    *)
(* regenerates the year archives once a day, by then as well; a document   *)
(* is the set of days it has rates of.  Lookups run concurrently on one    *)
(* client, across midnight and the turn of a year.                         *)
(***************************************************************************)
EXTENDS Integers, Sequences, FiniteSetsExt

CONSTANTS
    Lookups,        \* tasks that call get_rates
    DayLength,      \* a day, in ticks of the clock
    PublishedBy,    \* the tick of a day by which BNR has published and regenerated
    YearLength,     \* a year, in days
    WindowSize,     \* sets of the ten-day file
    Reach,          \* _TEN_DAYS_REACH
    LiveTTL,        \* _LIVE_TTL
    FetchMax,       \* bound: how long a fetch takes
    FirstTime, LastTime,    \* bound: the span of a behaviour
    Asked           \* bound: the days that each lookup asks for

ASSUME BnrBounds ==
    /\ {DayLength, YearLength, WindowSize, LiveTTL, FetchMax} \subseteq Nat \ {0}
    /\ PublishedBy \in 0..(DayLength - 1)
    /\ {Reach, FirstTime, LastTime} \subseteq Nat /\ FirstTime <= LastTime

\* The ten-day file bridges the day that an archive lags behind.
ASSUME TenDaysBridge == Reach >= 1 /\ WindowSize >= 2

\* BNR publishes just after 13:00; a document lives for a quarter of an hour.
ASSUME ExpiresByMidnight == PublishedBy + LiveTTL + FetchMax <= DayLength

VARIABLES
    time,       \* the clock, the same here and there
    published,  \* when BNR published each day's set: [day, at]
    cache,      \* the cached documents: [path, closed, days, expires]
    fetches,    \* the fetches under way: [path, closed, days, by], days {-1} before BNR served it
    lookup,     \* the calls
    answered    \* the latest set a lookup of each day has answered

bnrVars == <<time, published, cache, fetches, lookup, answered>>

DayOf(t) == t \div DayLength
Today == DayOf(time)
YearOf(day) == day \div YearLength
Days == 0..DayOf(LastTime)
ASSUME AskedDays == Asked \in [Lookups -> SUBSET Days]

\* A path: the archive of a year, or one of the two small files.
LatestFile == -2
TenDayFile == -1
Paths == {LatestFile, TenDayFile} \cup {YearOf(d) : d \in Days}

NothingYet == {-1}     \* not served yet
Nowhere == -1          \* no such set

\* began: when; floor: what lookups of that day had answered before.
LookupStates == [at : {"idle", "trying", "waiting", "done"}, day : Days,
                 began : Nat, paths : Seq(Paths), closed : BOOLEAN,
                 answer : Days \cup {Nowhere}, floor : Days \cup {Nowhere}]

NoLookup == [at |-> "idle", day |-> 0, began |-> 0, paths |-> <<>>, closed |-> FALSE,
             answer |-> Nowhere, floor |-> Nowhere]

BnrInit ==
    /\ time = FirstTime
    /\ published = {[day |-> 0, at |-> 0]}
    /\ cache = {} /\ fetches = {} /\ answered = [d \in Days |-> Nowhere]
    /\ lookup = [l \in Lookups |-> NoLookup]

-----------------------------------------------------------------------------
(* BNR.                                                                    *)

DaysPublished == {p.day : p \in published}

Publish ==
    /\ Today \notin DaysPublished /\ time % DayLength <= PublishedBy
    /\ published' = published \cup {[day |-> Today, at |-> time]}
    /\ UNCHANGED <<time, cache, fetches, lookup, answered>>

\* The day before which the archives served now have every set: "yesterday's close"
\* once they were regenerated today, before that the close of the day before.
Regenerated == IF time % DayLength <= PublishedBy THEN {Today - 1, Today} ELSE {Today}

\* What a document holds when it is served.
Served(path, reached) ==
    CASE path = LatestFile -> {Max(DaysPublished)}
      [] path = TenDayFile  -> {d \in DaysPublished :
                               Cardinality({e \in DaysPublished : e > d}) < WindowSize}
      [] OTHER          -> {d \in DaysPublished : YearOf(d) = path /\ d < reached}

-----------------------------------------------------------------------------
(* The client.                                                             *)

\* _sources_for: smallest first.
SourcesFor(day) ==
    (IF day >= Today THEN <<LatestFile>> ELSE <<>>) \o
    (IF day >= Today - Reach THEN <<TenDayFile>> ELSE <<>>) \o
    <<YearOf(day)>> \o
    (IF YearOf(day) > 0 THEN <<YearOf(day) - 1>> ELSE <<>>)

IsClosedArchive(path) == path >= 0 /\ path < YearOf(Today)

LatestBefore(days, day) ==   \* mutant: `entry.date < day`
    LET upTo == {d \in days : d < day} IN IF upTo = {} THEN Nowhere ELSE Max(upTo)

LatestOnOrBefore(days, day) ==
    LET upTo == {d \in days : d <= day} IN IF upTo = {} THEN Nowhere ELSE Max(upTo)

BeginLookup(l, day) ==
    /\ lookup[l].at \in {"idle", "done"}
    /\ lookup' = [lookup EXCEPT ![l] =
          [NoLookup EXCEPT !.at = "trying", !.day = day, !.began = time,
                           !.paths = SourcesFor(day),
                           !.floor = answered[day]]]
    /\ UNCHANGED <<time, published, cache, fetches, answered>>

\* What the lookup makes of a document.
Took(l, days) ==
    LET found == LatestOnOrBefore(days, lookup[l].day) IN
    IF found # Nowhere
    THEN [lookup[l] EXCEPT !.at = "done", !.answer = found, !.paths = <<>>, !.closed = FALSE]
    ELSE IF Len(lookup[l].paths) = 1 THEN NoLookup   \* nothing published: an error
    ELSE [lookup[l] EXCEPT !.at = "trying", !.paths = Tail(@)]

\* The latest set each day was answered with.
LatestAnswers(look) == [d \in Days |->
    Max({answered[d]} \cup {look[l].answer : l \in {k \in Lookups : look[k].day = d}})]

\* _document: from the cache its path calls for, else by joining or starting a
\* fetch.
Try(l) ==
    /\ lookup[l].at = "trying"
    /\ LET path == Head(lookup[l].paths)
           closed == IsClosedArchive(path)
           hits == {c \in cache : c.path = path /\ c.closed = closed} IN
       \/ /\ \E c \in hits : lookup' = [lookup EXCEPT ![l] = Took(l, c.days)]
          /\ fetches' = fetches
       \/ /\ hits = {}
          /\ lookup' = [lookup EXCEPT ![l].at = "waiting", ![l].closed = closed]
          /\ fetches' = IF \E f \in fetches : f.path = path /\ f.closed = closed THEN fetches
                        ELSE fetches \cup {[path |-> path, closed |-> closed,
                                            days |-> NothingYet, by |-> time + FetchMax]}
    /\ answered' = LatestAnswers(lookup')
    /\ UNCHANGED <<time, published, cache>>

Serve(f, reached) ==
    /\ f.days = NothingYet
    /\ fetches' = (fetches \ {f}) \cup {[f EXCEPT !.days = Served(f.path, reached)]}
    /\ UNCHANGED <<time, published, cache, lookup, answered>>

Waiting(f) == {l \in Lookups : /\ lookup[l].at = "waiting" /\ lookup[l].closed = f.closed
                               /\ Head(lookup[l].paths) = f.path}

KeptForever(closed) == 0   \* mutant: the live documents are cached without a TTL

\* When a cached document expires, 0 for never.
Expiry(closed) == IF closed THEN 0 ELSE time + LiveTTL

\* A document without any rates is refused, and nothing that failed is cached.
Fetched(f) ==
    /\ f.days # NothingYet /\ f.days # {}
    /\ fetches' = fetches \ {f}
    /\ cache' = cache \cup {[path |-> f.path, closed |-> f.closed, days |-> f.days,
                             expires |-> Expiry(f.closed)]}
    /\ lookup' = [l \in Lookups |-> IF l \in Waiting(f) THEN Took(l, f.days) ELSE lookup[l]]
    /\ answered' = LatestAnswers(lookup')
    /\ UNCHANGED <<time, published>>

FetchFails(f) ==
    /\ fetches' = fetches \ {f}
    /\ lookup' = [l \in Lookups |->
          IF l \in Waiting(f) THEN NoLookup ELSE lookup[l]]
    /\ UNCHANGED <<time, published, cache, answered>>

\* Punctual: fetches end by their bound, and expired documents are dropped.
TimePasses ==
    /\ time < LastTime
    /\ \A f \in fetches : time < f.by
    /\ \A l \in Lookups : lookup[l].at # "trying"
    /\ time' = time + 1
    /\ cache' = {c \in cache : c.expires = 0 \/ c.expires > time'}
    /\ UNCHANGED <<published, fetches, lookup, answered>>

BnrNext ==
    \/ Publish
    \/ \E l \in Lookups : (\E day \in Asked[l] : BeginLookup(l, day)) \/ Try(l)
    \/ \E f \in fetches :
          (\E reached \in Regenerated : Serve(f, reached)) \/ Fetched(f) \/ FetchFails(f)
    \/ TimePasses

BnrSpec == BnrInit /\ [][BnrNext]_bnrVars

-----------------------------------------------------------------------------
(* Properties.                                                             *)

BnrTypeOK ==
    /\ time \in FirstTime..LastTime
    /\ published \subseteq [day : Days, at : 0..LastTime]
    /\ \A c \in cache : c.path \in Paths /\ c.days \subseteq Days
    /\ \A f \in fetches : f.path \in Paths /\ f.days \subseteq Days \cup NothingYet
    /\ lookup \in [Lookups -> LookupStates]
    /\ answered \in [Days -> Days \cup {Nowhere}]

\* A closed archive may have been fetched, and is kept for ever, before it was
\* regenerated with its year's last set.
LastOfYear(day) == YearOf(day + 1) > YearOf(day)

\* "The latest set BNR published on or before date": whichever document, cache
\* or shared fetch it came from, an answer misses no set that was published
\* longer ago than a live document may be kept and a fetch may take - except the
\* set of a year's last day.
FreshEnough ==
    \A l \in Lookups : lookup[l].at = "done" =>
        /\ lookup[l].answer \in DaysPublished /\ lookup[l].answer <= lookup[l].day
        /\ \A p \in published :
              p.day <= lookup[l].day /\ p.at + LiveTTL + FetchMax <= lookup[l].began
                  => p.day <= lookup[l].answer \/ LastOfYear(p.day)

\* The rate of a day does not go back: a lookup that begins after another of the
\* same day has answered gets that set or a later one, although it may read
\* another document, cached earlier - unless that was the set of a year's last day.
NoOlderAnswer ==
    \A l \in Lookups : lookup[l].at = "done" =>
        lookup[l].answer >= lookup[l].floor \/ LastOfYear(lookup[l].floor)
=============================================================================
