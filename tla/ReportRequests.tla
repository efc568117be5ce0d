--------------------------- MODULE ReportRequests ---------------------------
(***************************************************************************)
(* The same-day duplicate guard of one server's SPV report requests:       *)
(* spv_cerere files a request with ANAF unless its log knows one of today  *)
(* with the same parameters (mcp/spv/tools.py, spv/client.py).             *)
(*                                                                         *)
(* A tool call runs from one await to the next in one step.  ANAF files    *)
(* what it receives, maybe after the call gave up.  A restart loses the    *)
(* log (mcp/context.py) and ends the calls.                                *)
(***************************************************************************)
EXTENDS Naturals

CONSTANTS
    Calls,      \* tool calls, in all
    Params,     \* wire parameters of a report request: the log's key
    None,       \* no entry in the log
    LastDay,    \* bound: days
    MaxBoots    \* bound: times the server starts

LogDays == 1..LastDay
Boots == 1..MaxBoots

\* A filing is named by the call that sent it; its id_solicitare is this name.
Entry == [id : Calls, day : LogDays]
Filing == [by : Calls, params : Params, day : LogDays]

ASSUME ReportBounds == LastDay \in Nat \ {0} /\ MaxBoots \in Nat \ {0}
ASSUME NoneIsNoEntry == None \notin Entry
ASSUME SomeParams == Params # {}

VARIABLES
    today,      \* the date in Romania
    boot,       \* which start of the server this is
    requests,   \* spv_request_log
    filed,      \* what ANAF has filed
    ask         \* the spv_cerere calls

reportVars == <<today, boot, requests, filed, ask>>

\* asked: `today` as the call saw it; reuse: the id it returned from the log;
\* met: another call with these parameters was under way meanwhile.
Asks == [at : {"unused", "sent", "answered", "reused", "failed"}, params : Params,
         force : BOOLEAN, asked : LogDays, boot : Boots, reuse : Calls, met : BOOLEAN]

ReportInit ==
    /\ today = 1
    /\ boot = 1
    /\ requests = [k \in Params |-> None]
    /\ filed = {}
    /\ ask = [c \in Calls |-> [at |-> "unused", params |-> CHOOSE k \in Params : TRUE,
                                force |-> FALSE, asked |-> 1, boot |-> 1,
                                reuse |-> c, met |-> FALSE]]

UnderWay(c) == ask[c].at = "sent"
FilingOf(c) == {f \in filed : f.by = c}

\* The guard: an entry of the same day.
Logged(k) == requests[k] # None /\ requests[k].day = today

Reuse(c, k) ==
    /\ ask[c].at = "unused" /\ Logged(k)
    /\ ask' = [ask EXCEPT ![c].at = "reused", ![c].params = k, ![c].asked = today,
                          ![c].reuse = requests[k].id]
    /\ UNCHANGED <<today, boot, requests, filed>>

\* request_report's request is on its way, with the day read before.
Request(c, k, force) ==
    /\ ask[c].at = "unused" /\ (force \/ ~Logged(k))
    /\ LET others == {d \in Calls : UnderWay(d) /\ ask[d].params = k} IN
       ask' = [d \in Calls |->
          IF d = c THEN [ask[c] EXCEPT !.at = "sent", !.params = k, !.force = force,
                            !.asked = today, !.boot = boot, !.met = others # {}]
          ELSE [ask[d] EXCEPT !.met = @ \/ d \in others]]
    /\ UNCHANGED <<today, boot, requests, filed>>

LoggedAsOfNow(c) == [id |-> c, day |-> today]   \* mutant: the day of the answer

LogEntry(c) == [id |-> c, day |-> ask[c].asked]

FirstEntryStays(c) ==   \* mutant: setdefault
    IF requests[ask[c].params] # None THEN requests
    ELSE [requests EXCEPT ![ask[c].params] = LogEntry(c)]

LogOf(c) == [requests EXCEPT ![ask[c].params] = LogEntry(c)]

\* The answer arrived: the log takes the new id.
RequestAnswered(c) ==
    /\ UnderWay(c) /\ FilingOf(c) # {}
    /\ requests' = LogOf(c)
    /\ ask' = [ask EXCEPT ![c].at = "answered"]
    /\ UNCHANGED <<today, boot, filed>>

\* Refused, unrecognised, timed out or lost: an error, nothing is logged.
RequestFails(c) ==
    /\ UnderWay(c)
    /\ ask' = [ask EXCEPT ![c].at = "failed"]
    /\ UNCHANGED <<today, boot, requests, filed>>

\* ANAF files a request it received, at the latest after the call gave up.
AnafFiles(c) ==
    /\ ask[c].at \in {"sent", "failed"} /\ ask[c].boot = boot /\ FilingOf(c) = {}
    /\ filed' = filed \cup {[by |-> c, params |-> ask[c].params, day |-> today]}
    /\ UNCHANGED <<today, boot, requests, ask>>

Midnight ==
    /\ today < LastDay
    /\ today' = today + 1
    /\ UNCHANGED <<boot, requests, filed, ask>>

ServerRestart ==
    /\ boot < MaxBoots
    /\ boot' = boot + 1
    /\ requests' = [k \in Params |-> None]
    /\ ask' = [c \in Calls |-> IF UnderWay(c) THEN [ask[c] EXCEPT !.at = "failed"] ELSE ask[c]]
    /\ UNCHANGED <<today, filed>>

ReportNext ==
    \/ \E c \in Calls : \/ \E k \in Params : Reuse(c, k)
                        \/ \E k \in Params, force \in BOOLEAN : Request(c, k, force)
                        \/ RequestAnswered(c)
                        \/ RequestFails(c)
                        \/ AnafFiles(c)
    \/ Midnight
    \/ ServerRestart

ReportSpec == ReportInit /\ [][ReportNext]_reportVars

-----------------------------------------------------------------------------
(* Properties.                                                             *)

ReportTypeOK ==
    /\ today \in LogDays /\ boot \in Boots
    /\ requests \in [Params -> Entry \cup {None}]
    /\ filed \subseteq Filing
    /\ ask \in [Calls -> Asks]

\* "an identical request was already filed today": ANAF did file the request
\* that a reused id names, with these parameters, on that day; the date may
\* change while a request is on its way.
ReusedWasFiledToday ==
    \A c \in Calls : ask[c].at = "reused" =>
        [by |-> ask[c].reuse, params |-> ask[c].params, day |-> ask[c].asked] \in filed

\* A filing this server knows of for sure: answered, by this process, on the
\* day it was asked, and no call with the same parameters meanwhile.
Known(c) ==
    ask[c].at = "answered" /\ ask[c].boot = boot /\ ~ask[c].met
    /\ \A f \in FilingOf(c) : f.day = ask[c].asked

\* A second request of the day goes out only when the first one was lost, is
\* still under way, or was made by another process - or the user forces it.
RepeatsAreExplained ==
    [][\A c, d \in Calls :
          ask[c].at = "unused" /\ ask'[c].at = "sent" /\ ~ask'[c].force
          /\ ask[d].params = ask'[c].params /\ Known(d)
          => ask[d].asked # today]_reportVars
=============================================================================
