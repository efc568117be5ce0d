---------------------------- MODULE DocumentWait ----------------------------
(***************************************************************************)
(* Waiting for what ANAF makes in its own time: poll_until                 *)
(* (_transport/poll.py) under EFacturaClient.upload_and_wait and under     *)
(* SpvClient.wait_for_report with the tool spv_asteapta_raport, which then *)
(* saves the report (mcp/artifacts.py).                                    *)
(*                                                                         *)
(* Several waits run at once, all saving to one path, while other programs *)
(* create and remove the file there.  Time is discrete: a pause ends on    *)
(* the tick it was set for, a read within ReadMax ticks of its start.      *)
(***************************************************************************)
EXTENDS Naturals

CONSTANTS
    Waits,          \* upload_and_wait and spv_asteapta_raport calls
    UploadSets,     \* which of them are the former: a set of choices
    Budget,         \* timeout
    MaxPause,       \* max_wait
    ReadMax,        \* bound: the HTTP timeout of one read
    Window,         \* `zile`: how long a delivered report is listed
    LastHour        \* bound: how long a behaviour lasts

ASSUME WaitBounds ==
    /\ UploadSets \subseteq SUBSET Waits /\ UploadSets # {}
    /\ {Budget, MaxPause, ReadMax, Window, LastHour} \subseteq Nat \ {0}

ASSUME WaitsAreNoContents == Waits \cap {"absent", "foreign", "torn"} = {}

VARIABLES
    uploads,    \* the calls that are upload_and_wait
    hour,       \* the clock
    work,       \* what ANAF makes of each wait's document
    wait,       \* the calls
    path        \* the file at the target: absent, another program's, torn,
                \* or the report of a wait

waitVars == <<uploads, hour, work, wait, path>>

Works == [state : {"none", "working", "there"}, at : Nat, good : BOOLEAN]

\* began: when poll_until started; until: when a pause ends, or by when a read
\* does; seen: the read found the document.
WaitStates == [at : {"idle", "reading", "read", "pausing", "found", "have", "checked",
                     "open", "done"},
               overwrite : BOOLEAN, began : Nat,
               until : Nat, seen : BOOLEAN,
               answer : {"none", "refused", "error", "pending", "ok", "nok", "rejected",
                         "saved", "save_error"}]

Contents == {"absent", "foreign", "torn"} \cup Waits

NoWait == [at |-> "idle", overwrite |-> FALSE, began |-> 0, until |-> 0,
           seen |-> FALSE, answer |-> "none"]

NoWork == [state |-> "none", at |-> 0, good |-> FALSE]

WaitInit ==
    /\ uploads \in UploadSets
    /\ hour = 0
    /\ work = [w \in Waits |->
          [NoWork EXCEPT !.state = IF w \in uploads THEN "none" ELSE "working"]]
    /\ wait = [w \in Waits |-> NoWait]
    /\ path = "absent"

\* What the end of a poll leaves of it.  Only a call that polled in vain is still
\* compared with its document; the others forget it.
Leave(w, at, answer) ==
    /\ wait' = [wait EXCEPT ![w] =
          [NoWait EXCEPT !.at = at, !.answer = answer, !.overwrite = at # "done" /\ wait[w].overwrite,
                         !.began = IF answer = "pending" THEN wait[w].began ELSE 0]]
    /\ work' = IF answer = "pending" THEN work ELSE [work EXCEPT ![w] = NoWork]
End(w, answer) == Leave(w, "done", answer)

-----------------------------------------------------------------------------
(* Documents are uploaded, reports were requested before; ANAF works on     *)
(* them.                                                                   *)

Polling(w, overwrite) ==
    wait' = [wait EXCEPT ![w].at = "reading", ![w].overwrite = overwrite,
                         ![w].began = hour, ![w].until = hour + ReadMax]

\* upload(), then the poll.  A lost answer raises, and ANAF may have the document.
UploadAccepted(w) ==
    /\ w \in uploads /\ wait[w].at = "idle" /\ work[w].state = "none"
    /\ work' = [work EXCEPT ![w].state = "working"]
    /\ Polling(w, FALSE)
    /\ UNCHANGED <<uploads, hour, path>>

UploadRejected(w) ==
    /\ w \in uploads /\ wait[w].at = "idle" /\ work[w].state = "none"
    /\ End(w, "rejected")
    /\ UNCHANGED <<uploads, hour, path>>

UploadLost(w) ==
    /\ w \in uploads /\ wait[w].at = "idle" /\ work[w].state = "none"
    /\ End(w, "error")
    /\ UNCHANGED <<uploads, hour, path>>

Deliver(w) ==
    /\ work[w].state = "working" /\ wait[w].at # "done"   \* bound: nobody looks then
    /\ \E good \in {TRUE, w \notin uploads} :
          work' = [work EXCEPT ![w] = [state |-> "there", at |-> hour, good |-> good]]
    /\ UNCHANGED <<uploads, hour, wait, path>>

\* spv_asteapta_raport: check_writable before the poll, without side effects.
AwaitReport(w, overwrite) ==
    /\ w \notin uploads /\ wait[w].at = "idle"
    /\ IF path # "absent" /\ ~overwrite THEN End(w, "refused")
       ELSE Polling(w, overwrite) /\ work' = work
    /\ UNCHANGED <<uploads, hour, path>>

-----------------------------------------------------------------------------
(* poll_until.                                                             *)

\* ANAF answers a read: the status of the upload, the inbox of the last days.
Visible(w) == work[w].state = "there" /\
    (w \notin uploads => hour <= work[w].at + Window)

Read(w) ==
    /\ wait[w].at = "reading"
    /\ wait' = [wait EXCEPT ![w].at = "read", ![w].seen = Visible(w)]
    /\ UNCHANGED <<uploads, hour, work, path>>

\* Any exception of the read propagates at once.
ReadFails(w) ==
    /\ wait[w].at \in {"reading", "read", "found"}
    /\ End(w, "error")
    /\ UNCHANGED <<uploads, hour, path>>

Settled(w) ==
    /\ wait[w].at = "read" /\ wait[w].seen
    /\ IF w \in uploads THEN End(w, IF work[w].good THEN "ok" ELSE "nok")
       ELSE Leave(w, "found", "none")
    /\ UNCHANGED <<uploads, hour, path>>

\* mutant: stop_before_delay, giving up when the next pause would not fit
ExpiredBefore(w) == hour + MaxPause >= wait[w].began + Budget

\* mutant: the budget counts from the last read on
ExpiredLate(w) == hour >= wait[w].until + Budget

\* stop_after_delay, judged when the read has been answered.
Expired(w) == hour >= wait[w].began + Budget

GiveUp(w) ==
    /\ wait[w].at = "read" /\ ~wait[w].seen /\ Expired(w)
    /\ End(w, "pending")
    /\ UNCHANGED <<uploads, hour, path>>

\* The exponential wait with its jitter: anything up to max_wait.
Pause(w) ==
    /\ wait[w].at = "read" /\ ~wait[w].seen /\ ~Expired(w)
    /\ \E d \in 1..MaxPause : wait' = [wait EXCEPT ![w].at = "pausing", ![w].until = hour + d]
    /\ UNCHANGED <<uploads, hour, work, path>>

Wake(w) ==
    /\ wait[w].at = "pausing" /\ hour = wait[w].until
    /\ wait' = [wait EXCEPT ![w].at = "reading", ![w].until = hour + ReadMax]
    /\ UNCHANGED <<uploads, hour, work, path>>

-----------------------------------------------------------------------------
(* write_artifact.                                                         *)

Downloaded(w) ==
    /\ wait[w].at = "found"
    /\ wait' = [wait EXCEPT ![w].at = "have"]
    /\ UNCHANGED <<uploads, hour, work, path>>

Collides(w) == path # "absent" /\ ~wait[w].overwrite

\* ensure_writable once more, and the directories.
CheckAgain(w) ==
    /\ wait[w].at = "have"
    /\ IF Collides(w) THEN End(w, "save_error")
       ELSE wait' = [wait EXCEPT ![w].at = "checked"] /\ work' = work
    /\ UNCHANGED <<uploads, hour, path>>

\* mutant: open("wb") after the check
OpenBlocked(w) == FALSE

\* open("xb"); with overwrite, "wb".
Blocked(w) == Collides(w)

OpenFile(w) ==
    /\ wait[w].at = "checked"
    /\ IF Blocked(w) THEN End(w, "save_error") /\ path' = path
       ELSE wait' = [wait EXCEPT ![w].at = "open"] /\ path' = "torn" /\ work' = work
    /\ UNCHANGED <<uploads, hour>>

\* Two calls with the file open may leave a mixture.
WriteFile(w) ==
    /\ wait[w].at = "open"
    /\ path' \in {w} \cup {c \in {"torn"} : \E v \in Waits \ {w} : wait[v].at = "open"}
    /\ End(w, "saved")
    /\ UNCHANGED <<uploads, hour>>

\* An OSError is not an AnafError: the answer with the message id is lost.
SaveFails(w) ==
    /\ wait[w].at \in {"have", "checked", "open"}
    /\ End(w, "error")
    /\ UNCHANGED <<uploads, hour, path>>

-----------------------------------------------------------------------------

OthersWrite ==
    /\ \A w \in Waits : wait[w].at # "open"
    /\ path \in {"absent", "foreign"}
    /\ path' = IF path = "absent" THEN "foreign" ELSE "absent"
    /\ UNCHANGED <<uploads, hour, work, wait>>

\* Time stands still while something is due.
HourPasses ==
    /\ hour < LastHour
    /\ \A w \in Waits : /\ wait[w].at \in {"reading", "read"} => hour < wait[w].until
                        /\ wait[w].at = "pausing" => hour < wait[w].until
    /\ hour' = hour + 1
    /\ UNCHANGED <<uploads, work, wait, path>>

WaitNext ==
    \/ \E w \in Waits :
          \/ UploadAccepted(w) \/ UploadRejected(w) \/ UploadLost(w)
          \/ Deliver(w)
          \/ \E overwrite \in BOOLEAN : AwaitReport(w, overwrite)
          \/ Read(w) \/ ReadFails(w) \/ Settled(w) \/ GiveUp(w) \/ Pause(w) \/ Wake(w)
          \/ Downloaded(w) \/ CheckAgain(w) \/ OpenFile(w) \/ WriteFile(w) \/ SaveFails(w)
    \/ OthersWrite
    \/ HourPasses

WaitSpec == WaitInit /\ [][WaitNext]_waitVars

-----------------------------------------------------------------------------
(* Properties.                                                             *)

WaitTypeOK ==
    /\ uploads \subseteq Waits
    /\ hour \in Nat
    /\ work \in [Waits -> Works]
    /\ wait \in [Waits -> WaitStates]
    /\ path \in Contents

\* "Giving up after timeout seconds in total": a poll outlives its budget, but
\* by no more than one pause and one read.
PollsWithinBudget ==
    \A w \in Waits : wait[w].at \in {"reading", "read", "pausing"} =>
        hour < wait[w].began + Budget + MaxPause + ReadMax

\* A document that was there before the last read of the budget can have begun
\* is found: "pending" is answered only for one that came later, or one so old
\* that it may have left the inbox window by the last read.
FoundInTime ==
    \A w \in Waits : wait[w].answer = "pending" /\ work[w].state = "there" =>
        \/ work[w].at + ReadMax >= wait[w].began + Budget
        \/ w \notin uploads /\ work[w].at + Window + 1 < wait[w].began + Budget + MaxPause + ReadMax

\* "Without silently replacing an existing file", also one that appeared while
\* the call polled and between its last check and the write: what somebody else
\* put there is replaced only by a call asked to overwrite, or by one that had
\* created the file before.
NeverReplaced ==
    [][\/ path \notin {"foreign"} \cup Waits
       \/ path' \in {path, "absent", "foreign"}
       \/ \E w \in Waits : wait[w].at = "open"
       \/ \E w \in Waits : wait[w].at = "checked" /\ wait[w].overwrite]_waitVars
=============================================================================
