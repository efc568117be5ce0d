--------------------------- MODULE PortalSession ---------------------------
(***************************************************************************)
(* One server's session on the declaration portal (declaratii/upload.py,   *)
(* _transport/curl.py, mcp/declaratii/tools.py): certificate logins by a   *)
(* chain of curl processes, and the probes and uploads that share the one  *)
(* cookie jar of the server's portal client.                               *)
(*                                                                         *)
(* Tool calls interleave at their awaits.  A request carries the cookies   *)
(* the jar held when it left; an answer puts its own into the jar when it  *)
(* arrives, whatever has been installed there meanwhile.  A session is     *)
(* named by the login that established it.                                 *)
(***************************************************************************)
EXTENDS Naturals

CONSTANTS
    Logins,     \* confirmed declaratie_portal_login calls
    Uses,       \* declaratie_portal_status and declaratie_submit calls
    Empty,      \* a jar without cookies
    Guest       \* the cookies the portal gives with its logon page

ASSUME PortalNames == Empty # Guest /\ Empty \notin Logins /\ Guest \notin Logins

Cookies == Logins \cup {Empty, Guest}

VARIABLES
    cookies,    \* the client's jar
    honoured,   \* the sessions the portal honours
    stale,      \* those of them it wants revalidated by a redirected GET
    login,      \* the login calls and their curl
    use         \* the calls that use the session

portalVars == <<cookies, honoured, stale, login, use>>
portal == <<honoured, stale>>

\* step: what run_chain is waiting for, 0 when it ended; curl: the step whose
\* process runs; sound: every step before it exited 0; prompts: how often the
\* certificate prompt fired for it.
LoginStates == [step : 0..3, curl : 0..3, sound : BOOLEAN, prompts : 0..1,
                ended : {"none", "failed", "logged_in"}]

\* carries: the cookies of its request; lapsed: since the portal confirmed that
\* session, it ended or went stale there, or left the jar.
UseStates == [at : {"idle", "probing", "confirmed", "probed", "uploading", "judged",
                    "bounced", "done"},
              submit : BOOLEAN, carries : Cookies, lapsed : BOOLEAN, spent : BOOLEAN,
              ended : {"none", "active", "inactive", "unreachable", "answered",
                       "burnt", "unknown"}]

PortalInit ==
    /\ cookies = Empty /\ honoured = {} /\ stale = {}
    /\ login = [l \in Logins |-> [step |-> 0, curl |-> 0, sound |-> TRUE, prompts |-> 0,
                                  ended |-> "none"]]
    /\ use = [u \in Uses |-> [at |-> "idle", submit |-> FALSE, carries |-> Empty,
                              lapsed |-> FALSE, spent |-> FALSE, ended |-> "none"]]

\* What a change of the jar or of the portal's sessions means to the calls that
\* rely on an answer about the session they carry.
Relying(u) == use[u].at \in {"confirmed", "probed", "uploading", "judged", "bounced"}
Lapse(state, gone) == [u \in Uses |->
    IF Relying(u) /\ state[u].carries \in gone THEN [state[u] EXCEPT !.lapsed = TRUE]
    ELSE state[u]]

-----------------------------------------------------------------------------
(* The login: PortalCurlBootstrapper.bootstrap, then install_session.      *)

StartLogin(l) ==
    /\ login[l].step = 0 /\ login[l].ended = "none"
    /\ login' = [login EXCEPT ![l].step = 1, ![l].curl = 1]
    /\ UNCHANGED <<cookies, portal, use>>

StepPassed(ok) == ok

\* A step before the last ends: the next one follows only an exit 0.
StepEnds(l, ok) ==
    /\ login[l].step \in {1, 2} /\ login[l].curl = login[l].step
    /\ login' = [login EXCEPT ![l] =
          IF StepPassed(ok)
          THEN [login[l] EXCEPT !.step = login[l].step + 1, !.curl = login[l].step + 1,
                                !.sound = login[l].sound /\ ok]
          ELSE [login[l] EXCEPT !.step = 0, !.curl = 0, !.ended = "failed"]]
    /\ UNCHANGED <<cookies, portal, use>>

\* The certificate request reaches the token: the user is asked for the PIN or
\* the second factor, and consents or not.
Prompt(l, consents) ==
    /\ login[l].curl = 3 /\ login[l].prompts = 0
    /\ login' = [login EXCEPT ![l].prompts = 1]
    /\ honoured' = IF consents THEN honoured \cup {l} ELSE honoured
    /\ UNCHANGED <<cookies, stale, use>>

\* The last step's payload is judged, not its exit code.  The jar is replaced as
\* a whole.
LoggedIn(l) ==
    /\ login[l].step = 3 /\ login[l].curl = 3 /\ l \in honoured
    /\ login' = [login EXCEPT ![l].step = 0, ![l].curl = 0, ![l].ended = "logged_in"]
    /\ cookies' = l
    /\ use' = Lapse(use, {cookies})
    /\ UNCHANGED portal

NotLoggedIn(l) ==
    /\ login[l].step = 3 /\ login[l].curl = 3
    /\ login' = [login EXCEPT ![l].step = 0, ![l].curl = 0, ![l].ended = "failed"]
    /\ UNCHANGED <<cookies, portal, use>>

LeftRunning(l) == login[l].curl   \* mutant: the child is not killed

Killed(l) == 0

\* A deadline, or the cancellation of the call, at any await.
LoginStopped(l) ==
    /\ login[l].step # 0
    /\ login' = [login EXCEPT ![l].step = 0, ![l].curl = Killed(l), ![l].ended = "failed"]
    /\ UNCHANGED <<cookies, portal, use>>

-----------------------------------------------------------------------------
(* probe, for declaratie_portal_status and before a submission.            *)

Probe(u, submit) ==
    /\ use[u].at = "idle"
    /\ use' = [use EXCEPT ![u] = IF cookies = Empty
          THEN [@ EXCEPT !.at = "done", !.submit = submit, !.ended = "inactive"]
          ELSE [@ EXCEPT !.at = "probing", !.submit = submit, !.carries = cookies]]
    /\ UNCHANGED <<cookies, portal, login>>

AnyPage(page) == page \in {"form", "logon"}   \* mutant: the status 200 is enough

IsActive(page) == page = "form"

\* What the caller of the probe does with its answer.
Verdict(u, page) ==
    IF ~IsActive(page) THEN [use[u] EXCEPT !.at = "done", !.ended = "inactive"]
    ELSE IF use[u].submit THEN [use[u] EXCEPT !.at = "probed"]
    ELSE [use[u] EXCEPT !.at = "done", !.ended = "active"]

\* The portal answers the upload form, behind a revalidation if it wants one ...
Confirm(u) ==
    /\ use[u].at = "probing" /\ use[u].carries \in honoured
    /\ stale' = stale \ {use[u].carries}
    /\ use' = [use EXCEPT ![u].at = "confirmed", ![u].lapsed = cookies # use[u].carries]
    /\ UNCHANGED <<cookies, honoured, login>>

FormArrives(u) ==
    /\ use[u].at = "confirmed"
    /\ use' = [use EXCEPT ![u] = Verdict(u, "form")]
    /\ UNCHANGED <<cookies, portal, login>>

\* ... or, to a session it does not know, its logon page and a guest's cookies.
LogonPage(u) ==
    /\ use[u].at = "probing" /\ use[u].carries \notin honoured
    /\ cookies' = Guest
    /\ use' = [Lapse(use, {cookies}) EXCEPT ![u] = Verdict(u, "logon")]
    /\ UNCHANGED <<portal, login>>

ProbeLost(u) ==
    /\ use[u].at \in {"probing", "confirmed"}
    /\ use' = [use EXCEPT ![u].at = "done", ![u].ended = "unreachable"]
    /\ UNCHANGED <<cookies, portal, login>>

-----------------------------------------------------------------------------
(* declaratie_submit, after its probe.                                     *)

\* The token is consumed, and the upload leaves with what the jar holds now.
Redeem(u) ==
    /\ use[u].at = "probed"
    /\ use' = [use EXCEPT ![u].at = "uploading", ![u].spent = TRUE,
                          ![u].carries = cookies]
    /\ UNCHANGED <<cookies, portal, login>>

\* The portal takes the file, or bounces the request: its redirect is not followed.
Judge(u) ==
    /\ use[u].at = "uploading"
    /\ use' = [use EXCEPT ![u].at =
          IF use[u].carries \in honoured \ stale THEN "judged" ELSE "bounced"]
    /\ UNCHANGED <<cookies, portal, login>>

VerdictArrives(u) ==
    /\ use[u].at = "judged"
    /\ use' = [use EXCEPT ![u].at = "done", ![u].ended = "answered"]
    /\ UNCHANGED <<cookies, portal, login>>

BounceArrives(u) ==
    /\ use[u].at = "bounced"
    /\ cookies' \in {cookies, Guest}
    /\ use' = [Lapse(use, {cookies} \ {cookies'}) EXCEPT ![u] =
          [use[u] EXCEPT !.at = "done", !.ended = "burnt"]]
    /\ UNCHANGED <<portal, login>>

UploadFails(u) ==
    /\ use[u].at \in {"uploading", "judged", "bounced"}
    /\ use' = [use EXCEPT ![u].at = "done", ![u].ended = "unknown"]
    /\ UNCHANGED <<cookies, portal, login>>

\* The portal ends a session, idle for ten minutes or not, or wants it revalidated.
Lapses(l) ==
    /\ l \in honoured
    /\ \/ honoured' = honoured \ {l} /\ stale' = stale \ {l}
       \/ stale' = stale \cup {l} /\ honoured' = honoured
    /\ use' = Lapse(use, {l})
    /\ UNCHANGED <<cookies, login>>

PortalNext ==
    \/ \E l \in Logins :
          \/ StartLogin(l) \/ \E ok \in BOOLEAN : StepEnds(l, ok)
          \/ \E consents \in BOOLEAN : Prompt(l, consents)
          \/ LoggedIn(l) \/ NotLoggedIn(l) \/ LoginStopped(l) \/ Lapses(l)
    \/ \E u \in Uses :
          \/ \E submit \in BOOLEAN : Probe(u, submit)
          \/ Confirm(u) \/ LogonPage(u) \/ FormArrives(u) \/ ProbeLost(u)
          \/ Redeem(u) \/ Judge(u) \/ VerdictArrives(u) \/ BounceArrives(u) \/ UploadFails(u)

PortalSpec == PortalInit /\ [][PortalNext]_portalVars

-----------------------------------------------------------------------------
(* Properties.                                                             *)

PortalTypeOK ==
    /\ cookies \in Cookies /\ honoured \subseteq Logins /\ stale \subseteq honoured
    /\ login \in [Logins -> LoginStates]
    /\ use \in [Uses -> UseStates]

\* "The session is probed BEFORE the single-use token is spent, so a lapsed
\* login costs nothing": an approval is lost to a bounced upload only when the
\* session the probe confirmed ended or went stale at the portal, or was replaced
\* in the jar, while the submission was between the two.
BurntOnlyByRace ==
    \A u \in Uses : use[u].ended = "burnt" => use[u].lapsed

\* The user's certificate prompt fires only while the call that was confirmed
\* for it is waiting for it, and only behind steps that all succeeded: a failed
\* chain, a timeout or a cancelled call leaves no curl that could still ask.
NoStrayPrompt ==
    [][\A l \in Logins : login'[l].prompts # login[l].prompts =>
          login[l].step = 3 /\ login[l].sound]_portalVars
=============================================================================
