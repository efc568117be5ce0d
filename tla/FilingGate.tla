---------------------------- MODULE FilingGate ----------------------------
(***************************************************************************)
(* The two-step gated filing flow of the MCP server: `prepare` issues a    *)
(* confirmation token, `submit` verifies it, redeems it in the TokenLedger *)
(* and uploads (src/src/anafpy/mcp/gate.py; the declaration variant is     *)
(* declaratie_submit in src/src/anafpy/mcp/declaratii/tools.py).           *)
(*                                                                         *)
(* Every submit call is a coroutine of one asyncio event loop.  A call     *)
(* keeps the loop between two awaits, while the wall clock keeps running;  *)
(* at an await any other call may run.                                     *)
(***************************************************************************)
EXTENDS Naturals, FiniteSets

CONSTANTS
    Calls,        \* submit tool calls; each is made at most once
    XmlKinds,     \* kinds filed by run_submit: e-Factura, e-Transport
    PortalKind,   \* the kind filed by declaratie_submit
    Docs,         \* documents (the exact bytes)
    Missing,      \* the file behind a path cannot be read
    Path,         \* the submit argument names a file instead of carrying XML
    Contexts,     \* what a token binds besides the bytes: CIF, file name
    Omitted,      \* the caller leaves the cif / filename argument out
    Default,      \* [kind -> ANAFPY_CIF or the file's own name; or Omitted]
    NoToken,      \* a string that no server process ever issued
    TTL,          \* lifetime of a token, in clock ticks
    MaxTime,      \* bound: the clock stops here
    MaxBoot,      \* bound: server processes, one after the other
    MaxIssued     \* bound: distinct tokens ever issued

Kinds == XmlKinds \cup {PortalKind}

ASSUME KindsDiffer == PortalKind \notin XmlKinds
ASSUME MarkersDiffer ==
    Missing \notin Docs /\ Path \notin Docs /\ Omitted \notin Contexts
ASSUME DefaultType ==
    /\ Default \in [Kinds -> Contexts \cup {Omitted}]
    /\ Default[PortalKind] # Omitted    \* a path always has a name
ASSUME BoundsType == TTL \in Nat /\ MaxTime \in Nat /\ MaxBoot \in Nat /\ MaxIssued \in Nat

\* The claims of a JWT.  Two tokens with the same claims are the same string:
\* the claims hold no nonce.  A digest stands for what it digests.
Token == [key : 0..MaxBoot, kind : Kinds, payload : Docs, context : Contexts,
          exp : 0..(MaxTime + TTL)]
ASSUME NoTokenIsNone == NoToken \notin Token

VARIABLES
    clock,        \* time.time()
    boot,         \* which server process runs: its signing key
    disk,         \* what the file behind the path holds
    issued,       \* every token `prepare` ever returned (history)
    used,         \* TokenLedger._used; an entry's expiry is its token's exp
    jar,          \* the portal client holds session cookies
    session,      \* the portal still honours them
    pc,           \* where each submit call is
    tok,          \* the token a call presented, once verified
    body,         \* what a verified call is about to upload
    live,         \* calls that redeemed a token that had not expired (history)
    wire,         \* uploads sent and not yet processed by ANAF
    verdict,      \* what became of a call's upload: ANAF's decision, or lost
    filed         \* calls whose upload ANAF registered

vars == <<clock, boot, disk, issued, used, jar, session,
          pc, tok, body, live, wire, verdict, filed>>
callVars == <<pc, tok, body, live>>
anafVars == <<wire, verdict, filed>>
hostVars == <<boot, disk, jar, session>>

\* Where a call is, and with which answer it ended.
Answers == {"refused", "nofile", "rejected", "accepted", "unrecognised", "unknown"}
PC == {"idle", "read", "verified", "probing", "spent", "uploading", "dead"} \cup Answers
Verdicts == {"none", "accepted", "rejected", "bounced", "lost"}

\* What a call asks ANAF to register: gate.py hashes exactly these three.
Submission == [kind : Kinds, payload : Docs, context : Contexts]
ClaimsOf(t) == [kind |-> t.kind, payload |-> t.payload, context |-> t.context]

\* A call between verification and redemption in run_submit awaits nothing.
LoopFree == \A c \in Calls : pc[c] # "verified"

\* XmlInput.resolve, and read_bytes of pdf_path: the bytes at this moment.
Resolve(source) == IF source = Path THEN disk ELSE source

\* require_cif, and `filename or source.name`.
ContextForForgetsDefault(kind, arg) == arg   \* mutant: the default is not applied
ContextFor(kind, arg) == IF arg = Omitted THEN Default[kind] ELSE arg

\* Mutants of Verifies: the digest is not compared; the digest leaves the context
\* out; the key outlives its process.
VerifiesWithoutDigest(t, s) == t \in issued /\ t.key = boot /\ t.exp > clock /\ t.kind = s.kind
VerifiesWithoutContext(t, s) ==
    /\ t \in issued /\ t.key = boot /\ t.exp > clock
    /\ t.kind = s.kind /\ t.payload = s.payload
VerifiesAnyKey(t, s) == t \in issued /\ t.exp > clock /\ ClaimsOf(t) = s

\* verify_token: the signature, the expiry, the kind and the digest.
Verifies(t, s) ==
    /\ t \in issued
    /\ t.key = boot
    /\ t.exp > clock
    /\ ClaimsOf(t) = s

PrunedEarly == {t \in used : t.exp > clock + 1}   \* mutant: a second too early

\* TokenLedger.consume drops the entries that passed their expiry...
Pruned == {t \in used : t.exp > clock}

Init ==
    /\ clock = 0
    /\ boot = 0
    /\ disk \in Docs \cup {Missing}
    /\ issued = {}
    /\ used = {}
    /\ jar = FALSE
    /\ session = FALSE
    /\ pc = [c \in Calls |-> "idle"]
    /\ tok = [c \in Calls |-> NoToken]
    /\ body = [c \in Calls |-> NoToken]
    /\ live = {}
    /\ wire = {}
    /\ verdict = [c \in Calls |-> "none"]
    /\ filed = {}

-----------------------------------------------------------------------------
(* The call's steps.                                                       *)

\* End call c with an answer; the token and the bytes are forgotten only when
\* nothing was sent.
Refuse(c) ==
    /\ pc' = [pc EXCEPT ![c] = "refused"]
    /\ tok' = [tok EXCEPT ![c] = NoToken]
    /\ body' = [body EXCEPT ![c] = NoToken]
    /\ UNCHANGED live

\* A prepare tool: resolve the document and the context, show the preview and
\* issue a token for exactly those.
Prepare(kind, source, arg) ==
    LET payload == Resolve(source)
        context == ContextFor(kind, arg)
        t == [key |-> boot, kind |-> kind, payload |-> payload,
              context |-> context, exp |-> clock + TTL]
    IN  /\ LoopFree
        /\ kind = PortalKind => source = Path
        /\ payload # Missing
        /\ context # Omitted
        /\ Cardinality(issued \cup {t}) <= MaxIssued
        /\ issued' = issued \cup {t}
        /\ UNCHANGED <<clock, used, hostVars, callVars, anafVars>>

\* run_submit up to verify_token, one uninterrupted stretch: confirm, resolve,
\* require_cif and the token all have to be right.
XmlVerify(c, kind, source, arg, t, confirm) ==
    LET s == [kind |-> kind, payload |-> Resolve(source),
              context |-> ContextFor(kind, arg)]
    IN  /\ LoopFree
        /\ pc[c] = "idle"
        /\ kind \in XmlKinds
        /\ IF /\ confirm
              /\ s.payload # Missing
              /\ s.context # Omitted
              /\ Verifies(t, s)
           THEN /\ pc' = [pc EXCEPT ![c] = "verified"]
                /\ tok' = [tok EXCEPT ![c] = t]
                /\ body' = [body EXCEPT ![c] = s]
                /\ UNCHANGED live
           ELSE Refuse(c)
        /\ UNCHANGED <<clock, issued, used, hostVars, anafVars>>

\* ... and refuses a token it still holds; otherwise the token is spent and the
\* upload begins.
Redeem(c) ==
    IF tok[c] \in Pruned
    THEN /\ used' = Pruned
         /\ Refuse(c)
         /\ UNCHANGED anafVars
    ELSE /\ used' = Pruned \cup {tok[c]}
         /\ pc' = [pc EXCEPT ![c] = "spent"]
         /\ live' = IF clock < tok[c].exp THEN live \cup {c} ELSE live
         /\ UNCHANGED <<tok, body, anafVars>>

\* Mutant: the token is consumed before client() raises.
XmlRedeemEager(c, credentials) ==
    /\ pc[c] = "verified"
    /\ IF credentials
       THEN Redeem(c)
       ELSE Refuse(c) /\ used' = Pruned \cup {tok[c]} /\ UNCHANGED anafVars
    /\ UNCHANGED <<clock, issued, hostVars>>

\* run_submit from client() on: a process without OAuth credentials raises
\* before the ledger is touched; else the token is consumed.
XmlRedeem(c, credentials) ==
    /\ pc[c] = "verified"
    /\ IF credentials
       THEN Redeem(c)
       ELSE Refuse(c) /\ UNCHANGED <<used, anafVars>>
    /\ UNCHANGED <<clock, issued, hostVars>>

\* declaratie_submit: confirm, then the file is read on a worker thread while
\* other calls run.
PortalRead(c, arg, t, confirm) ==
    /\ LoopFree
    /\ pc[c] = "idle"
    /\ IF confirm /\ disk # Missing
       THEN /\ pc' = [pc EXCEPT ![c] = "read"]
            /\ tok' = [tok EXCEPT ![c] = t]
            /\ body' = [body EXCEPT ![c] =
                   [kind |-> PortalKind, payload |-> disk,
                    context |-> ContextFor(PortalKind, arg)]]
            /\ UNCHANGED live
       ELSE Refuse(c)
    /\ UNCHANGED <<clock, issued, used, hostVars, anafVars>>

\* The token is verified and the probe starts.  Without cookies the probe
\* answers False without a request.
PortalVerify(c) ==
    /\ LoopFree
    /\ pc[c] = "read"
    /\ IF Verifies(tok[c], body[c]) /\ jar
       THEN /\ pc' = [pc EXCEPT ![c] = "probing"]
            /\ UNCHANGED <<tok, body, live>>
       ELSE Refuse(c)
    /\ UNCHANGED <<clock, issued, used, hostVars, anafVars>>

\* The probe's answer arrives; an active session leads straight to consume, a
\* dead one or a failed probe leaves the token alone.
PortalRedeem(c, reachable) ==
    /\ LoopFree
    /\ pc[c] = "probing"
    /\ IF session /\ reachable
       THEN Redeem(c)
       ELSE Refuse(c) /\ UNCHANGED <<used, anafVars>>
    /\ UNCHANGED <<clock, issued, hostVars>>

\* The request goes out, once AnafAuth has an access token and the connection is
\* up: other calls run meanwhile.
Send(c) ==
    /\ LoopFree
    /\ pc[c] = "spent"
    /\ pc' = [pc EXCEPT ![c] = "uploading"]
    /\ wire' = wire \cup {c}
    /\ UNCHANGED <<clock, issued, used, hostVars, tok, body, live, verdict, filed>>

\* Or it never does: nobody is logged in, the refresh token has expired, the token
\* endpoint or the connection fails.  The token stays spent, and the call cannot
\* tell this from a request that was lost.
SendFails(c) ==
    /\ LoopFree
    /\ pc[c] = "spent"
    /\ pc' = [pc EXCEPT ![c] = "unknown"]
    /\ UNCHANGED <<clock, issued, used, hostVars, tok, body, live, anafVars>>

\* The upload's answer reaches the call.  A redirect of the portal POST means
\* that nothing was filed; every other failure is an UNKNOWN outcome.
Answered(c) ==
    /\ LoopFree
    /\ pc[c] = "uploading"
    /\ verdict[c] \in {"accepted", "rejected", "bounced"}
    /\ pc' = [pc EXCEPT ![c] = IF verdict[c] = "bounced" THEN "nofile" ELSE verdict[c]]
    /\ UNCHANGED <<clock, issued, used, hostVars, tok, body, live, anafVars>>

\* An XML upload is answered with neither an index nor errors, whatever ANAF did
\* with it.  The result carries the raw answer as its error, under the message
\* "ANAF rejected the document at submission".
Unrecognised(c) ==
    /\ LoopFree
    /\ pc[c] = "uploading"
    /\ body[c].kind \in XmlKinds
    /\ pc' = [pc EXCEPT ![c] = "unrecognised"]
    /\ UNCHANGED <<clock, issued, used, hostVars, tok, body, live, anafVars>>

\* Mutant: a timeout reported as a rejection.
UploadFailsAsRejection(c) ==
    /\ LoopFree
    /\ pc[c] = "uploading"
    /\ pc' = [pc EXCEPT ![c] = "rejected"]
    /\ UNCHANGED <<clock, issued, used, hostVars, tok, body, live, anafVars>>

\* A timeout or a broken connection, whether or not ANAF got the request; an HTTP
\* error or an unreadable body; an unrecognised page of the portal.
UploadFails(c) ==
    /\ LoopFree
    /\ pc[c] = "uploading"
    /\ pc' = [pc EXCEPT ![c] = "unknown"]
    /\ UNCHANGED <<clock, issued, used, hostVars, tok, body, live, anafVars>>

-----------------------------------------------------------------------------
(* The environment: ANAF, the portal, the user, time, and the process.     *)

\* ANAF processes an upload that is on the wire, maybe after the call gave up.
\* A filing needs a live session on the portal.
Process(c, accept) ==
    /\ c \in wire
    /\ wire' = wire \ {c}
    /\ LET v == IF body[c].kind = PortalKind /\ ~session THEN "bounced"
                ELSE IF accept THEN "accepted" ELSE "rejected"
       IN  /\ verdict' = [verdict EXCEPT ![c] = v]
           /\ filed' = IF v = "accepted" THEN filed \cup {c} ELSE filed
    /\ UNCHANGED <<clock, issued, used, hostVars, callVars>>

\* The request never arrives.
Drop(c) ==
    /\ c \in wire
    /\ wire' = wire \ {c}
    /\ verdict' = [verdict EXCEPT ![c] = "lost"]
    /\ UNCHANGED <<clock, issued, used, hostVars, callVars, filed>>

\* declaratie_portal_login installs a fresh session (install_session).
PortalLogin ==
    /\ LoopFree
    /\ jar' = TRUE
    /\ session' = TRUE
    /\ UNCHANGED <<clock, boot, disk, issued, used, callVars, anafVars>>

\* The portal ends a session after about ten idle minutes.
SessionDies ==
    /\ session
    /\ session' = FALSE
    /\ UNCHANGED <<clock, boot, disk, jar, issued, used, callVars, anafVars>>

\* Someone rewrites or removes the file behind the path.
Edit(content) ==
    /\ disk' = content
    /\ UNCHANGED <<clock, boot, jar, session, issued, used, callVars, anafVars>>

Tick ==
    /\ clock < MaxTime
    /\ clock' = clock + 1
    /\ UNCHANGED <<issued, used, hostVars, callVars, anafVars>>

\* The server process ends at any point and a new one starts: a fresh signing
\* key, an empty ledger, no portal cookies; what was sent stays sent.
Restart ==
    /\ boot < MaxBoot
    /\ boot' = boot + 1
    /\ used' = {}
    /\ jar' = FALSE
    /\ pc' = [c \in Calls |->
                 IF pc[c] \in {"read", "verified", "probing", "spent", "uploading"}
                 THEN "dead" ELSE pc[c]]
    /\ UNCHANGED <<clock, disk, session, issued, tok, body, live, anafVars>>

-----------------------------------------------------------------------------
Sources == Docs \cup {Path}
Args == Contexts \cup {Omitted}

CallStep(c) ==
    \/ \E kind \in XmlKinds, source \in Sources, arg \in Args,
          t \in issued \cup {NoToken}, confirm \in BOOLEAN :
          XmlVerify(c, kind, source, arg, t, confirm)
    \/ \E arg \in Args, t \in issued \cup {NoToken}, confirm \in BOOLEAN :
          PortalRead(c, arg, t, confirm)
    \/ \E credentials \in BOOLEAN : XmlRedeem(c, credentials)
    \/ PortalVerify(c)
    \/ \E reachable \in BOOLEAN : PortalRedeem(c, reachable)
    \/ Send(c)
    \/ SendFails(c)
    \/ Answered(c)
    \/ Unrecognised(c)
    \/ UploadFails(c)

Environment ==
    \/ \E c \in Calls, accept \in BOOLEAN : Process(c, accept)
    \/ \E c \in Calls : Drop(c)
    \/ PortalLogin
    \/ SessionDies
    \/ \E content \in Docs \cup {Missing} : Edit(content)
    \/ Tick
    \/ Restart

Next ==
    \/ \E kind \in Kinds, source \in Sources, arg \in Args : Prepare(kind, source, arg)
    \/ \E c \in Calls : CallStep(c)
    \/ Environment

Spec == Init /\ [][Next]_vars

-----------------------------------------------------------------------------
(* Properties.                                                             *)

CallType ==
    /\ pc \in [Calls -> PC]
    /\ tok \in [Calls -> Token \cup {NoToken}]
    /\ body \in [Calls -> Submission \cup {NoToken}]
    /\ live \subseteq Calls
    /\ wire \subseteq Calls
    /\ verdict \in [Calls -> Verdicts]
    /\ filed \subseteq Calls

\* Every variable holds what its comment says.
TypeOK ==
    /\ clock \in 0..MaxTime
    /\ boot \in 0..MaxBoot
    /\ disk \in Docs \cup {Missing}
    /\ issued \subseteq Token
    /\ used \subseteq Token
    /\ jar \in BOOLEAN
    /\ session \in BOOLEAN
    /\ CallType

\* Calls whose token was consumed and that still run or were answered; the same
\* without those whose request may never have left.
UploadPC == {"uploading", "nofile", "rejected", "accepted", "unrecognised"}
SpentPC == UploadPC \cup {"spent", "unknown"}

\* Uploads that left the process.
Sent == {c \in Calls : c \in wire \/ verdict[c] # "none"}

\* Whatever reaches ANAF is, byte for byte and for the same taxpayer or file
\* name, what a prepare step showed and the presented token stands for, even
\* though the file may be rewritten at any time (gate.py: "cannot file
\* something other than what the human reviewed").
FiledWasReviewed ==
    \A c \in wire \cup filed : tok[c] \in issued /\ ClaimsOf(tok[c]) = body[c]

\* Redeemed within its lifetime, an approval starts one upload, whatever calls
\* interleave, across awaited probes, ledger pruning and server restarts.
OneUploadPerLiveApproval ==
    \A c, d \in live : tok[c] = tok[d] => c = d

\* No approval is spent in silence.  A ledger entry belongs to a call whose upload
\* left, still may, or that told its user "UNKNOWN, the token is spent": missing
\* client credentials, a dead portal session, a failed probe or a second call with
\* the same token end in a refusal that costs nothing (gate.py, tools.py: "must not
\* burn the human's approval").
NoSilentBurn ==
    \A t \in used : \E c \in Calls :
        tok[c] = t /\ (c \in Sent \/ pc[c] \in {"spent", "unknown"})

\* The definite answers are true: a refusal, a rejection with ANAF's own errors or
\* "NOTHING was filed" means that ANAF has no such filing and none is on its way,
\* and "accepted" means that ANAF has it.  "unknown" says neither; an unrecognised
\* answer is worded as a rejection and may be wrong.
AnswersAreTrue ==
    \A c \in Calls :
        /\ pc[c] \in {"refused", "nofile", "rejected"} => c \notin filed \cup wire
        /\ pc[c] = "accepted" => c \in filed

\* What gate.py says of the ledger: "each one files at most once".
FilesAtMostOnce ==
    \A c, d \in filed : tok[c] = tok[d] => c = d

\* The inductive strengthening of the invariants above.  A call holds a checked
\* token from verification on; a token redeemed while it lives stays in the
\* ledger of its process; what ANAF knows of a call starts with its upload.
TokensChecked ==
    /\ \A t \in issued : t.key <= boot
    /\ \A c \in Calls :
          pc[c] \in {"verified", "probing"} \cup SpentPC \/ c \in wire \cup filed \cup live
             => tok[c] \in issued /\ ClaimsOf(tok[c]) = body[c]
    /\ \A c \in Calls : pc[c] \in {"verified", "probing"} => tok[c].key = boot

LedgerRemembers ==
    \A c \in live : tok[c].key = boot /\ tok[c].exp > clock => tok[c] \in used

UploadsAccounted ==
    \A c \in Calls :
        /\ c \in filed <=> verdict[c] = "accepted"
        /\ c \in wire => verdict[c] = "none"
        /\ c \in Sent => pc[c] \in UploadPC \cup {"unknown", "dead"}
        /\ c \in live => pc[c] \in SpentPC \cup {"dead"}
        /\ pc[c] \in UploadPC => c \in Sent
        /\ pc[c] \in {"accepted", "rejected"} => verdict[c] = pc[c]
        /\ pc[c] = "nofile" => verdict[c] = "bounced"

GateInv ==
    /\ TypeOK
    /\ TokensChecked
    /\ LedgerRemembers
    /\ UploadsAccounted
    /\ OneUploadPerLiveApproval
    /\ NoSilentBurn

\* What the gate promises about live approvals: a call is an upload.
SpentOn(C) == {[token |-> tok[c], upload |-> c] : c \in C}
Contract == INSTANCE ApprovalContract WITH
    Upload <- Calls,
    approvals <- issued,
    spent <- SpentOn(live),
    filings <- SpentOn(live \cap filed)

\* The gate implements the contract.
ImplementsContract == Contract!Spec
=============================================================================
