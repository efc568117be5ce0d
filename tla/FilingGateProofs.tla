-------------------------- MODULE FilingGateProofs --------------------------
(***************************************************************************)
(* The gate's invariants for every set of calls, documents and contexts,   *)
(* every token lifetime and every bound.  GateInv is inductive; the        *)
(* properties follow from it.  Every step of the specification has one of  *)
(* eight shapes (StepShape); the conjuncts are proved shape by shape.      *)
(***************************************************************************)
EXTENDS FilingGate, TLAPS

USE DEF Kinds, Answers, PC, Verdicts, UploadPC, SpentPC

\* The initial state satisfies the inductive invariant.
LEMMA InitGateInv == Init => GateInv
<1> SUFFICES ASSUME Init PROVE GateInv
  OBVIOUS
<1>1. TypeOK
  <2>1. clock \in 0..MaxTime /\ boot \in 0..MaxBoot
    BY BoundsType DEF Init
  <2>2. jar \in BOOLEAN /\ session \in BOOLEAN /\ disk \in Docs \cup {Missing}
    BY Zenon DEF Init
  <2>3. issued \subseteq Token /\ used \subseteq Token
    BY DEF Init
  <2>4. CallType
    BY DEF Init, CallType
  <2>5. QED
    BY <2>1, <2>2, <2>3, <2>4 DEF TypeOK
<1>2. TokensChecked /\ LedgerRemembers /\ UploadsAccounted
  BY DEF Init, TokensChecked, LedgerRemembers, UploadsAccounted, Sent
<1>3. OneUploadPerLiveApproval /\ NoSilentBurn
  BY DEF Init, OneUploadPerLiveApproval, NoSilentBurn
<1>4. QED
  BY <1>1, <1>2, <1>3 DEF GateInv

-----------------------------------------------------------------------------
(* The shapes of a step, as the calls and the ledger see it.               *)

\* Time passes, an approval is handed out, or the surroundings change.
Quiet ==
    /\ clock' \in {clock, clock + 1}
    /\ issued' = issued \/ \E t \in Token : t.key = boot /\ issued' = issued \cup {t}
    /\ UNCHANGED <<boot, used, callVars, anafVars>>

\* A call that has sent nothing ends; the ledger is pruned or left alone.
GiveUp(c) ==
    /\ pc[c] \in {"idle", "read", "verified", "probing"}
    /\ Refuse(c)
    /\ used' \in {used, Pruned}
    /\ UNCHANGED <<clock, boot, issued, anafVars>>

\* A call reads its document or has its token checked.
Advance(c) ==
    /\ pc[c] \in {"idle", "read"}
    /\ \E p \in {"read", "verified", "probing"}, t \in issued \cup {NoToken}, s \in Submission :
          /\ pc' = [pc EXCEPT ![c] = p]
          /\ tok' = [tok EXCEPT ![c] = t]
          /\ body' = [body EXCEPT ![c] = s]
          /\ p # "read" => t \in issued /\ t.key = boot /\ ClaimsOf(t) = s
    /\ UNCHANGED <<clock, boot, issued, used, live, anafVars>>

\* A call redeems its token.
Spend(c) ==
    /\ pc[c] \in {"verified", "probing"}
    /\ tok[c] \notin Pruned
    /\ used' = Pruned \cup {tok[c]}
    /\ pc' = [pc EXCEPT ![c] = "spent"]
    /\ live' = IF clock < tok[c].exp THEN live \cup {c} ELSE live
    /\ UNCHANGED <<clock, boot, issued, tok, body, anafVars>>

\* A call sends its upload.
Launch(c) ==
    /\ pc[c] = "spent"
    /\ pc' = [pc EXCEPT ![c] = "uploading"]
    /\ wire' = wire \cup {c}
    /\ UNCHANGED <<clock, boot, issued, used, tok, body, live, verdict, filed>>

\* A call that redeemed its token ends.
End(c) ==
    /\ \E p \in {"nofile", "accepted", "rejected", "unrecognised", "unknown"} :
          /\ pc' = [pc EXCEPT ![c] = p]
          /\ pc[c] = "uploading" \/ (pc[c] = "spent" /\ p = "unknown")
          /\ p \in {"accepted", "rejected"} => verdict[c] = p
          /\ p = "nofile" => verdict[c] = "bounced"
    /\ UNCHANGED <<clock, boot, issued, used, tok, body, live, anafVars>>

\* ANAF processes an upload, or it is lost.
Leave(c) ==
    /\ c \in wire
    /\ wire' = wire \ {c}
    /\ \E v \in Verdicts \ {"none"} :
          /\ verdict' = [verdict EXCEPT ![c] = v]
          /\ filed' = IF v = "accepted" THEN filed \cup {c} ELSE filed
    /\ UNCHANGED <<clock, boot, issued, used, callVars>>

\* Every step has one of these shapes.
LEMMA StepShape ==
  ASSUME GateInv, [Next]_vars
  PROVE  \/ Quiet
         \/ \E c \in Calls : \/ GiveUp(c) \/ Advance(c) \/ Spend(c)
                            \/ Launch(c) \/ End(c) \/ Leave(c)
         \/ Restart
<1> USE DEF GateInv, TypeOK, CallType
<1>1. ASSUME NEW c \in Calls, pc[c] \in {"verified", "probing"}, Redeem(c),
             UNCHANGED <<clock, issued, hostVars>>
      PROVE  GiveUp(c) \/ Spend(c)
  <2>1. CASE tok[c] \in Pruned
    BY <1>1, <2>1 DEF Redeem, GiveUp, hostVars
  <2>2. CASE tok[c] \notin Pruned
    BY <1>1, <2>2 DEF Redeem, Spend, hostVars
  <2>3. QED
    BY <2>1, <2>2
<1>2. ASSUME NEW c \in Calls, pc[c] \in {"idle", "read", "verified", "probing"},
             Refuse(c), UNCHANGED <<clock, issued, used, hostVars, anafVars>>
      PROVE  GiveUp(c)
  BY <1>2 DEF GiveUp, hostVars
<1>3. ASSUME NEW kind \in Kinds, NEW source \in Sources, NEW arg \in Args,
             Prepare(kind, source, arg)
      PROVE  Quiet
  <2> DEFINE t == [key |-> boot, kind |-> kind, payload |-> Resolve(source),
                   context |-> ContextFor(kind, arg), exp |-> clock + TTL]
  <2>1. Resolve(source) \in Docs /\ ContextFor(kind, arg) \in Contexts
    BY <1>3, DefaultType DEF Prepare, Resolve, ContextFor, Sources, Args
  <2>2. t \in Token
    BY <2>1, BoundsType DEF Token
  <2>3. issued' = issued \cup {t} /\ t.key = boot
    BY <1>3 DEF Prepare
  <2>4. QED
    BY <1>3, <2>2, <2>3 DEF Prepare, Quiet, hostVars
<1>4. ASSUME NEW c \in Calls, NEW kind \in XmlKinds, NEW source \in Sources,
             NEW arg \in Args, NEW t \in issued \cup {NoToken},
             NEW confirm \in BOOLEAN, XmlVerify(c, kind, source, arg, t, confirm)
      PROVE  GiveUp(c) \/ Advance(c)
  <2> DEFINE s == [kind |-> kind, payload |-> Resolve(source),
                   context |-> ContextFor(kind, arg)]
  <2>1. CASE confirm /\ s.payload # Missing /\ s.context # Omitted /\ Verifies(t, s)
    <3>1. Resolve(source) \in Docs /\ ContextFor(kind, arg) \in Contexts
      BY <2>1, DefaultType DEF Resolve, ContextFor, Sources, Args
    <3>2. s \in Submission
      BY <3>1 DEF Submission
    <3>3. t \in issued /\ t.key = boot /\ ClaimsOf(t) = s
      BY <2>1 DEF Verifies
    <3>4. /\ pc[c] = "idle"
          /\ pc' = [pc EXCEPT ![c] = "verified"]
          /\ tok' = [tok EXCEPT ![c] = t]
          /\ body' = [body EXCEPT ![c] = s]
          /\ UNCHANGED <<clock, issued, used, hostVars, live, anafVars>>
      BY <1>4, <2>1 DEF XmlVerify
    <3>5. QED
      BY <3>2, <3>3, <3>4 DEF Advance, hostVars
  <2>2. CASE ~(confirm /\ s.payload # Missing /\ s.context # Omitted /\ Verifies(t, s))
    BY <1>2, <1>4, <2>2 DEF XmlVerify
  <2>3. QED
    BY <2>1, <2>2
<1>5. ASSUME NEW c \in Calls, NEW arg \in Args, NEW t \in issued \cup {NoToken},
             NEW confirm \in BOOLEAN, PortalRead(c, arg, t, confirm)
      PROVE  GiveUp(c) \/ Advance(c)
  <2>1. CASE confirm /\ disk # Missing
    <3> DEFINE s == [kind |-> PortalKind, payload |-> disk,
                     context |-> ContextFor(PortalKind, arg)]
    <3>1. ContextFor(PortalKind, arg) \in Contexts
      BY DefaultType DEF ContextFor, Args
    <3>2. s \in Submission
      BY <2>1, <3>1 DEF Submission
    <3>3. QED
      BY <1>5, <2>1, <3>2 DEF PortalRead, Advance, hostVars
  <2>2. CASE ~(confirm /\ disk # Missing)
    BY <1>2, <1>5, <2>2 DEF PortalRead
  <2>3. QED
    BY <2>1, <2>2
<1>6. ASSUME NEW c \in Calls, PortalVerify(c)
      PROVE  GiveUp(c) \/ Advance(c)
  <2>1. CASE Verifies(tok[c], body[c]) /\ jar
    <3>1. tok[c] \in issued /\ tok[c].key = boot /\ ClaimsOf(tok[c]) = body[c]
      BY <2>1 DEF Verifies
    <3>2. body[c] \in Submission
      BY <3>1 DEF ClaimsOf, Submission, Token
    <3>3. tok' = [tok EXCEPT ![c] = tok[c]] /\ body' = [body EXCEPT ![c] = body[c]]
      BY <1>6, <2>1 DEF PortalVerify
    <3>4. QED
      BY <1>6, <2>1, <3>1, <3>2, <3>3 DEF PortalVerify, Advance, hostVars
  <2>2. CASE ~(Verifies(tok[c], body[c]) /\ jar)
    BY <1>2, <1>6, <2>2 DEF PortalVerify
  <2>3. QED
    BY <2>1, <2>2
<1>7. ASSUME NEW c \in Calls, NEW credentials \in BOOLEAN, XmlRedeem(c, credentials)
      PROVE  GiveUp(c) \/ Spend(c)
  BY <1>1, <1>2, <1>7 DEF XmlRedeem
<1>8. ASSUME NEW c \in Calls, NEW reachable \in BOOLEAN, PortalRedeem(c, reachable)
      PROVE  GiveUp(c) \/ Spend(c)
  BY <1>1, <1>2, <1>8 DEF PortalRedeem
<1>9. ASSUME NEW c \in Calls,
             SendFails(c) \/ Answered(c) \/ Unrecognised(c) \/ UploadFails(c)
      PROVE  End(c)
  BY <1>9 DEF SendFails, Answered, Unrecognised, UploadFails, End, hostVars
<1>10. ASSUME NEW c \in Calls, NEW accept \in BOOLEAN, Process(c, accept) \/ Drop(c)
       PROVE  Leave(c)
  BY <1>10 DEF Process, Drop, Leave, hostVars
<1>11. CASE PortalLogin \/ SessionDies \/ (\E content \in Docs \cup {Missing} : Edit(content))
            \/ Tick \/ UNCHANGED vars
  BY <1>11 DEF PortalLogin, SessionDies, Edit, Tick, vars, Quiet, callVars, anafVars, hostVars
<1>12. ASSUME NEW c \in Calls, CallStep(c)
       PROVE  GiveUp(c) \/ Advance(c) \/ Spend(c) \/ Launch(c) \/ End(c)
  <2>1. CASE Send(c)
    BY <2>1 DEF Send, Launch, hostVars
  <2>2. CASE ~Send(c)
    BY <1>4, <1>5, <1>6, <1>7, <1>8, <1>9, <1>12, <2>2 DEF CallStep
  <2>3. QED
    BY <2>1, <2>2
<1>13. CASE Environment
  BY <1>10, <1>11, <1>13 DEF Environment
<1>14. QED
  BY <1>3, <1>11, <1>12, <1>13 DEF Next

-----------------------------------------------------------------------------
(* Each conjunct of GateInv, kept by every step.                           *)

\* Variables of the host and of the prepare side keep their types.
LEMMA HostTypeStep ==
  ASSUME GateInv, [Next]_vars
  PROVE  /\ clock' \in 0..MaxTime /\ boot' \in 0..MaxBoot
         /\ disk' \in Docs \cup {Missing} /\ jar' \in BOOLEAN /\ session' \in BOOLEAN
         /\ issued' \subseteq Token
<1> DEFINE Goal == /\ clock' \in 0..MaxTime /\ boot' \in 0..MaxBoot
                   /\ disk' \in Docs \cup {Missing} /\ jar' \in BOOLEAN
                   /\ session' \in BOOLEAN /\ issued' \subseteq Token
<1>1. /\ clock \in 0..MaxTime /\ boot \in 0..MaxBoot
      /\ disk \in Docs \cup {Missing} /\ jar \in BOOLEAN /\ session \in BOOLEAN
      /\ issued \subseteq Token
  BY DEF GateInv, TypeOK
<1>2. ASSUME UNCHANGED <<clock, issued, hostVars>>
      PROVE  Goal
  BY <1>1, <1>2, Zenon DEF hostVars
<1>3. ASSUME NEW kind \in Kinds, NEW source \in Sources, NEW arg \in Args,
             Prepare(kind, source, arg)
      PROVE  Goal
  <2> DEFINE t == [key |-> boot, kind |-> kind, payload |-> Resolve(source),
                   context |-> ContextFor(kind, arg), exp |-> clock + TTL]
  <2>1. Resolve(source) \in Docs /\ ContextFor(kind, arg) \in Contexts
    BY <1>1, <1>3, DefaultType DEF Prepare, Resolve, ContextFor, Sources, Args
  <2>2. clock + TTL \in 0..(MaxTime + TTL)
    BY <1>1, BoundsType
  <2>3. t \in Token
    BY <1>1, <2>1, <2>2 DEF Token
  <2>4. issued' \subseteq Token
    BY <1>1, <1>3, <2>3 DEF Prepare
  <2>5. UNCHANGED <<clock, hostVars>>
    BY <1>3 DEF Prepare
  <2>6. QED
    BY <1>1, <2>4, <2>5, Zenon DEF hostVars
<1>4. ASSUME NEW c \in Calls, CallStep(c)
      PROVE  Goal
  <2>1. UNCHANGED <<clock, issued, hostVars>>
    BY <1>4 DEF CallStep, XmlVerify, PortalRead, XmlRedeem, PortalVerify, PortalRedeem,
       Send, SendFails, Answered, Unrecognised, UploadFails
  <2>2. QED
    BY <1>2, <2>1
<1>5. ASSUME NEW c \in Calls, NEW accept \in BOOLEAN, Process(c, accept) \/ Drop(c)
      PROVE  Goal
  <2>1. UNCHANGED <<clock, issued, hostVars>>
    BY <1>5 DEF Process, Drop
  <2>2. QED
    BY <1>2, <2>1
<1>6. CASE PortalLogin \/ SessionDies
  BY <1>1, <1>6, Zenon DEF PortalLogin, SessionDies
<1>7. ASSUME NEW content \in Docs \cup {Missing}, Edit(content)
      PROVE  Goal
  BY <1>1, <1>7, Zenon DEF Edit
<1>8. CASE Tick
  <2>1. clock' \in 0..MaxTime
    BY <1>1, <1>8, BoundsType DEF Tick
  <2>2. QED
    BY <1>1, <1>8, <2>1, Zenon DEF Tick, hostVars
<1>9. CASE Restart
  <2>1. boot' \in 0..MaxBoot
    BY <1>1, <1>9, BoundsType DEF Restart
  <2>2. jar' \in BOOLEAN
    BY <1>9, Zenon DEF Restart
  <2>3. QED
    BY <1>1, <1>9, <2>1, <2>2, Zenon DEF Restart
<1>10. CASE UNCHANGED vars
  BY <1>2, <1>10 DEF vars, hostVars
<1>11. CASE Environment
  BY <1>5, <1>6, <1>7, <1>8, <1>9, <1>11 DEF Environment
<1>12. QED
  BY <1>3, <1>4, <1>10, <1>11 DEF Next

\* The calls, ANAF's side and the ledger keep their types.
LEMMA CallTypeStep ==
  ASSUME GateInv, [Next]_vars
  PROVE  CallType' /\ used' \subseteq Token
<1>1. CallType /\ used \subseteq Token /\ issued \subseteq Token
  BY DEF GateInv, TypeOK
<1> USE <1>1 DEF CallType
<1>2. CASE Quiet
  BY <1>2 DEF Quiet, callVars, anafVars
<1>3. CASE Restart
  BY <1>3 DEF Restart, anafVars
<1>4. ASSUME NEW c \in Calls, GiveUp(c)
      PROVE  CallType' /\ used' \subseteq Token
  BY <1>4 DEF GiveUp, Refuse, Pruned, anafVars
<1>5. ASSUME NEW c \in Calls, Advance(c)
      PROVE  CallType' /\ used' \subseteq Token
  BY <1>5 DEF Advance, anafVars
<1>6. ASSUME NEW c \in Calls, Spend(c)
      PROVE  CallType' /\ used' \subseteq Token
  <2>1. tok[c] \in Token
    BY <1>6 DEF Spend, anafVars, GateInv, TokensChecked
  <2>2. QED
    BY <1>6, <2>1 DEF Spend, anafVars, Pruned
<1>7. ASSUME NEW c \in Calls, Launch(c) \/ End(c)
      PROVE  CallType' /\ used' \subseteq Token
  BY <1>7 DEF Launch, End, anafVars
<1>8. ASSUME NEW c \in Calls, Leave(c)
      PROVE  CallType' /\ used' \subseteq Token
  BY <1>8 DEF Leave, callVars
<1>9. QED
  BY StepShape, <1>2, <1>3, <1>4, <1>5, <1>6, <1>7, <1>8

\* A call that holds a checked token keeps it.
LEMMA TokensCheckedStep ==
  ASSUME GateInv, [Next]_vars
  PROVE  TokensChecked'
<1>1. /\ TokensChecked /\ CallType /\ boot \in Nat /\ issued \subseteq Token
      /\ \A c \in Calls : c \in wire \cup filed \cup live => pc[c] \in SpentPC \cup {"dead"}
  BY DEF GateInv, TypeOK, UploadsAccounted, Sent
<1> USE <1>1 DEF TokensChecked, CallType
<1>2. CASE Quiet
  BY <1>2 DEF Quiet, callVars, anafVars
<1>3. CASE Restart
  <2>1. \A t \in issued : t.key \in Nat
    BY DEF Token
  <2>2. QED
    BY <1>3, <2>1 DEF Restart, anafVars
<1>4. ASSUME NEW c \in Calls, GiveUp(c)
      PROVE  TokensChecked'
  BY <1>4 DEF GiveUp, Refuse, anafVars
<1>5. ASSUME NEW c \in Calls, Advance(c)
      PROVE  TokensChecked'
  BY <1>5 DEF Advance, anafVars
<1>6. ASSUME NEW c \in Calls, Spend(c)
      PROVE  TokensChecked'
  BY <1>6 DEF Spend, anafVars
<1>7. ASSUME NEW c \in Calls, Launch(c) \/ End(c)
      PROVE  TokensChecked'
  BY <1>7 DEF Launch, End, anafVars
<1>8. ASSUME NEW c \in Calls, Leave(c)
      PROVE  TokensChecked'
  BY <1>8 DEF Leave, callVars
<1>9. QED
  BY StepShape, <1>2, <1>3, <1>4, <1>5, <1>6, <1>7, <1>8

\* The ledger drops an entry only when its token has expired; a restart empties
\* it, and no token of the new process was redeemed yet.
LEMMA LedgerRemembersStep ==
  ASSUME GateInv, [Next]_vars
  PROVE  LedgerRemembers'
<1>1. /\ LedgerRemembers /\ TokensChecked /\ CallType
      /\ boot \in Nat /\ clock \in Nat /\ issued \subseteq Token
      /\ \A c \in live : pc[c] \in SpentPC \cup {"dead"} /\ tok[c] \in issued
  <2>1. LedgerRemembers /\ TokensChecked /\ CallType
    BY DEF GateInv, TypeOK
  <2>2. boot \in Nat /\ clock \in Nat /\ issued \subseteq Token
    BY DEF GateInv, TypeOK
  <2>3. \A c \in live : pc[c] \in SpentPC \cup {"dead"}
    BY <2>1 DEF GateInv, CallType, UploadsAccounted, Sent
  <2>4. \A c \in live : tok[c] \in issued
    BY <2>1 DEF CallType, TokensChecked
  <2>5. QED
    BY <2>1, <2>2, <2>3, <2>4
<1>2. \A t \in issued : t.exp \in Nat /\ t.key \in Nat
  BY <1>1, BoundsType DEF Token
<1> USE <1>1, <1>2 DEF LedgerRemembers, CallType
<1>3. CASE Quiet
  BY <1>3 DEF Quiet, callVars, anafVars
<1>4. CASE Restart
  BY <1>4 DEF Restart, TokensChecked, anafVars
<1>5. ASSUME NEW c \in Calls, GiveUp(c)
      PROVE  LedgerRemembers'
  BY <1>5 DEF GiveUp, Refuse, Pruned, anafVars
<1>6. ASSUME NEW c \in Calls, Advance(c)
      PROVE  LedgerRemembers'
  BY <1>6 DEF Advance, anafVars
<1>7. ASSUME NEW c \in Calls, Spend(c)
      PROVE  LedgerRemembers'
  BY <1>7 DEF Spend, anafVars, Pruned
<1>8. ASSUME NEW c \in Calls, Launch(c) \/ End(c) \/ Leave(c)
      PROVE  LedgerRemembers'
  BY <1>8 DEF Launch, End, Leave, callVars, anafVars
<1>9. QED
  BY StepShape, <1>3, <1>4, <1>5, <1>6, <1>7, <1>8

\* What ANAF knows of a call and what the call answers agree.
LEMMA UploadsAccountedStep ==
  ASSUME GateInv, [Next]_vars
  PROVE  UploadsAccounted'
<1>1. UploadsAccounted /\ CallType
  BY DEF GateInv, TypeOK
<1> USE <1>1 DEF UploadsAccounted, Sent, CallType
<1>2. CASE Quiet
  BY <1>2 DEF Quiet, callVars, anafVars
<1>3. CASE Restart
  BY <1>3 DEF Restart, anafVars
<1>4. ASSUME NEW c \in Calls, GiveUp(c)
      PROVE  UploadsAccounted'
  BY <1>4 DEF GiveUp, Refuse, anafVars
<1>5. ASSUME NEW c \in Calls, Advance(c)
      PROVE  UploadsAccounted'
  BY <1>5 DEF Advance, anafVars
<1>6. ASSUME NEW c \in Calls, Spend(c)
      PROVE  UploadsAccounted'
  BY <1>6 DEF Spend, anafVars
<1>7. ASSUME NEW c \in Calls, Launch(c) \/ End(c)
      PROVE  UploadsAccounted'
  BY <1>7 DEF Launch, End, anafVars
<1>8. ASSUME NEW c \in Calls, Leave(c)
      PROVE  UploadsAccounted'
  BY <1>8 DEF Leave, callVars
<1>9. QED
  BY StepShape, <1>2, <1>3, <1>4, <1>5, <1>6, <1>7, <1>8

\* A second live redemption would find the first one's entry.
LEMMA OneUploadStep ==
  ASSUME GateInv, [Next]_vars
  PROVE  OneUploadPerLiveApproval'
<1>1. /\ OneUploadPerLiveApproval /\ LedgerRemembers /\ TokensChecked /\ CallType
      /\ \A c \in live : pc[c] \in SpentPC \cup {"dead"}
  <2>1. OneUploadPerLiveApproval /\ LedgerRemembers /\ TokensChecked /\ CallType
    BY DEF GateInv, TypeOK
  <2>2. \A c \in live : pc[c] \in SpentPC \cup {"dead"}
    BY <2>1 DEF GateInv, CallType, UploadsAccounted, Sent
  <2>3. QED
    BY <2>1, <2>2
<1> USE <1>1 DEF OneUploadPerLiveApproval, CallType
<1>2. CASE Quiet \/ Restart
  BY <1>2 DEF Quiet, Restart, callVars, anafVars
<1>3. ASSUME NEW c \in Calls, GiveUp(c)
      PROVE  OneUploadPerLiveApproval'
  BY <1>3 DEF GiveUp, Refuse, anafVars
<1>4. ASSUME NEW c \in Calls, Advance(c)
      PROVE  OneUploadPerLiveApproval'
  BY <1>4 DEF Advance, anafVars
<1>5. ASSUME NEW c \in Calls, Spend(c)
      PROVE  OneUploadPerLiveApproval'
  <2>1. CASE clock < tok[c].exp
    <3>1. tok[c] \notin used
      BY <1>5, <2>1, BoundsType DEF Spend, anafVars, Pruned, TokensChecked, GateInv, TypeOK, Token
    <3>2. \A d \in live : tok[d] # tok[c]
      <4>1. tok[c].key = boot
        BY <1>5 DEF Spend, anafVars, TokensChecked
      <4>2. tok[c].exp > clock
        BY <1>5, <2>1, BoundsType DEF Spend, anafVars, TokensChecked, GateInv, TypeOK, Token
      <4>3. QED
        BY <3>1, <4>1, <4>2 DEF LedgerRemembers
    <3>3. live' = live \cup {c} /\ tok' = tok
      BY <1>5, <2>1 DEF Spend, anafVars
    <3>4. QED
      BY <3>2, <3>3
  <2>2. CASE ~(clock < tok[c].exp)
    BY <1>5, <2>2 DEF Spend, anafVars
  <2>3. QED
    BY <2>1, <2>2
<1>6. ASSUME NEW c \in Calls, Launch(c) \/ End(c) \/ Leave(c)
      PROVE  OneUploadPerLiveApproval'
  BY <1>6 DEF Launch, End, Leave, callVars, anafVars
<1>7. QED
  BY StepShape, <1>2, <1>3, <1>4, <1>5, <1>6

\* An entry enters the ledger with a call that goes on to its upload.
LEMMA NoSilentBurnStep ==
  ASSUME GateInv, [Next]_vars
  PROVE  NoSilentBurn'
<1>1. /\ NoSilentBurn /\ CallType
      /\ \A c \in Calls : c \in Sent => pc[c] \in UploadPC \cup {"unknown", "dead"}
      /\ \A c \in Calls : pc[c] \in UploadPC => c \in Sent
  BY DEF GateInv, TypeOK, UploadsAccounted
<1> USE <1>1 DEF NoSilentBurn, Sent, CallType
<1>2. CASE Quiet
  BY <1>2 DEF Quiet, callVars, anafVars
<1>3. CASE Restart
  BY <1>3 DEF Restart, anafVars
<1>4. ASSUME NEW c \in Calls, GiveUp(c)
      PROVE  NoSilentBurn'
  BY <1>4 DEF GiveUp, Refuse, Pruned, anafVars
<1>5. ASSUME NEW c \in Calls, Advance(c)
      PROVE  NoSilentBurn'
  BY <1>5 DEF Advance, anafVars
<1>6. ASSUME NEW c \in Calls, Spend(c)
      PROVE  NoSilentBurn'
  BY <1>6 DEF Spend, anafVars, Pruned
<1>7. ASSUME NEW c \in Calls, Launch(c) \/ End(c)
      PROVE  NoSilentBurn'
  BY <1>7 DEF Launch, End, anafVars
<1>8. ASSUME NEW c \in Calls, Leave(c)
      PROVE  NoSilentBurn'
  BY <1>8 DEF Leave, callVars
<1>9. QED
  BY StepShape, <1>2, <1>3, <1>4, <1>5, <1>6, <1>7, <1>8

-----------------------------------------------------------------------------
(* The theorems.                                                           *)

\* GateInv holds in every reachable state of the gate.
THEOREM GateInvariant == Spec => []GateInv
<1>1. GateInv /\ [Next]_vars => GateInv'
  <2> SUFFICES ASSUME GateInv, [Next]_vars PROVE GateInv'
    OBVIOUS
  <2>1. TypeOK'
    BY HostTypeStep, CallTypeStep DEF TypeOK
  <2>2. QED
    BY <2>1, TokensCheckedStep, LedgerRemembersStep, UploadsAccountedStep, OneUploadStep,
       NoSilentBurnStep DEF GateInv
<1>2. QED
  BY InitGateInv, <1>1, PTL DEF Spec

\* Every variable keeps its type.
THEOREM TypeCorrect == Spec => []TypeOK
<1>1. GateInv => TypeOK
  BY DEF GateInv
<1>2. QED
  BY GateInvariant, <1>1, PTL

\* What reaches ANAF is what a prepare step showed for the presented token.
THEOREM OnlyReviewedIsFiled == Spec => []FiledWasReviewed
<1>1. GateInv => FiledWasReviewed
  BY DEF GateInv, TypeOK, CallType, TokensChecked, FiledWasReviewed
<1>2. QED
  BY GateInvariant, <1>1, PTL

\* Redeemed within its lifetime, a token starts at most one upload.
THEOREM OneUpload == Spec => []OneUploadPerLiveApproval
<1>1. GateInv => OneUploadPerLiveApproval
  BY DEF GateInv
<1>2. QED
  BY GateInvariant, <1>1, PTL

\* No call spends an approval unless its upload leaves or its user is told.
THEOREM NothingBurned == Spec => []NoSilentBurn
<1>1. GateInv => NoSilentBurn
  BY DEF GateInv
<1>2. QED
  BY GateInvariant, <1>1, PTL

\* The definite answers of the submit tools are true of what ANAF registered.
THEOREM TrueAnswers == Spec => []AnswersAreTrue
<1>1. GateInv => AnswersAreTrue
  BY DEF GateInv, UploadsAccounted, Sent, AnswersAreTrue
<1>2. QED
  BY GateInvariant, <1>1, PTL

-----------------------------------------------------------------------------
(* The gate implements the contract of a live approval.                    *)

\* Every step of the gate is a step of the contract or changes nothing of it.
LEMMA ContractStep ==
  ASSUME GateInv, [Next]_vars
  PROVE  [Contract!Next]_(Contract!avars)
<1> DEFINE spent == SpentOn(live)
           filings == SpentOn(live \cap filed)
<1> USE DEF SpentOn
<1>1. /\ CallType /\ OneUploadPerLiveApproval /\ issued \subseteq Token
      /\ \A c \in live : pc[c] \in SpentPC \cup {"dead"}
      /\ \A c \in wire : c \notin filed
      /\ \A c \in Calls : c \in filed => pc[c] \in SpentPC \cup {"dead"}
  <2>1. CallType /\ OneUploadPerLiveApproval /\ issued \subseteq Token /\ UploadsAccounted
    BY DEF GateInv, TypeOK
  <2>2. QED
    BY <2>1 DEF CallType, UploadsAccounted, Sent
<1>2. ASSUME issued' = issued, spent' = spent, filings' = filings
      PROVE  UNCHANGED Contract!avars
  BY <1>2 DEF Contract!avars
<1>3. CASE Quiet
  <2>1. spent' = spent /\ filings' = filings
    BY <1>3 DEF Quiet, callVars, anafVars
  <2>2. CASE issued' = issued
    BY <1>2, <2>1, <2>2
  <2>3. ASSUME NEW t \in Token, issued' = issued \cup {t}
        PROVE  Contract!Next
    BY <2>1, <2>3 DEF Contract!Next, Contract!Approve
  <2>4. QED
    BY <1>3, <2>2, <2>3 DEF Quiet
<1>4. CASE Restart
  BY <1>2, <1>4 DEF Restart, anafVars
<1>5. ASSUME NEW c \in Calls, GiveUp(c) \/ Advance(c)
      PROVE  UNCHANGED Contract!avars
  <2>1. c \notin live /\ live' = live /\ filed' = filed /\ issued' = issued
    BY <1>1, <1>5 DEF GiveUp, Advance, Refuse, anafVars
  <2>2. \A d \in live : tok'[d] = tok[d]
    BY <1>1, <1>5, <2>1 DEF GiveUp, Advance, Refuse, CallType
  <2>3. QED
    BY <1>2, <2>1, <2>2
<1>6. ASSUME NEW c \in Calls, Spend(c)
      PROVE  [Contract!Next]_(Contract!avars)
  <2>1. CASE clock < tok[c].exp
    <3>1. live' = live \cup {c} /\ tok' = tok /\ filed' = filed /\ issued' = issued
      BY <1>6, <2>1 DEF Spend, anafVars
    <3>2. tok[c] \in issued /\ c \notin filed
      BY <1>1, <1>6 DEF Spend, anafVars, GateInv, TokensChecked
    <3>3. \A s \in spent : s.token # tok[c] /\ s.upload # c
      <4>1. c \notin live
        BY <1>1, <1>6 DEF Spend, anafVars
      <4>2. OneUploadPerLiveApproval'
        BY OneUploadStep
      <4>3. QED
        BY <3>1, <4>1, <4>2 DEF OneUploadPerLiveApproval
    <3>4. spent' = spent \cup {[token |-> tok[c], upload |-> c]} /\ filings' = filings
      BY <3>1, <3>2
    <3>5. \E t \in Token, u \in Calls : Contract!Spend(t, u)
      BY <1>1, <3>1, <3>2, <3>3, <3>4 DEF Contract!Spend
    <3>6. QED
      BY <3>5 DEF Contract!Next
  <2>2. CASE ~(clock < tok[c].exp)
    BY <1>2, <1>6, <2>2 DEF Spend, anafVars
  <2>3. QED
    BY <2>1, <2>2
<1>7. ASSUME NEW c \in Calls, Launch(c) \/ End(c)
      PROVE  UNCHANGED Contract!avars
  BY <1>2, <1>7 DEF Launch, End, anafVars
<1>8. ASSUME NEW c \in Calls, Leave(c)
      PROVE  [Contract!Next]_(Contract!avars)
  <2>1. issued' = issued /\ live' = live /\ tok' = tok /\ filed' \in {filed, filed \cup {c}}
    BY <1>8 DEF Leave, callVars
  <2>2. CASE c \in live /\ filed' = filed \cup {c}
    <3>1. c \notin filed
      BY <1>1, <1>8 DEF Leave
    <3>2. [token |-> tok[c], upload |-> c] \in spent \ filings
      BY <2>2, <3>1
    <3>3. spent' = spent /\ filings' = filings \cup {[token |-> tok[c], upload |-> c]}
      BY <2>1, <2>2
    <3>4. \E s \in spent : Contract!File(s)
      BY <2>1, <3>2, <3>3 DEF Contract!File
    <3>5. QED
      BY <3>4 DEF Contract!Next
  <2>3. CASE ~(c \in live /\ filed' = filed \cup {c})
    <3>1. spent' = spent /\ filings' = filings
      BY <2>1, <2>3
    <3>2. QED
      BY <1>2, <2>1, <3>1
  <2>4. QED
    BY <2>2, <2>3
<1>9. QED
  BY StepShape, <1>3, <1>4, <1>5, <1>6, <1>7, <1>8

\* The gate implements ApprovalContract: an approval redeemed in its lifetime is
\* spent once and files at most once.
THEOREM GateImplementsContract == Spec => ImplementsContract
<1>1. Init => Contract!Init
  BY DEF Init, Contract!Init, SpentOn
<1>2. QED
  BY <1>1, ContractStep, GateInvariant, PTL DEF Spec, ImplementsContract, Contract!Spec
=============================================================================
