-------------------------- MODULE ApprovalContract --------------------------
(***************************************************************************)
(* What a human approval is good for: a prepare step creates it, it is     *)
(* spent on one upload, and that upload files at most once.                *)
(***************************************************************************)
CONSTANTS Token, Upload

VARIABLES
    approvals,   \* tokens handed out
    spent,       \* tokens redeemed, each with the upload it was spent on
    filings      \* ... of which ANAF registered the upload

avars == <<approvals, spent, filings>>

Init == approvals = {} /\ spent = {} /\ filings = {}

Approve(t) ==
    /\ approvals' = approvals \cup {t}
    /\ UNCHANGED <<spent, filings>>

Spend(t, u) ==
    /\ t \in approvals
    /\ \A s \in spent : s.token # t /\ s.upload # u
    /\ spent' = spent \cup {[token |-> t, upload |-> u]}
    /\ UNCHANGED <<approvals, filings>>

File(s) ==
    /\ s \in spent \ filings
    /\ filings' = filings \cup {s}
    /\ UNCHANGED <<approvals, spent>>

Next ==
    \/ \E t \in Token : Approve(t)
    \/ \E t \in Token, u \in Upload : Spend(t, u)
    \/ \E s \in spent : File(s)

Spec == Init /\ [][Next]_avars
=============================================================================
