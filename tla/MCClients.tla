----------------------------- MODULE MCClients -----------------------------
(***************************************************************************)
(* The clients and tools that share no state with one another, in one      *)
(* instance for TLC: `active` is the component whose steps a behaviour     *)
(* takes; the others stay as they began.                                   *)
(***************************************************************************)
EXTENDS DukInstall, ReportRequests, MessageListing, DocumentWait, PublicRequests,
        BnrRates, LoginAttempts, PortalSession, InvoiceTotals

CONSTANTS
    i1, i2, core, saft, fa, fileCore, fileForm, fileSaft,   \* DukInstall
    w1, w2,                                                 \* DocumentWait
    l1, l2                                                  \* BnrRates

VARIABLE active

Components == {"install", "report", "listing", "wait", "public", "bnr", "login",
               "portal", "invoice"}

clientVars == <<dukVars, reportVars, listVars, waitVars, pubVars, bnrVars, loginVars,
                portalVars, invoiceVars>>

-----------------------------------------------------------------------------
(* Constants.                                                              *)

MCForms == {fa}
MCFiles == {fileCore, fileForm, fileSaft}
MCUnitOf == (fileCore :> core) @@ (fileForm :> fa) @@ (fileSaft :> saft)
MCNamings == (i1 :> {{}}) @@ (i2 :> {{fa, saft}})

MCMessages == 1..3
MCSkews == {-2, 2}

MCUploadSets == {{}, {w2}}

MCAsked == (l1 :> {0, 1}) @@ (l2 :> {1, 2})

Line(exact, category, rate) == [exact |-> exact, category |-> category, rate |-> rate]
MCLines == {Line(1005, "S", 19), Line(-265, "S", 9), Line(500, "Z", 0), Line(333, "E", 0)}
MCParts == {[amount |-> 7, category |-> "S", rate |-> 19],
            [amount |-> 900, category |-> "S", rate |-> 9]}
Stated(category, rate, taxable) ==
    [category |-> category, rate |-> rate, taxable |-> taxable, tax |-> Unset,
     reason |-> category = "E"]
MCEntries == {Stated("S", 19, Unset), Stated("S", 9, 50), Stated("E", 0, Unset)}
NoTotals == [m \in Members |-> Unset]
MCTotals == {NoTotals, [NoTotals EXCEPT !.prepaid = 30, !.rounding = -1],
             [NoTotals EXCEPT !.vat = 19, !.payable = 0],
             [NoTotals EXCEPT !.allowance = 7, !.payable = 100]}

-----------------------------------------------------------------------------

\* What the other components begin with, where they have a choice.
Settle(component) ==
    /\ IF component = "install" THEN TRUE ELSE feed = [u \in Units |-> IF u = core THEN 1 ELSE 0]
    /\ IF component = "listing" THEN TRUE
       ELSE skew = 2 /\ newestFirst = TRUE /\ sentAt = [m \in MCMessages |-> m] /\ indexed = {}
    /\ IF component = "wait" THEN TRUE ELSE uploads = {}
    /\ IF component = "invoice" THEN TRUE
       ELSE document = [lines |-> <<Line(500, "Z", 0)>>, allowances |-> <<>>, charges |-> <<>>,
                        breakdown |-> <<>>, totals |-> [NoTotals EXCEPT !.vat = 19, !.payable = 0]]

MCInit ==
    /\ active \in Components
    /\ Settle(active)
    /\ DukInit /\ ReportInit /\ ListInit /\ WaitInit /\ PubInit /\ BnrInit /\ LoginInit
    /\ PortalInit /\ InvoiceInit

MCNext ==
    /\ active' = active
    /\ \/ active = "install" /\ DukNext
          /\ UNCHANGED <<reportVars, listVars, waitVars, pubVars, bnrVars, loginVars, portalVars, invoiceVars>>
       \/ active = "report" /\ ReportNext
          /\ UNCHANGED <<dukVars, listVars, waitVars, pubVars, bnrVars, loginVars, portalVars, invoiceVars>>
       \/ active = "listing" /\ ListNext
          /\ UNCHANGED <<dukVars, reportVars, waitVars, pubVars, bnrVars, loginVars, portalVars, invoiceVars>>
       \/ active = "wait" /\ WaitNext
          /\ UNCHANGED <<dukVars, reportVars, listVars, pubVars, bnrVars, loginVars, portalVars, invoiceVars>>
       \/ active = "public" /\ PubNext
          /\ UNCHANGED <<dukVars, reportVars, listVars, waitVars, bnrVars, loginVars, portalVars, invoiceVars>>
       \/ active = "bnr" /\ BnrNext
          /\ UNCHANGED <<dukVars, reportVars, listVars, waitVars, pubVars, loginVars, portalVars, invoiceVars>>
       \/ active = "login" /\ LoginNext
          /\ UNCHANGED <<dukVars, reportVars, listVars, waitVars, pubVars, bnrVars, portalVars, invoiceVars>>
       \/ active = "portal" /\ PortalNext
          /\ UNCHANGED <<dukVars, reportVars, listVars, waitVars, pubVars, bnrVars, loginVars, invoiceVars>>
       \/ active = "invoice" /\ InvoiceNext
          /\ UNCHANGED <<dukVars, reportVars, listVars, waitVars, pubVars, bnrVars, loginVars, portalVars>>

MCSpec == MCInit /\ [][MCNext]_<<clientVars, active>>

-----------------------------------------------------------------------------

\* Every component's variables keep to their types.
TypeOK ==
    CASE active = "install" -> DukTypeOK
      [] active = "report"  -> ReportTypeOK
      [] active = "listing" -> ListTypeOK
      [] active = "wait"    -> WaitTypeOK
      [] active = "public"  -> PubTypeOK
      [] active = "bnr"     -> BnrTypeOK
      [] active = "login"   -> LoginTypeOK
      [] active = "portal"  -> PortalTypeOK
      [] active = "invoice" -> InvoiceTypeOK
=============================================================================
