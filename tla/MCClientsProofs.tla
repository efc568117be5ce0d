-------------------------- MODULE MCClientsProofs --------------------------
(***************************************************************************)
(* The nine components of MCClients, in its one instance: each behaves     *)
(* there as it does alone, so what is proved of the components is proved   *)
(* of what the run checks.                                                 *)
(***************************************************************************)
EXTENDS MCClients, DukInstallProofs, ClientProofs, ToolProofs

\* A step of the instance is a step of one component, and leaves the others alone:
\* every component behaves as it does by itself.
THEOREM EachAsAlone ==
    MCSpec => /\ DukSpec /\ ReportSpec /\ ListSpec /\ WaitSpec /\ PubSpec
              /\ BnrSpec /\ LoginSpec /\ PortalSpec /\ InvoiceSpec
              /\ [](active \in Components)
<1>1. MCInit => /\ DukInit /\ ReportInit /\ ListInit /\ WaitInit /\ PubInit
                /\ BnrInit /\ LoginInit /\ PortalInit /\ InvoiceInit
                /\ active \in Components
  BY DEF MCInit
<1>2. [MCNext]_<<clientVars, active>> =>
         /\ [DukNext]_dukVars /\ [ReportNext]_reportVars /\ [ListNext]_listVars
         /\ [WaitNext]_waitVars /\ [PubNext]_pubVars /\ [BnrNext]_bnrVars
         /\ [LoginNext]_loginVars /\ [PortalNext]_portalVars /\ [InvoiceNext]_invoiceVars
  BY DEF MCNext, clientVars
<1>3. active \in Components /\ [MCNext]_<<clientVars, active>> => (active \in Components)'
  BY DEF MCNext, Components
<1>4. QED
  BY <1>1, <1>2, <1>3, PTL DEF MCSpec, DukSpec, ReportSpec, ListSpec, WaitSpec, PubSpec,
     BnrSpec, LoginSpec, PortalSpec, InvoiceSpec

\* The active component's variables keep their types.
THEOREM ClientTypes == MCSpec => []TypeOK
<1>1. /\ DukTypeOK /\ ReportTypeOK /\ ListTypeOK /\ WaitTypeOK /\ PubTypeOK
      /\ BnrTypeOK /\ LoginTypeOK /\ PortalTypeOK /\ InvoiceTypeOK
      /\ active \in Components
      => TypeOK
  BY DEF TypeOK, Components
<1>2. QED
  BY <1>1, EachAsAlone, InstallTypes, ReportTypes, ListTypes, WaitTypes, PubTypes,
     BnrTypes, LoginTypes, PortalTypes, InvoiceTypes, PTL

\* What the run on the instance checks of the components holds in it, whatever the
\* constants: the installer, the duplicate guard, the walks, the waits, the pacer, the
\* exchange rates, the sign-ins and the invoice.
THEOREM ClientsKeepTheirWord ==
    MCSpec => /\ [](ClaimsAreTrue /\ InstallConverges /\ SettledStays)
              /\ []ReusedWasFiledToday /\ RepeatsAreExplained
              /\ [](NothingSkipped /\ SkewIsAbsorbed)
              /\ [](PollsWithinBudget /\ FoundInTime) /\ NeverReplaced
              /\ [](Spaced /\ NoSlotWasted)
              /\ [](FreshEnough /\ NoOlderAnswer)
              /\ [](OnlyOwnRedirects /\ ListenerReleased)
              /\ []BurntOnlyByRace /\ NoStrayPrompt
              /\ [](ComputedAddsUp /\ RoundTrips)
<1>1. DukSpec => [](ClaimsAreTrue /\ InstallConverges /\ SettledStays)
  BY ManifestIsTrue, InstallsConverge, SettledIsLeftAlone, PTL
<1>2. ReportSpec => []ReusedWasFiledToday /\ RepeatsAreExplained
  BY ReuseIsTrue, RepeatsExplained, PTL
<1>3. ListSpec => [](NothingSkipped /\ SkewIsAbsorbed)
  BY AllAreYielded, SkewCostsOneCorrection, PTL
<1>4. WaitSpec => [](PollsWithinBudget /\ FoundInTime) /\ NeverReplaced
  BY PollsKeepTheirBudget, DocumentsAreFound, FilesAreNotReplaced, PTL
<1>5. PubSpec => [](Spaced /\ NoSlotWasted)
  BY SendsAreSpaced, SlotsAreUsed, PTL
<1>6. BnrSpec => [](FreshEnough /\ NoOlderAnswer)
  BY AnswersAreFresh, AnswersDoNotGoBack, PTL
<1>7. LoginSpec => [](OnlyOwnRedirects /\ ListenerReleased)
  BY OwnRedirectsOnly, PortGivenBack, PTL
<1>8. PortalSpec => []BurntOnlyByRace /\ NoStrayPrompt
  BY OnlyRacesBurn, NoPromptAstray, PTL
<1>9. InvoiceSpec => [](ComputedAddsUp /\ RoundTrips)
  BY WhatIsComputedAddsUp, WhatWasStatedIsRendered, PTL
<1>10. QED
  BY <1>1, <1>2, <1>3, <1>4, <1>5, <1>6, <1>7, <1>8, <1>9, EachAsAlone, PTL
=============================================================================
