--------------------------- MODULE InvoiceTotals ---------------------------
(***************************************************************************)
(* The arithmetic of an authored invoice (efactura/authoring): the VAT     *)
(* breakdown and the totals that models.py computes, build.py renders,     *)
(* read.py reads back into the explicit fields, and rules.py judges.       *)
(*                                                                         *)
(* Amounts are in cents, rates in percent.  The categories stand for what  *)
(* the arithmetic distinguishes: S (and L, M) is taxed per rate, Z is      *)
(* taxed at zero, E (and AE, K, G) too, for a stated reason.  B and O,     *)
(* which exclude other categories, and a second currency are left out.     *)
(***************************************************************************)
EXTENDS Integers, Sequences, SequencesExt, FiniteSetsExt

CONSTANTS
    LineChoices,    \* lines: [exact, category, rate]; exact is in 1/10 cent
    MaxLines,       \* bound: lines of a document
    PartChoices,    \* allowances and charges: [amount, category, rate]
    MaxParts,       \* bound: allowances, and charges, of a document
    EntryChoices,   \* breakdown entries: [category, rate, taxable, tax, reason]
    MaxEntries,     \* bound: entries an author states
    TotalsChoices,  \* the totals an author states
    Unset           \* a field left to be computed

Taxed == {"S"}
Exempt == {"E"}
Categories == Taxed \cup Exempt \cup {"Z"}

Amounts == Int \cup {Unset}
Members == {"lines", "allowance", "charge", "exclusive", "vat", "inclusive", "prepaid",
            "rounding", "payable"}

ASSUME InvoiceChoices ==
    /\ MaxLines \in Nat \ {0} /\ MaxParts \in Nat /\ MaxEntries \in Nat
    /\ Unset \notin Int
    /\ LineChoices \subseteq [exact : Int, category : Categories, rate : Nat]
    /\ PartChoices \subseteq [amount : Int, category : Categories, rate : Nat]
    /\ EntryChoices \subseteq [category : Categories, rate : Nat, taxable : Amounts,
                               tax : Amounts, reason : BOOLEAN]
    /\ TotalsChoices \subseteq [Members -> Amounts]
    /\ \A c \in LineChoices \cup PartChoices \cup EntryChoices :
          c.category \in Taxed <=> c.rate > 0
    /\ \A e \in EntryChoices :    \* VatBreakdownEntry._shape
          /\ e.category \notin Taxed => e.tax \in {0, Unset}
          /\ e.reason = (e.category \in Exempt)

VARIABLES
    document,   \* the InvoiceDocument
    entries,    \* its effective breakdown, once evaluated
    totals,     \* its computed and its effective totals, likewise
    stage,      \* what has been done with it
    wire        \* what was made of it the first time: amounts and judgement

invoiceVars == <<document, entries, totals, stage, wire>>

InvoiceInit ==
    /\ document \in [lines : SeqOf(LineChoices, MaxLines) \ {<<>>},
                     allowances : SeqOf(PartChoices, MaxParts),
                     charges : SeqOf(PartChoices, MaxParts),
                     breakdown : SeqOf(EntryChoices, MaxEntries), totals : TotalsChoices]
    /\ stage = "authored"
    /\ entries = <<>> /\ totals = <<>> /\ wire = <<>>

-----------------------------------------------------------------------------
(* models.py                                                               *)

\* round2: half away from zero.
Rounded(n, d) == IF n >= 0 THEN (2 * n + d) \div (2 * d) ELSE -((2 * (-n) + d) \div (2 * d))

Key(c) == [category |-> c.category, rate |-> c.rate]
Net(line) == Rounded(line.exact, 10)

SumOf(seq, f(_)) == SumFunction([i \in DOMAIN seq |-> f(seq[i])])

\* _group_amounts: per category and rate.
Groups(doc) == {Key(p) : p \in ToSet(doc.lines) \cup ToSet(doc.allowances) \cup ToSet(doc.charges)}
Share(parts, key) == SumOf(parts, LAMBDA p : IF Key(p) = key THEN p.amount ELSE 0)
NetShare(lines, key) == SumOf(lines, LAMBDA l : IF Key(l) = key THEN Net(l) ELSE 0)

AllowancesAdded(doc, key) ==   \* mutant: the sign of the allowances
    NetShare(doc.lines, key) + Share(doc.allowances, key) + Share(doc.charges, key)

AmountOf(doc, key) ==
    NetShare(doc.lines, key) - Share(doc.allowances, key) + Share(doc.charges, key)

TaxOn(taxable, category, rate) ==
    IF category \in Taxed THEN Rounded(taxable * rate, 100) ELSE 0

\* compute_vat_breakdown, for one group.
ComputedEntry(key, amount) ==
    [category |-> key.category, rate |-> key.rate, taxable |-> amount,
     tax |-> TaxOn(amount, key.category, key.rate), reason |-> FALSE]

Given(value, default) == IF value = Unset THEN default ELSE value
Completed(entry, computed) ==
    [entry EXCEPT !.taxable = Given(@, computed.taxable), !.tax = Given(@, computed.tax)]

\* effective_vat_breakdown: the stated entries, completed from their groups.
Breakdown(doc) ==
    IF doc.breakdown = <<>>
    THEN SetToSeq({ComputedEntry(key, AmountOf(doc, key)) : key \in Groups(doc)})
    ELSE [i \in DOMAIN doc.breakdown |->
            LET entry == doc.breakdown[i] IN
            IF Key(entry) \notin Groups(doc) THEN entry
            ELSE Completed(entry, ComputedEntry(Key(entry), AmountOf(doc, Key(entry))))]

Zero(value) == Given(value, 0)
PartTotal(parts) == IF parts = <<>> THEN Unset ELSE SumOf(parts, LAMBDA p : p.amount)

\* compute_totals.
ComputedTotals(doc, breakdown) ==
    LET lines == SumOf(doc.lines, Net)
        allowance == PartTotal(doc.allowances)
        charge == PartTotal(doc.charges)
        exclusive == lines - Zero(allowance) + Zero(charge)
        vat == SumOf(breakdown, LAMBDA e : Zero(e.tax))
        inclusive == exclusive + vat
        prepaid == doc.totals.prepaid
        rounding == doc.totals.rounding IN
    [lines |-> lines, allowance |-> allowance, charge |-> charge, exclusive |-> exclusive,
     vat |-> vat, inclusive |-> inclusive, prepaid |-> prepaid, rounding |-> rounding,
     payable |-> inclusive - Zero(prepaid) + Zero(rounding)]

StatedOnes(stated, computed) == stated   \* mutant: stated totals are not completed

\* effective_totals: each member as stated, else as computed.
Effective(stated, computed) == [member \in DOMAIN stated |-> Given(stated[member], computed[member])]

TotalsOf(doc, breakdown) ==
    LET computed == ComputedTotals(doc, breakdown) IN
    [computed |-> computed, effective |-> Effective(doc.totals, computed)]

BreakDown ==
    /\ stage \in {"authored", "read"} /\ entries = <<>>
    /\ entries' = Breakdown(document)
    /\ UNCHANGED <<document, totals, stage, wire>>

AddUp ==
    /\ entries # <<>> /\ totals = <<>>
    /\ totals' = TotalsOf(document, entries)
    /\ UNCHANGED <<document, entries, stage, wire>>

-----------------------------------------------------------------------------
(* rules.py                                                                *)

CountOf(breakdown, category) ==
    Cardinality({i \in DOMAIN breakdown : breakdown[i].category = category})

\* BR-*-01: a used category has an entry, and only a taxed one several.
PresenceFindings(doc, breakdown) ==
    {<<category, "01">> : category \in
        {c \in {key.category : key \in Groups(doc)} :
            \/ CountOf(breakdown, c) = 0
            \/ c \notin Taxed /\ CountOf(breakdown, c) > 1}}

Abs(n) == IF n < 0 THEN -n ELSE n

\* The sum of a taxed group and its tax may be off by less than one unit.
Unit == 100

\* By how much an entry misses the sum of its group; all of it without a group.
Miss(doc, e) ==
    IF Key(e) \in Groups(doc) THEN Abs(e.taxable - AmountOf(doc, Key(e))) ELSE Unit

\* What breakdown_rules finds wrong with an entry.
EntryFindings(doc, e) ==
    {r \in {"10", "BR-45", "BR-46", "08", "09", "CO-17"} :
        \/ r = "10" /\ e.category \in Exempt /\ ~e.reason
        \/ r = "BR-45" /\ e.taxable = Unset
        \/ r = "BR-46" /\ e.taxable # Unset /\ e.tax = Unset
        \/ /\ Unset \notin {e.taxable, e.tax}
           /\ \/ r = "08" /\ Miss(doc, e) >= (IF e.category \in Taxed THEN Unit ELSE 1)
              \/ r = "09" /\ e.category \notin Taxed /\ e.tax # 0
              \/ /\ r = "CO-17" /\ e.category \in Taxed
                 /\ Abs(Abs(e.tax) - TaxOn(Abs(e.taxable), e.category, e.rate)) >= Unit}

\* totals_rules: the sums exactly, where there is one, ...
SumFindings(ts) == {m \in {"lines", "allowance", "charge", "vat"} :
    /\ Unset \notin {ts.effective[m], ts.computed[m]}
    /\ ts.effective[m] # ts.computed[m]}

\* ... and the formulas on the effective totals.
FormulaFindings(t) ==
    {m \in {"exclusive", "inclusive", "payable"} : t[m] #
        CASE m = "exclusive" -> Zero(t.lines) - Zero(t.allowance) + Zero(t.charge)
          [] m = "inclusive" -> Zero(t.exclusive) + Zero(t.vat)
          [] OTHER -> Zero(t.inclusive) - Zero(t.prepaid) + Zero(t.rounding)}

Accepted(doc, breakdown, ts) ==
    /\ PresenceFindings(doc, breakdown) = {}
    /\ SumFindings(ts) = {} /\ FormulaFindings(ts.effective) = {}
    /\ \A i \in DOMAIN breakdown : EntryFindings(doc, breakdown[i]) = {}

-----------------------------------------------------------------------------
(* build.py and read.py                                                    *)

\* An entry without an amount is rendered with zero.
WithZeros(entry) == [entry EXCEPT !.taxable = Zero(@), !.tax = Zero(@)]

\* build_invoice: all amounts.  accepted: what validate says of it.
Rendered(doc, breakdown, ts) ==
    [nets |-> [i \in DOMAIN doc.lines |-> Net(doc.lines[i])],
     breakdown |-> [i \in DOMAIN breakdown |-> WithZeros(breakdown[i])],
     totals |-> ts.effective, accepted |-> Accepted(doc, breakdown, ts)]

\* render_invoice: validated first, unless the caller skips it.
Render ==
    /\ stage = "authored" /\ totals # <<>>
    /\ wire' = Rendered(document, entries, totals)
    /\ \/ stage' = "rendered"
       \/ stage' = "refused" /\ ~wire'.accepted
    /\ UNCHANGED <<document, entries, totals>>

ReadUnlessFalsy(value) == IF value = 0 THEN Unset ELSE value   \* mutant: `value or None`

AsRead(value) == value

\* read_invoice: every amount of the XML becomes an explicit one.
ReadDocument(doc, xml) ==
    [doc EXCEPT
        !.lines = [i \in DOMAIN @ |-> [@[i] EXCEPT !.exact = 10 * xml.nets[i]]],
        !.breakdown = [i \in DOMAIN xml.breakdown |->
              [xml.breakdown[i] EXCEPT !.taxable = AsRead(@), !.tax = AsRead(@)]],
        !.totals = [m \in DOMAIN @ |-> AsRead(xml.totals[m])]]

ReadBack ==
    /\ stage = "rendered"
    /\ document' = ReadDocument(document, wire)
    /\ stage' = "read" /\ entries' = <<>> /\ totals' = <<>>
    /\ UNCHANGED wire

InvoiceNext == BreakDown \/ AddUp \/ Render \/ ReadBack

InvoiceSpec == InvoiceInit /\ [][InvoiceNext]_invoiceVars

-----------------------------------------------------------------------------
(* Properties.                                                             *)

InvoiceTypeOK ==
    /\ stage \in {"authored", "rendered", "refused", "read"}
    /\ \A i \in DOMAIN document.lines : document.lines[i].exact \in Int
    /\ totals # <<>> => \A m \in DOMAIN document.totals :
          {totals.computed[m], totals.effective[m]} \subseteq
              Int \cup {u \in {Unset} : m \in {"allowance", "charge", "prepaid", "rounding"}}

\* An author who states no sum: amounts, rates and reasons, what was prepaid or
\* rounded, and no breakdown, or one that names each group once.
NoSumStated(doc) ==
    /\ \A m \in DOMAIN doc.totals \ {"prepaid", "rounding"} : doc.totals[m] = Unset
    /\ \A e \in ToSet(doc.breakdown) : e.taxable = Unset /\ e.tax = Unset
    /\ IF doc.breakdown = <<>> THEN \A key \in Groups(doc) : key.category \notin Exempt
       ELSE /\ Groups(doc) = {Key(e) : e \in ToSet(doc.breakdown)}
            /\ Cardinality(Groups(doc)) = Len(doc.breakdown)

\* "The document totals computed per BR-CO-10..16": the breakdown and the totals,
\* computed apart from each other, agree whatever the signs, roundings and mixes
\* of rates; each group's tax is exact to half a cent; and the library accepts
\* what it computed.
ComputedAddsUp ==
    totals # <<>> /\ NoSumStated(document) =>
        LET t == totals.effective IN
        /\ t.exclusive = SumOf(entries, LAMBDA e : e.taxable)
        /\ t.payable = SumOf(entries, LAMBDA e : e.taxable + e.tax)
                       - Zero(t.prepaid) + Zero(t.rounding)
        /\ \A e \in ToSet(entries) : Abs(100 * e.tax - e.taxable * e.rate) <= 50
        /\ Accepted(document, entries, totals)

\* "A round-trip re-renders what the issuer stated": a document that was read back
\* renders to the same amounts and is judged the same, although what was computed
\* the first time is explicit now - also one that was rendered without validation
\* and does not add up.
RoundTrips ==
    stage = "read" /\ totals # <<>> => Rendered(document, entries, totals) = wire
=============================================================================
