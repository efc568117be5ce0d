---------------------------- MODULE MCFilingGate ----------------------------
(* FilingGate on a small instance.                                         *)
EXTENDS FilingGate, TLC

CONSTANTS efactura, declaratie, doc1, doc2, cif1, cif2

\* e-Factura has a configured default CIF; the declaration file has its name.
MCDefault == [k \in {efactura, declaratie} |-> cif1]
MCXmlKinds == {efactura}

\* Which call is which does not matter, nor which document.
Symmetry == {p @@ q : p \in Permutations(Calls), q \in Permutations(Docs)}
=============================================================================
