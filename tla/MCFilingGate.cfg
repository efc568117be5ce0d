SPECIFICATION Spec
CONSTANTS
    efactura = efactura
    declaratie = declaratie
    doc1 = doc1
    doc2 = doc2
    cif1 = cif1
    cif2 = cif2
    Calls = {c1, c2}
    XmlKinds <- MCXmlKinds
    PortalKind = declaratie
    Docs = {doc1, doc2}
    Missing = Missing
    Path = Path
    Contexts = {cif1, cif2}
    Omitted = Omitted
    Default <- MCDefault
    NoToken = NoToken
    TTL = 1
    MaxTime = 1
    MaxBoot = 1
    MaxIssued = 1

INVARIANTS
    TypeOK
    FiledWasReviewed
    OneUploadPerLiveApproval
    
    AnswersAreTrue
PROPERTY ImplementsContract
SYMMETRY Symmetry
