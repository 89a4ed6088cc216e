SPECIFICATION Spec
CONSTANTS
    ha = ha
    hb = hb
    a1 = a1
    a2 = a2
    b1 = b1
    None = None
    Queries = 2
    Offers <- MCOffers
    Answers <- MCAnswers
    Local <- MCLocal
    MaxRemote = 2
    MaxPacket = 2
INVARIANTS
    TypeOK
    CalledOnce
    AddressBelongs
PROPERTY
    AskedIsSettled
