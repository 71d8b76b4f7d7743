CONSTANTS
    TdHosts <- MCTdHosts
    SnpHosts <- MCSnpHosts
    Mrtds <- MCMrtds
    JsonTexts <- MCJsonTexts
    LastDay = 1
    MaxChanges = 1
    MaxDamage = 1
SPECIFICATION EvidenceSpec
INVARIANTS
    AcceptedIsGenuine
    GenuineIsAccepted
    FmspcIsThePlatforms
    PayloadIsTheEndorsement
