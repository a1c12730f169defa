CONSTANTS
    releaser = releaser
    alice = alice
    bob = bob
    claim1 = claim1
    claim2 = claim2
    Holders <- MC_Holders
    Claims <- MC_Claims
    Releaser = releaser
    Escrow = escrow
    NoAddress = zero
    MaxSupply = 2
SPECIFICATION Spec
INVARIANTS
    TypeOK
    PayerOwnsTheClaim
    
    EndowedAtMostOnce
PROPERTY KeepsPromise
SYMMETRY MC_Symmetry
