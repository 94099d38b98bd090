\* Mainnet parameters, blocks of both kinds.
CONSTANTS
    Params <- MainParams
    Kinds = {TRUE, FALSE}
    Spacings <- MCSpacings
    MaxBlocks = 5
SPECIFICATION Spec
INVARIANT
    RetargetMatchesSpec
