\* sendrawtransaction from two workers against peers, blocks and the
\* scheduler thread; signing and combining by two key holders.
CONSTANTS
    r1 = r1  r2 = r2  tA = tA  tB = tB  tC = tC  k1 = k1  k2 = k2  x = x  y = y
    NoTx = NoTx
    Clients <- MCClients
    Txs <- MCTxs
    InputsOf <- MCInputsOf
    OutputOf <- MCOutputOf
    HighFee = {tB}
    GenesisCoins = {"a"}
    Keys = {k1, k2}
    Need <- MCNeed
    Bodies = {x, y}
    VinsIn <- MCVinsIn
    KeySets <- MCKeySets
    SignGenesis = {"a"}
    MaxHeld = 4
SPECIFICATION MCSpec
INVARIANTS WalletKnowsAcceptedTx KeepsSignatures
PROPERTIES SendEventuallyReturns
