CONSTANTS
    Tokens = {"deploys", "friday", "team", "moved", "v4", "8080"}
    ValueTokens = {"v4", "8080"}
    Contents = {"decoy", "gold", "port", "stop", "blank"}
    TokensOf <- MCTokensOf
    Blank = {"blank"}
    Within <- MCWithin
    MaxSignatures = 2
SPECIFICATION Spec
INVARIANTS BatchAgrees GoldIsNoLeak UseIsLeak
