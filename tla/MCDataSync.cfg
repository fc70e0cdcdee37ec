CONSTANTS
    book = book
    licensed = licensed
    closes = closes
    a = a
    b = b
    c = c
    d = d
    e = e
    f = f
    X = X
    Y = Y
    Z = Z
    File = {book, licensed, closes}
    Dataset = {"instruments", "estimates", "index_membership", "prices"}
    Request <- Asked
    Fits <- Fitting
    Importer = {server, cli}
    Provider = {yahoo, alpaca}
    Ticker = {a, b, c, d, e, f}
    Entity = {X, Y, Z}
    Horizon = 2
    Names <- Naming
    Spells <- Membership
    Closes <- Closing
    MaxCalls = 3
    MaxStops = 2
    Unknown = Unknown
    Canonical <- Group
    Rank <- Alphabet
    Place <- IdOrder
    Seed = {a, b, d}
    Upstream <- Log
    Overrides <- Official
    Current = {a, b, e, f}
    MinSecurities = 3
    MaxCompanies = 3
    Syncer = {s1, s2}
    MaxSyncs = 3
    Quote <- Feed
    Lookback = 1
    Flaky = {a}
    Tolerant = {yahoo}
    MaxPriceSyncs = 3
    MaxBusy = 3
    MaxCommands = 3
SPECIFICATION DataSpec
INVARIANTS ManifestIsTrue RowsAreRegistered UniverseIsTheRoster PricesFollowTheRoster BroughtPricesStay OutliersBlockCertification
SYMMETRY ImportersAlike
CHECK_DEADLOCK FALSE
