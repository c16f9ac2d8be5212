CONSTANTS
    kanji = kanji
    names = names
    a = a
    b = b
    Found <- MCFound
    Warm = {names}
    Nobody = Nobody
    Dict = {kanji, names}
    Call = {a, b}
    Of <- MCOf
    Background = {b}
    Delete = {kanji}
    MaxFaults = 2
SPECIFICATION FairSpec
INVARIANTS RepairInv
PROPERTIES Condemnation ComesToRest
