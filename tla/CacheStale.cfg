\* Two reads, two orders, the administrator and outages of Redis.
SPECIFICATION FairSpec
CONSTANTS
    Readers = {r1, r2}
    Writers = {w1, w2}
    MaxVersion = 2
    AdminWrites = TRUE
    Outages = TRUE
    NoEntry = noentry
INVARIANTS IInv StaleOnlyIfExcused
PROPERTY EventuallyFresh
