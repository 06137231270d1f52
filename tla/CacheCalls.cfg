SPECIFICATION FairStore
CONSTANTS
    t1 = t1  t2 = t2  k1 = k1  k2 = k2
    Goroutines = {t1, t2}
    StoreKeys = {k1, k2}
    Lifetime = 1  Ticks = 2
INVARIANT GetCollects
 
