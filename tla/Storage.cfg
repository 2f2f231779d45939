CONSTANTS
    h1 = h1
    h2 = h2
    h3 = h3
    Items <- MCItems
    Heads <- MCHeads
    Null <- MCNull
    NumItems = 4
    ItemSize = 3
SPECIFICATION Spec
INVARIANT ListsIntact
INVARIANT FreeListIntact
INVARIANT NothingLeaks
INVARIANT FindAgrees
INVARIANT ReleaseChecked
PROPERTY StoreSpec
