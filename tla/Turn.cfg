\* Allocations end, and no more sessions are opened than the bound: the model
\* really stops, and so it does when a connection outlived its allocation.
SPECIFICATION Spec
INVARIANTS
    TypesOK TablesAgree OnlyAsAsked NothingForGood StreamKept
CHECK_DEADLOCK FALSE
