SPECIFICATION Spec
CONSTANTS
    Requests = {r1, r2}
    Submissions <- MCSubmissions
    Addresses = {"a", "b"}
    Lists = {{"a"}, {"a", "b"}}
    ValidationWindow = 0
    MaxHeight = 1
SYMMETRY Symmetry
INVARIANTS
    ReadsOfOneHead
    ListedThroughoutIsRejected
    SettledListIsFetched
    AcceptedIsPaid
