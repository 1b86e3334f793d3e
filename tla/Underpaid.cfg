SPECIFICATION Spec
CONSTANTS
    Requests = {r1}
    Submissions <- MCSubmissions
    Addresses = {"a", "b"}
    Lists = {{"a"}}
    ValidationWindow = 0
    MaxHeight = 1
INVARIANTS
    WrongIndexFailsClosed
