\* One shared info of a native process, and infos of Java's.
SPECIFICATION Spec
CONSTANTS
    Requests = {"x", "y", "z", "b", "e", "j", "t"}
    RequestOf <- MCRequestOf
    Objects <- MCObjects
    InfoOf <- MCInfoOf
    BYTE = 4
    WORD = 8
    MAX_CALLS = 3
    GARBAGE = "garbage"
    NULL = NULL
    Text = Text
INVARIANTS
    TypeOK
    NeverTorn
    AsAsked
    DeliveredIntact
CHECK_DEADLOCK FALSE
