SPECIFICATION Spec
CONSTANTS
    Thread = {p, q}
    Request <- MCRequest
    Read <- MCRead
    MaxLog = 2
    None = None
INVARIANTS
    TypeOK
    ReadsStayInTheirFamily
PROPERTIES
    KvSpec
    TransactionsEnd
