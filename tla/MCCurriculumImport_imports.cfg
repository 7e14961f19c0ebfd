\* Two clients import curricula, from a session or directly; the server and time go on.
SPECIFICATION FairSpec
CONSTANTS
    Sessions = {s1}
    Clients = {c1, c2}
    Names = {n1, n2}
    Contents = {x}
    Matching <- SameContent
    MaxCurricula = 2
INVARIANT NoUnseenDuplicate
PROPERTY ProcessingEnds
