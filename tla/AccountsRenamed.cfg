SPECIFICATION Spec
CONSTANTS
    u1 = u1
    u2 = u2
    i1 = i1
    User = {u1, u2, u3}
    Ident = {i1}
    Local = local
    Req = {r1, r2}
    Name <- ChangedName
INVARIANT NeverTwoAccounts
