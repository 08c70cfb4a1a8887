SPECIFICATION Spec
CONSTANTS
    Calls = {c1, c2, c3}
    Devices = {device, phone}
    Accounts = {account}
    Nicknames = {nick}
    NoName = NoName
    Blank = Blank
    Nil = Nil
    First = First
    FirstDevice = device
    Ops = {"login", "link", "refresh", "logout", "profile"}
INVARIANTS NoOrphanPlayer IdentityKept RotationExact LogoutRevokes
SYMMETRY MCSymmetry
CHECK_DEADLOCK FALSE
