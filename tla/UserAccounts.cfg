SPECIFICATION Spec
CONSTANTS
    c1 = c1
    t1 = t1
    t2 = t2
    bob = bob
    eve = eve
    Offered = {"admin", "operator"}
    None = None
    Clients <- MCClients
    Tokens <- MCTokens
    Names <- MCNames
    Folded <- MCFolded
    Admin = "admin"
    InitialUsers <- MCInitialUsers
    MaxUsers = 3
SYMMETRY Symmetry
INVARIANTS AdminRemains RolesAgree DisabledHoldNoSession SessionsNameAccounts
PROPERTIES SwitchOffLeavesNoSession
