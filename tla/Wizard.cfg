SPECIFICATION Spec
CONSTANTS
    Accounts <- MCAccounts
    Devices <- MCDevices
    Kind <- MCKind
    Home <- MCHome
    MaxLogins = 3
    ShowKey = TRUE
INVARIANTS
    KeypadAndKeyOfOneLogin
    FamilyIsOwn
    StaysListed
    CommKeyIsStored
