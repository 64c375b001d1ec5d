SPECIFICATION Spec
CONSTANTS
    Users <- MCUsers
    ModuleAccounts <- MCModuleAccounts
    Contracts <- MCContracts
    Vouchers <- MCVouchers
    Amounts <- MCAmounts
    InitialTokens <- MCInitialTokens
    MaxPackets = 2
    MaxGov = 2
INVARIANTS
    
    DeletedForGood
PROPERTIES
    IsolatedKeepsNothing
    
CHECK_DEADLOCK FALSE
