SPECIFICATION Spec
CONSTANTS
    Vault = vault
    Users = {u1}
    MaxBase = 3
    MaxShares = 3
    Assets = {tsla}
    Margins = {1, 2}
    BPS = 2
    Q96_ONE = 2
    Prices = {1, 2}
    Unreadable = unreadable
    MaxAmount = 1
    Executor = executor
    Operator = operator
    Owner = owner
    NoAccount = none
    Stream = stream
    Recipient = recipient
    MaxHeld = 3
    BOUNTY_BPS = 2
    BPS_DENOMINATOR = 5
PROPERTY SeizedBelowThreshold
