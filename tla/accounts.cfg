\* Two devices, two account ids, one restart of the server: setups that overlap, checks
\* and logins that race a reset or a restart, and the wizard's double click.
CONSTANTS
    mac = mac
    ipad = ipad
    a1 = a1
    a2 = a2
    Devices = {mac, ipad}
    Desktop = mac
    Accounts = {a1, a2}
    MaxProfiles <- MCMaxProfiles
    MaxRestarts = 1
    None = None
SYMMETRY MCSymmetry
SPECIFICATION Spec
INVARIANTS TypeOK UserOwnsToken DocumentsHaveOwner SpinnerHasRequest
CHECK_DEADLOCK FALSE
