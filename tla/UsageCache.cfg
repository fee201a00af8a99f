CONSTANTS
    Creds = {c1}
    Requests = {panel1, panel2}
    Nobody = Nobody
    NoSnapshot = NoSnapshot
    Unread = Unread
    TTL = 2
    MaxTime = 2
SPECIFICATION Spec
INVARIANTS TypeOK RefreshRefreshes StampNotOlder CollectorHoldsLock RefreshesCollapse
PROPERTIES ReadingsNeverGoBack EveryRequestAnswered
