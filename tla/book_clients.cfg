\* Any reports and snapshots, in any order, about a position closed in two deals.
CONSTANTS
    Tickets = {"p"}
    Deals = {1, 2}
    Foreign = "copier-profit-lock"
    TicketOf <- DealTicket
    LotsIn <- DealLots
    Worth <- DealPips
    VolumeOf <- TwoLots
    MaxVolume = 2
    Reasons = {"tp3", "sl", "copier-profit-lock"}
SPECIFICATION ClientsSpec
PROPERTIES LedgerKept
