SPECIFICATION PagesSpec
CONSTANTS
    Calls = {1, 2, 3, 4, 5}
    Screens = {"transactions"}
    CallsOf <- MCCallsOf
    CardIds = {1, 2}
    Issued <- MCIssued
    NoCard = NoCard
    NoCall = NoCall
    Sums = {1, 2}
    Opening = 1
    Dialogs = {1, 2}
    NoDialog = NoDialog
    Unknown = Unknown
    PageSize = 1
    Today = 2
    WeekAgo = 1
    NoDate = NoDate
    Periods <- MCPeriods
    History <- MCHistory
    MaxHistory = 3
    AccountIds = {1, 2, 3}
    Held = {1}
    Modals = {1, 2}
    NoModal = NoModal
    NoAccount = NoAccount
    StatementDays = {1, 2}
    LastMonth <- MCLastMonth
    Past <- MCPast
    NewStamps = {2, 3, 4}
    Amounts <- MCAmounts
    MaxEntries = 3
    NoStatement = NoStatement
    Own = {"a", "b"}
    Others = {"x"}
    Nobody = Nobody
INVARIANT EmptyMeansEmpty
