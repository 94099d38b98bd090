\* The send-coins entry with -advancedui: the user may pick a unit in each
\* amount field's combo box.
CONSTANTS
    MaxMoney = 300000
    TextsIn <- MCTexts
    UnitsIn <- MCUnits
    ValuesIn <- MCValues
    StepsIn <- MCSteps
    Addresses <- MCAddresses
    ValidAddresses <- MCValidAddresses
    Usernames <- MCUsernames
    UsernameAddress <- MCUsernameAddress
    DustLimit = 546
    AmountTextsIn <- MCAmountTexts
    EntryStepsIn <- MCEntrySteps
    RecipientsIn <- MCRecipients
    Outpoints <- MCOutpoints
    TokenOf <- MCTokenOf
    AmountOf <- MCAmountOf
    AddrOf <- MCAddrOf
    OwnerTokens = {"B!"}
    PayAmountsIn = {6}
    TypedIn = {"B!"}
    AdvancedUI = TRUE
    Widgets = {"SendCoinsEntry"}
SPECIFICATION MCSpec
INVARIANTS EntryTypeOK
PROPERTIES EntryUnitFollowsOptions DisplayUnitKeepsAmount FailedValidateMarksField
