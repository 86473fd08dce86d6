SPECIFICATION ChatSpec
CONSTANTS
    Exchanges <- MCExchanges
    MaxText = 1
    MaxTools = 2
CHECK_DEADLOCK FALSE

    
    
PROPERTIES
    AlwaysAnswered
