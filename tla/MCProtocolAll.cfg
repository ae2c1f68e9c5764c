\* One set_value and one get_value, one fault, arguments of all kinds.
SPECIFICATION Spec
CONSTANTS
    setter = setter
    getter = getter
    Server = Server
    Clients = {setter, getter}
    Order <- SetThenGetOrder
    CommandLines <- SomeCommandLines
    Addresses = 2
    Tables <- SomeTables
    Text <- SomeText
    MaxFaults = 1
    MaxCuts = 1
    NoLine = NoLine
    Bytes <- Alphabet
    Newline <- Eol
    MaxLine = 9
    RioSize = 16
    Letters = {"u", "t", "k", "x"}
    Digits = {"1"}
CHECK_DEADLOCK FALSE
INVARIANTS
    ProtocolTypeOK
    DescriptorsAccounted
    SetThenGet
    ServerOutlivesClients
PROPERTY
    ImplementsLineChannel
    EveryConversationEnds
