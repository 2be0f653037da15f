SPECIFICATION FairSpec
CONSTANTS
    Clients = {c1, c2}
    Datagrams <- MCDatagrams
    RemotePorts = {0, 9096}
    Magic = 1
    Header = 3
    MaxData = 7
    Canfd = 2
    MaxFrame = 5
    Capacity = 2
INVARIANTS
    WholeMessagesOnly
    SendsOnlyToSenders
    AnswersTheAsker
PROPERTIES
    LoneClientIsServed
