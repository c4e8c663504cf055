SPECIFICATION FairTransferSpec
CONSTANTS
    a = a  b = b  c = c  d = d  h1 = h1  h2 = h2  g1 = g1  g2 = g2
    NoOne = NoOne
    Participants = {a, b, c}
    Senders = {a}
    Receivers = {b}
    Reapers = {b, c}
    Blocks = {b1}
    Handles = {h1, g1}
    Home <- MCHome
    Mortal = {a, b}
    MaxGeneration = 2
    Capacity = 1
    Scan <- ChannelFirst
CHECK_DEADLOCK FALSE
INVARIANTS ReapedIsForgotten
 
