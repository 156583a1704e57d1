CONSTANTS
    reward = reward
    vote = vote
    c1 = c1
    c2 = c2
    Item = {reward, vote}
    Channels = {c1, c2}
    NoChannel = NoChannel
    Home <- TwoHomes
    Reward = {reward}
    Link = {vote}
    Stock = 2
    Run = {r1}
    MaxChanges = 1
SPECIFICATION CartSpec
INVARIANTS EditsStayInCart  OneChannel
PROPERTIES SelectionKept
CHECK_DEADLOCK FALSE
