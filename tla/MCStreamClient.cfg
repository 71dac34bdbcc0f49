\* Two dtypes fed by one channel, beside one that comes and goes.
CONSTANTS
    a = a
    b = b
    f = f
    channel = channel
    topic = topic
    Feed = {a, b, f}
    Topic = {channel, topic}
    TopicOf <- MCTopicOf
    Fickle = {f}
    Bad <- MCBad
    MaxItems <- MCMaxItems
    MaxCalls <- MCMaxCalls
SPECIFICATION FairSpec
INVARIANTS
    SubscribedOnce
    ItemsOnce
    ClosedIsClosed
PROPERTY
    ReceivedArrives
CHECK_DEADLOCK FALSE
