\* One request after another, with a repeated address, up to two retries and a
\* limit that a reload may make 0 or negative.
CONSTANTS
    a = a  b = b
    Req = {r1}
    IP = {a, b}
    Lists <- AllLists
    Retries <- SomeRetries
    Concurrency <- SomeLimits
SPECIFICATION FairSpec
INVARIANTS
    TypeOK
    OneResultEach
    UpMeansAnswered
    AnsweredMeansUp
    RetriedEnough
PROPERTIES
    Answered
