SPECIFICATION QSpec
CONSTANTS
    Sessions = {"none", "s1", "s2"}
    NoSession = "none"
    MaxSeq = 3
    Capacity = 3
    MaxItems = 4
CHECK_DEADLOCK FALSE
INVARIANT QTypeOK NeverBlocks ExactlyOnce InOrderUnlessLate
PROPERTY EventuallyHandedOn
