CONSTANTS
    Callers = {w1, w2}
    Instances = {s1}
    Found <- Tables
    MaxTime = 2
SPECIFICATION SchemaFairSpec
INVARIANTS ReadyIsCanonical
PROPERTIES TimeKept AvatarKept CallsEnd
