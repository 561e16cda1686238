CONSTANTS
    Peer = {p1, p2}
    Bs = Bs
    Nil = Nil
    Rate = {1}
    MaxPCount = 1
    MaxMissPong = 1
    PromoteTtl = 1
    MaxUnanswered = 1
SPECIFICATION SuperpeerSpec
INVARIANTS SuperpeerTypeOK
PROPERTIES PromotionEnds SilentChildForgotten
CHECK_DEADLOCK FALSE
