SPECIFICATION FairPRSpec
CONSTANTS
    NoSub = NoSub
    Edit = Edit
    Subs = {s1}
    Runners = {worker}
    MaxEdits = 3
INVARIANT PromotionSound
PROPERTY RetryConverges
