SPECIFICATION Spec
CONSTANTS
    User = {u1, u2}
    Manual = {m1}
    Job = job
    NoUser = NoUser
    Cooldown = 2
    Hours = {3}
    Start = 3
    MayFail = TRUE
SYMMETRY Symmetric
INVARIANTS TypeOK AutoOnce CooldownKept OnlyOpenReminded
