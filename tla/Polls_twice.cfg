SPECIFICATION Spec
CONSTANTS
    Voter = {u1}
    Option = {o1, o2}
    Req = {r1, r2}
    NoVoter = NoVoter
    MayFail = FALSE
INVARIANT AlwaysSingleChoice
