SPECIFICATION Spec
CONSTANTS
    User = {u1, u2}
    Registered = {u1, u2}
    Section = {}
    Token = {k1}
    Req = {r1, r2}
    Op = {"create", "role", "leave", "invite"}
    Role = {"LEITER", "CO_LEITER", "MITGLIED"}
    MayFail = FALSE
    NoRole = NoRole
    NoSection = NoSection
    NoUser = NoUser
    NoToken = NoToken
INVARIANT EveryClubKeepsLeiter
