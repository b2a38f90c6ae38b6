SPECIFICATION MCSpec
CONSTANTS
    User = {u1, u2, u3}
    Registered = {u1, u2}
    Section = {s1}
    Token = {k1, k2}
    Req = {r1, r2}
    Op = {"create", "delete", "role", "remove", "leave", "authorize", "assign", "addSection",
          "dropSection", "invite", "revoke", "accept", "complete"}
    Role = {"LEITER", "CO_LEITER", "MITGLIED", "OTHER"}
    MayFail = TRUE
    SerialOp = {"create", "role", "remove", "leave", "invite", "accept", "complete"}
    RacingOp = {"create", "delete", "remove", "leave", "invite", "revoke", "accept", "complete",
                "authorize"}
    SectionOp = {"create", "delete", "invite", "complete", "assign", "addSection", "dropSection"}
    RacingUser = {u1, u3}
    RacingToken = {k1}
    NoRole = NoRole
    NoSection = NoSection
    NoUser = NoUser
    NoToken = NoToken
SYMMETRY Symmetric
INVARIANTS TypeOK  AcceptedHasJoined AssignedToLiveSection
PROPERTIES LeiterByLeiter SpentStaysSpent RoleKept
