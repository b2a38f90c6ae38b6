----------------------------- MODULE ClubMembers -----------------------------
(***************************************************************************)
(* Who belongs to a club, with which role: clubService.go,                 *)
(* clubMemberService.go, clubSectionService.go, clubInvitationService.go   *)
(* and controllers/clubs.go, for one club.                                 *)
(*                                                                         *)
(* A request is a sequence of statements, each its own transaction; the    *)
(* requests of several users interleave, and any statement may fail and    *)
(* end its request, what was written before stays.  Keycloak and the mail  *)
(* server succeed or fail.  The names and addresses of a club are left     *)
(* out.                                                                    *)
(***************************************************************************)
EXTENDS Naturals, FiniteSets

CONSTANTS
    User,
    Registered,     \* the users known at the start; others come by invitation
    Section,
    Token,          \* invitation tokens; bounds how often anybody is invited
    Req,            \* slots for concurrent requests
    Op,             \* the operations that are requested
    Role,           \* the roles that are requested, "OTHER" for any other word
    MayFail,        \* may statements fail?
    NoRole, NoSection, NoUser, NoToken

Roles == {"LEITER", "CO_LEITER", "SCHRIFTFUEHRER", "SCHATZMEISTER", "MITGLIED"}
Managers == {"LEITER", "CO_LEITER"}
Inviters == Roles \ {"MITGLIED"}

Ops == {"create", "delete", "role", "remove", "leave", "authorize", "assign",
        "addSection", "dropSection", "invite", "revoke", "accept", "complete"}

\* What the constants have to satisfy.
ClubConstants ==
    /\ Registered \subseteq User /\ Op \subseteq Ops /\ Role \subseteq Roles \union {"OTHER"}
    /\ MayFail \in BOOLEAN
    /\ NoRole \notin Roles /\ NoSection \notin Section
    /\ NoUser \notin User /\ NoToken \notin Token

VARIABLES
    club,       \* clubs: "none", "live" or "gone"
    role,       \* club_participant.role
    section,    \* club_participant.section_fk
    leader,     \* the members with section_leader set
    authorized, \* the members with authorized set
    sections,   \* club_section
    invitation, \* invitation[k]: its addressee and its state
    account,    \* the users with a Keycloak account
    stored,     \* the users with a row in the table user
    known,      \* the users whose row has their email
    req,        \* req[r]: the request in slot r and its next statement
    founded,    \* history: has the creator been made LEITER?
    joined,     \* history: the users that have ever been members
    rowless,    \* history: the users that could not become members without a row
    overlapped, \* history: did a request begin while another was under way?
    halved      \* history: did a deletion fail after it had let all members go?

member  == <<role, section, leader, authorized>>
people  == <<account, stored, known>>
history == <<founded, joined, rowless, overlapped, halved>>
vars    == <<club, member, sections, invitation, people, req, history>>

Members == {u \in User : role[u] # NoRole}
Leiters == {u \in User : role[u] = "LEITER"}

Steps == {"idle", "authorize", "find", "member", "section", "count", "write",
          "invitations", "participants", "club", "founder", "read", "account",
          "save", "email", "join", "mark"}

Idle == [pc |-> "idle", op |-> "leave", by |-> NoUser, who |-> NoUser,
         role |-> NoRole, section |-> NoSection, lead |-> FALSE, token |-> NoToken]

TypeOK ==
    /\ club \in {"none", "live", "gone"}
    /\ role \in [User -> Roles \union {NoRole}]
    /\ section \in [User -> Section \union {NoSection}]
    /\ leader \subseteq User /\ authorized \subseteq User
    /\ sections \in [Section -> {"unused", "live", "gone"}]
    /\ invitation \in [Token -> [to : User \union {NoUser},
                                 state : {"unused", "open", "accepted", "gone"}]]
    /\ account \subseteq User /\ stored \subseteq User /\ known \subseteq stored
    /\ req \in [Req -> [pc : Steps, op : Ops, by : User \union {NoUser},
                        who : User \union {NoUser}, role : Roles \union {NoRole, "OTHER"},
                        section : Section \union {NoSection}, lead : BOOLEAN,
                        token : Token \union {NoToken}]]
    /\ founded \in BOOLEAN /\ overlapped \in BOOLEAN /\ halved \in BOOLEAN
    /\ joined \subseteq User /\ rowless \subseteq User

Init ==
    /\ club = "none"
    /\ role = [u \in User |-> NoRole]
    /\ section = [u \in User |-> NoSection]
    /\ leader = {} /\ authorized = {}
    /\ sections = [x \in Section |-> "unused"]
    /\ invitation = [k \in Token |-> [to |-> NoUser, state |-> "unused"]]
    /\ account = Registered /\ stored = Registered /\ known = Registered
    /\ req = [r \in Req |-> Idle]
    /\ founded = FALSE /\ overlapped = FALSE /\ halved = FALSE
    /\ joined = {} /\ rowless = {}

At(r, pc) == req[r].pc = pc
Goto(r, pc) == req' = [req EXCEPT ![r].pc = pc]
End(r) == req' = [req EXCEPT ![r] = Idle]

\* The row of u goes, with its section and flags.
Expel(U) ==
    /\ role' = [u \in User |-> IF u \in U THEN NoRole ELSE role[u]]
    /\ section' = [u \in User |-> IF u \in U THEN NoSection ELSE section[u]]
    /\ leader' = leader \ U
    /\ authorized' = authorized \ U

\* Mutant: a REPLACE, which takes away the role a member has.
AdmitAnew(u, ro) ==
    /\ IF club = "live" /\ u \in stored
       THEN role' = [role EXCEPT ![u] = ro] /\ joined' = joined \union {u}
       ELSE UNCHANGED <<role, joined>>
    /\ rowless' = rowless \union ({u} \ stored)
    /\ UNCHANGED <<section, leader, authorized>>

\* CreateMemberInClub is an INSERT IGNORE: a member keeps the row it has, and
\* a foreign key without its club or its user is no error either.
Admit(u, ro) ==
    /\ IF club = "live" /\ u \in stored /\ role[u] = NoRole
       THEN role' = [role EXCEPT ![u] = ro] /\ joined' = joined \union {u}
       ELSE UNCHANGED <<role, joined>>
    /\ rowless' = rowless \union ({u} \ stored)
    /\ UNCHANGED <<section, leader, authorized>>

-----------------------------------------------------------------------------
(* Requests and who may make them.                                         *)

\* Whom a request is about: itself, unless it names another.
Whom(op, by) ==
    IF op \in {"role", "remove", "authorize", "assign", "invite"} THEN User ELSE {by}

WhichSections(op) ==
    CASE op = "assign" -> Section \union {NoSection}
      [] op \in {"addSection", "dropSection"} -> Section
      [] OTHER -> {NoSection}

\* Which invitation: a new one, one that was written, or the one that was sent.
WhichTokens(op, by) ==
    CASE op = "invite" -> {k \in Token : invitation[k].state = "unused"}
      [] op \in {"revoke", "accept"} -> {k \in Token : invitation[k].state # "unused"}
      [] op = "complete" -> {k \in Token : invitation[k].state # "unused" /\ invitation[k].to = by}
      [] OTHER -> {NoToken}

\* Only completing a registration needs no account.
Ask(r) ==
    /\ At(r, "idle")
    /\ \E op \in Op, by \in User :
         /\ op # "complete" => by \in account
         /\ \E who \in Whom(op, by), se \in WhichSections(op), k \in WhichTokens(op, by),
               ro \in (IF op = "role" THEN Role ELSE {NoRole}),
               le \in (IF op \in {"assign", "authorize"} THEN BOOLEAN ELSE {FALSE}) :
              req' = [req EXCEPT ![r] =
                [pc |-> CASE op = "create" -> "club"
                          [] op \in {"accept", "complete"} -> "read"
                          [] OTHER -> "authorize",
                 op |-> op, by |-> by, who |-> who, role |-> ro, section |-> se,
                 lead |-> le, token |-> k]]
    /\ overlapped' = (overlapped \/ \E q \in Req \ {r} : ~ At(q, "idle"))
    /\ UNCHANGED <<club, member, sections, invitation, people, founded, joined, rowless, halved>>

\* Mutant: any word is taken for a role.
AnyWord(ro) == TRUE

IsSupportedRole(ro) == ro \in Roles

\* Mutant: a CO_LEITER may hand out any role.
PermittedToManagers(q) ==
    LET as == role[q.by] IN
    CASE q.op = "role" -> as \in Managers /\ IsSupportedRole(q.role)
      [] q.op = "remove" -> as \in Managers
      [] q.op = "delete" -> as = "LEITER"
      [] q.op = "leave" -> as # NoRole
      [] q.op \in {"invite", "revoke"} -> as \in Inviters
      [] OTHER -> as \in Managers

\* GetRoleInClub of the requester and the checks that need no other statement.
Permitted(q) ==
    LET as == role[q.by] IN
    CASE q.op = "role" -> /\ as \in Managers /\ IsSupportedRole(q.role)
                          /\ ~ (as = "CO_LEITER" /\ q.role = "LEITER")
      [] q.op = "remove" -> as \in Managers /\ q.by # q.who
      [] q.op = "delete" -> as = "LEITER"
      [] q.op = "leave" -> as # NoRole
      [] q.op \in {"invite", "revoke"} -> as \in Inviters
      [] OTHER -> as \in Managers

Authorize(r) ==
    LET q == req[r] IN
    /\ At(r, "authorize")
    /\ IF ~ Permitted(q) THEN End(r)
       ELSE Goto(r, CASE q.op \in {"role", "remove", "authorize", "assign"} -> "member"
                      [] q.op = "leave" -> IF role[q.by] = "LEITER" THEN "count" ELSE "write"
                      [] q.op = "delete" -> "find"
                      [] OTHER -> "write")
    /\ UNCHANGED <<club, member, sections, invitation, people, history>>

\* The row of the member concerned.
ReadMember(r) ==
    LET q == req[r]
        stepsDown == q.op = "remove" \/ (q.op = "role" /\ q.role # "LEITER") IN
    /\ At(r, "member")
    /\ IF role[q.who] = NoRole THEN End(r)
       ELSE Goto(r, CASE (q.op = "assign" /\ q.section # NoSection) -> "section"
                      [] (role[q.who] = "LEITER" /\ stepsDown) -> "count"
                      [] OTHER -> "write")
    /\ UNCHANGED <<club, member, sections, invitation, people, history>>

FindSection(r) ==
    /\ At(r, "section")
    /\ IF sections[req[r].section] = "live" THEN Goto(r, "write") ELSE End(r)
    /\ UNCHANGED <<club, member, sections, invitation, people, history>>

\* Mutant: the member that goes is not counted.
IsNoLeiter == Cardinality(Leiters) < 1

IsLastLeiter == Cardinality(Leiters) <= 1

RequireNotLastLeiter(r) ==
    /\ At(r, "count")
    /\ IF IsLastLeiter THEN End(r) ELSE Goto(r, "write")
    /\ UNCHANGED <<club, member, sections, invitation, people, history>>

-----------------------------------------------------------------------------
(* The statements that write.                                              *)

UpdateMemberRole(r) ==
    LET q == req[r] IN
    /\ At(r, "write") /\ q.op = "role"
    /\ role' = IF role[q.who] = NoRole THEN role ELSE [role EXCEPT ![q.who] = q.role]
    /\ End(r)
    /\ UNCHANGED <<club, section, leader, authorized, sections, invitation, people, history>>

\* RemoveMember and LeaveClub.
DeleteClubMember(r) ==
    /\ At(r, "write") /\ req[r].op \in {"remove", "leave"}
    /\ Expel({req[r].who})
    /\ End(r)
    /\ UNCHANGED <<club, sections, invitation, people, history>>

SetMemberAuthorized(r) ==
    LET q == req[r] IN
    /\ At(r, "write") /\ q.op = "authorize"
    /\ authorized' = IF q.lead THEN authorized \union ({q.who} \intersect Members)
                               ELSE authorized \ {q.who}
    /\ End(r)
    /\ UNCHANGED <<club, role, section, leader, sections, invitation, people, history>>

\* The foreign key refuses a section that has gone meanwhile.
AssignMember(r) ==
    LET q == req[r] IN
    /\ At(r, "write") /\ q.op = "assign"
    /\ IF role[q.who] # NoRole /\ (q.section = NoSection \/ sections[q.section] = "live")
       THEN /\ section' = [section EXCEPT ![q.who] = q.section]
            /\ leader' = IF q.lead /\ q.section # NoSection
                         THEN leader \union {q.who} ELSE leader \ {q.who}
       ELSE UNCHANGED <<section, leader>>
    /\ End(r)
    /\ UNCHANGED <<club, role, authorized, sections, invitation, people, history>>

CreateSection(r) ==
    LET q == req[r] IN
    /\ At(r, "write") /\ q.op = "addSection"
    /\ sections' = IF club = "live" /\ sections[q.section] = "unused"
                   THEN [sections EXCEPT ![q.section] = "live"] ELSE sections
    /\ End(r)
    /\ UNCHANGED <<club, member, invitation, people, history>>

\* Mutant: the members keep their assignment.
DeleteSectionOnly(r) ==
    /\ At(r, "write") /\ req[r].op = "dropSection"
    /\ sections' = [sections EXCEPT ![req[r].section] = IF @ = "live" THEN "gone" ELSE @]
    /\ End(r)
    /\ UNCHANGED <<club, member, invitation, people, history>>

\* ON DELETE SET NULL unassigns the members and leaves the other columns alone.
DeleteSection(r) ==
    LET q == req[r] IN
    /\ At(r, "write") /\ q.op = "dropSection"
    /\ sections' = [sections EXCEPT ![q.section] = IF @ = "live" THEN "gone" ELSE @]
    /\ section' = [u \in User |-> IF section[u] = q.section THEN NoSection ELSE section[u]]
    /\ End(r)
    /\ UNCHANGED <<club, role, leader, authorized, invitation, people, history>>

-----------------------------------------------------------------------------
(* Founding and deleting the club.                                         *)

\* PostClub: the club, then its first LEITER.
SaveClub(r) ==
    /\ At(r, "club") /\ req[r].op = "create"
    /\ IF club = "none" THEN club' = "live" /\ Goto(r, "founder")
                        ELSE UNCHANGED club /\ End(r)
    /\ UNCHANGED <<member, sections, invitation, people, history>>

AddFounder(r) ==
    /\ At(r, "founder")
    /\ Admit(req[r].by, "LEITER")
    /\ founded' = TRUE
    /\ End(r)
    /\ UNCHANGED <<club, sections, invitation, people, overlapped, halved>>

FindClub(r) ==
    /\ At(r, "find")
    /\ IF club = "live" THEN Goto(r, "invitations") ELSE End(r)
    /\ UNCHANGED <<club, member, sections, invitation, people, history>>

DeleteClubInvitations(r) ==
    /\ At(r, "invitations")
    /\ invitation' = [k \in Token |->
                        IF invitation[k].state \in {"open", "accepted"}
                        THEN [invitation[k] EXCEPT !.state = "gone"] ELSE invitation[k]]
    /\ Goto(r, "participants")
    /\ UNCHANGED <<club, member, sections, people, history>>

DeleteClubMembers(r) ==
    /\ At(r, "participants")
    /\ Expel(Members)
    /\ Goto(r, "club")
    /\ UNCHANGED <<club, sections, invitation, people, history>>

\* Rows that still refer to the club keep it; its sections go with it.
DeleteClub(r) ==
    /\ At(r, "club") /\ req[r].op = "delete"
    /\ IF Members = {} /\ \A k \in Token : invitation[k].state \notin {"open", "accepted"}
       THEN /\ club' = "gone"
            /\ sections' = [x \in Section |-> IF sections[x] = "live" THEN "gone" ELSE sections[x]]
       ELSE UNCHANGED <<club, sections>>
    /\ End(r)
    /\ UNCHANGED <<member, invitation, people, history>>

-----------------------------------------------------------------------------
(* Invitations.                                                            *)

\* InviteUsersByEmail for one address: a known user joins at once.
InviteUser(r) ==
    LET q == req[r] IN
    /\ At(r, "write") /\ q.op = "invite"
    /\ Goto(r, IF q.who \in known THEN "join" ELSE "save")
    /\ UNCHANGED <<club, member, sections, invitation, people, history>>

\* The row stays whether or not its mail can be sent.
CreateInvitation(r) ==
    LET q == req[r] IN
    /\ At(r, "save") /\ q.op = "invite"
    /\ invitation' = IF club = "live" /\ invitation[q.token].state = "unused"
                     THEN [invitation EXCEPT ![q.token] = [to |-> q.who, state |-> "open"]]
                     ELSE invitation
    /\ End(r)
    /\ UNCHANGED <<club, member, sections, people, history>>

RevokeInvitation(r) ==
    LET k == req[r].token IN
    /\ At(r, "write") /\ req[r].op = "revoke"
    /\ invitation' = [invitation EXCEPT ![k].state = IF @ \in {"open", "accepted"} THEN "gone" ELSE @]
    /\ End(r)
    /\ UNCHANGED <<club, member, sections, people, history>>

\* Mutant: an invitation may be used again.
UsableAgain(k, u) == invitation[k].state \in {"open", "accepted"} /\ invitation[k].to = u

\* Open, not expired, addressed to the requester.
Usable(k, u) == invitation[k].state = "open" /\ invitation[k].to = u

\* Mutant: the invitation is marked before its addressee is let in.
ReadAndMark(r) ==
    LET q == req[r] IN
    /\ At(r, "read")
    /\ IF Usable(q.token, q.who) /\ (q.op = "complete" => q.who \notin known)
       THEN /\ invitation' = [invitation EXCEPT ![q.token].state = "accepted"]
            /\ Goto(r, IF q.op = "accept" THEN "join" ELSE "account")
       ELSE UNCHANGED invitation /\ End(r)
    /\ UNCHANGED <<club, member, sections, people, history>>

\* Either outcome of the check for expiry is possible.
ReadInvitation(r) ==
    LET q == req[r] IN
    /\ At(r, "read")
    /\ \/ /\ Usable(q.token, q.who)
          /\ q.op = "complete" => q.who \notin known
          /\ Goto(r, IF q.op = "accept" THEN "join" ELSE "account")
       \/ End(r)
    /\ UNCHANGED <<club, member, sections, invitation, people, history>>

\* Keycloak refuses a second account with the same address.
CreateInvitedUser(r) ==
    LET q == req[r] IN
    /\ At(r, "account")
    /\ IF q.who \in account THEN UNCHANGED account /\ End(r)
       ELSE account' = account \union {q.who} /\ Goto(r, "save")
    /\ UNCHANGED <<club, member, sections, invitation, stored, known, history>>

\* SaveUser and UpdateFromEndpoint; only the second writes the email.
SaveUser(r) ==
    LET q == req[r] IN
    /\ At(r, "save") /\ q.op = "complete"
    /\ stored' = stored \union {q.who}
    /\ Goto(r, "email")
    /\ UNCHANGED <<club, member, sections, invitation, account, known, history>>

UpdateFromEndpoint(r) ==
    LET q == req[r] IN
    /\ At(r, "email")
    /\ known' = known \union {q.who}
    /\ Goto(r, "join")
    /\ UNCHANGED <<club, member, sections, invitation, account, stored, history>>

\* Either fails: the account is taken back, if Keycloak answers.  The row it
\* leaves behind has the id of an account that is gone.
SaveUserFails(r) ==
    LET q == req[r] IN
    /\ MayFail
    /\ At(r, "save") \/ At(r, "email")
    /\ q.op = "complete"
    /\ \/ /\ account' = account \ {q.who}
          /\ stored' = stored \ {q.who}
          /\ known' = known \ {q.who}
       \/ UNCHANGED people
    /\ End(r)
    /\ UNCHANGED <<club, member, sections, invitation, history>>

AddUserToClub(r) ==
    LET q == req[r] IN
    /\ At(r, "join")
    /\ Admit(q.who, "MITGLIED")
    /\ IF q.op = "invite" THEN End(r) ELSE Goto(r, "mark")
    /\ UNCHANGED <<club, sections, invitation, people, founded, overlapped, halved>>

MarkAccepted(r) ==
    LET k == req[r].token IN
    /\ At(r, "mark")
    /\ invitation' = [invitation EXCEPT ![k].state = IF @ = "open" THEN "accepted" ELSE @]
    /\ End(r)
    /\ UNCHANGED <<club, member, sections, people, history>>

-----------------------------------------------------------------------------
\* A statement fails: the request answers an error.
Fail(r) ==
    /\ MayFail
    /\ ~ At(r, "idle") /\ ~ At(r, "email") /\ ~ (At(r, "save") /\ req[r].op = "complete")
    /\ End(r)
    /\ halved' = (halved \/ (At(r, "club") /\ req[r].op = "delete"))
    /\ UNCHANGED <<club, member, sections, invitation, people, founded, joined, rowless,
                   overlapped>>

\* PUT /users, which the client sends when it starts: the first writes the row
\* without the email, the next the email.
SyncUser(u) ==
    /\ u \in account \ known
    /\ stored' = stored \union {u}
    /\ known' = IF u \in stored THEN known \union {u} ELSE known
    /\ UNCHANGED <<club, member, sections, invitation, account, req, history>>

Step(r) ==
    \/ Authorize(r) \/ ReadMember(r) \/ FindSection(r) \/ RequireNotLastLeiter(r)
    \/ UpdateMemberRole(r) \/ DeleteClubMember(r) \/ SetMemberAuthorized(r)
    \/ AssignMember(r) \/ CreateSection(r) \/ DeleteSection(r)
    \/ SaveClub(r) \/ AddFounder(r)
    \/ FindClub(r) \/ DeleteClubInvitations(r) \/ DeleteClubMembers(r) \/ DeleteClub(r)
    \/ InviteUser(r) \/ CreateInvitation(r) \/ RevokeInvitation(r)
    \/ ReadInvitation(r) \/ CreateInvitedUser(r) \/ SaveUser(r) \/ UpdateFromEndpoint(r)
    \/ SaveUserFails(r)
    \/ AddUserToClub(r) \/ MarkAccepted(r)
    \/ Fail(r)

Next ==
    \/ \E r \in Req : Ask(r) \/ Step(r)
    \/ \E u \in User : SyncUser(u)

Spec == Init /\ [][Next]_vars

-----------------------------------------------------------------------------
(* Properties.                                                             *)

Quiet == \A r \in Req : At(r, "idle")

\* clubMemberService.go:11: every club keeps at least one LEITER. TLC refutes it
\* for two requests at once, each of which counts the other's LEITER.
EveryClubKeepsLeiter == club = "live" /\ founded /\ Quiet => Leiters # {}

\* What the code does give: as long as requests have come one at a time and no
\* deletion has stopped half way, a club has a LEITER from its founding to its
\* deletion, whoever leaves, is removed or gives up the role.
KeepsLeiter == ~ overlapped /\ ~ halved => EveryClubKeepsLeiter

\* Only UpdateMemberRole changes the role of a member: no invitation, retry or
\* second joining demotes or promotes somebody who is in the club already.
KeepsRoles ==
    \A u \in Members : role'[u] \notin {role[u], NoRole} =>
      \E r \in Req : req[r].op = "role" /\ req[r].who = u
RoleKept == [][KeepsRoles]_vars

\* Nobody becomes LEITER but the founder and those a LEITER makes one; here
\* while requests have come one at a time, so the LEITER that asked still is one.
AskedByLeiter ==
    \A u \in Leiters' \ Leiters : founded /\ ~ overlapped => \E r \in Req : req[r].by \in Leiters
LeiterByLeiter == [][AskedByLeiter]_vars

\* An invitation is marked accepted only when its addressee has been let in.
\* The exception is an addressee that PUT /users has not stored yet, whom the
\* INSERT IGNORE passes over in silence.
AcceptedHasJoined ==
    \A k \in Token : invitation[k].state = "accepted" =>
      invitation[k].to \in joined \union rowless

\* Whoever has been removed does not come back with an invitation that was
\* accepted before: while requests have come one at a time, accepted invitations
\* let nobody in.
JoinsUnspent ==
    \A u \in User : ~ overlapped /\ role[u] = NoRole /\ role'[u] # NoRole =>
      \A r \in Req : At(r, "join") /\ req[r].who = u /\ req[r].op # "invite" =>
        invitation[req[r].token].state # "accepted"
SpentStaysSpent == [][JoinsUnspent]_vars

\* A section has its members' assignments: nobody is in a section that is gone.
AssignedToLiveSection ==
    \A u \in User : section[u] # NoSection => role[u] # NoRole /\ sections[section[u]] = "live"
=============================================================================
