-------------------------- MODULE ClubMembersProofs --------------------------
(***************************************************************************)
(* What holds of ClubMembers for every number of users, sections,          *)
(* invitations and requests.                                               *)
(***************************************************************************)
EXTENDS ClubMembers, FiniteSetTheorems, TLAPS

(***************************************************************************)
(* What the invariants need to be inductive.                               *)
(***************************************************************************)

Request == [pc : Steps, op : Ops, by : User \union {NoUser}, who : User \union {NoUser},
            role : Roles \union {NoRole, "OTHER"}, section : Section \union {NoSection},
            lead : BOOLEAN, token : Token \union {NoToken}]

\* The operations a statement belongs to; the last is "mark".
Serves(pc) ==
    CASE pc = "idle" -> Ops
      [] pc = "authorize" -> Ops \ {"create", "accept", "complete"}
      [] pc = "member" -> {"role", "remove", "authorize", "assign"}
      [] pc = "section" -> {"assign"}
      [] pc = "count" -> {"role", "remove", "leave"}
      [] pc = "write" -> Ops \ {"create", "delete", "accept", "complete"}
      [] pc = "founder" -> {"create"}
      [] pc = "club" -> {"create", "delete"}
      [] pc \in {"find", "invitations", "participants"} -> {"delete"}
      [] pc = "read" -> {"accept", "complete"}
      [] pc \in {"account", "email"} -> {"complete"}
      [] pc = "save" -> {"invite", "complete"}
      [] pc = "join" -> {"invite", "accept", "complete"}
      [] OTHER -> {"accept", "complete"}

\* A request keeps to the course of its operation; it concerns a user, and its
\* role was looked up in the list of roles.
OnCourse(q) ==
    /\ q.op \in Serves(q.pc)
    /\ q.pc # "idle" => q.by \in User /\ q.who \in User
    /\ q.op = "leave" => q.who = q.by
    /\ q.op \in {"invite", "revoke", "accept", "complete"} => q.token \in Token
    /\ q.op \in {"addSection", "dropSection"} => q.section \in Section
    /\ q.op = "role" /\ q.pc \in {"member", "count", "write"} => q.role \in Roles

Course == \A r \in Req : OnCourse(req[r])

\* A club that is not there has no invitation, and had none before it was founded.
Outstanding ==
    /\ club # "live" => \A k \in Token : invitation[k].state \notin {"open", "accepted"}
    /\ club = "none" => \A k \in Token : invitation[k].state = "unused"

\* A request that follows an invitation is its addressee's.
Follows(q) ==
    /\ q.op \in {"accept", "complete"}
    /\ q.pc \in {"account", "save", "email", "join", "mark"}

Addressed ==
    \A r \in Req : Follows(req[r]) =>
      /\ invitation[req[r].token].state # "unused"
      /\ invitation[req[r].token].to = req[r].who

\* What the INSERT IGNORE did with it: it made a member of the addressee, found
\* one, passed over a user without a row, or the club has gone.
LetIn ==
    /\ Members \subseteq joined
    /\ \A r \in Req : At(r, "mark") => req[r].who \in joined \union rowless \/ club = "gone"
-----------------------------------------------------------------------------
(* Requests.                                                               *)

ReqTyped == req \in [Req -> Request]

LEMMA IdleRequest == Idle \in Request /\ OnCourse(Idle) /\ Idle.pc = "idle"
BY DEF Idle, Request, Steps, Ops, OnCourse, Serves

\* A request that ends is idle, and the others are as they were.
LEMMA Ended ==
    ASSUME ReqTyped, NEW r \in Req, End(r)
    PROVE  /\ ReqTyped'
           /\ req'[r] = Idle
           /\ \A x \in Req : x # r => req'[x] = req[x]
BY IdleRequest DEF ReqTyped, End

\* A request that goes on keeps everything but the statement that is next.
LEMMA Went ==
    ASSUME ReqTyped, NEW r \in Req, NEW pc \in Steps, Goto(r, pc)
    PROVE  /\ ReqTyped'
           /\ req'[r] \in Request /\ req'[r].pc = pc
           /\ req'[r].op = req[r].op /\ req'[r].by = req[r].by /\ req'[r].who = req[r].who
           /\ req'[r].role = req[r].role /\ req'[r].section = req[r].section
           /\ req'[r].lead = req[r].lead /\ req'[r].token = req[r].token
           /\ \A x \in Req : x # r => req'[x] = req[x]
<1>1. [req[r] EXCEPT !.pc = pc] \in Request
  BY DEF ReqTyped, Request
<1>2. req' = [req EXCEPT ![r] = [req[r] EXCEPT !.pc = pc]]
  BY DEF Goto
<1>3. /\ req[r] \in Request
      /\ req'[r] = [req[r] EXCEPT !.pc = pc]
      /\ ReqTyped'
      /\ \A x \in Req : x # r => req'[x] = req[x]
  BY <1>1, <1>2 DEF ReqTyped
<1>4. QED
  BY <1>1, <1>3 DEF Request

\* A step ends its request or goes on to another statement.
LEMMA StepGoes ==
    ASSUME NEW r \in Req, Step(r)
    PROVE  End(r) \/ \E pc \in Steps : Goto(r, pc)
BY DEF Step, Steps,
     Authorize, ReadMember, FindSection, RequireNotLastLeiter, UpdateMemberRole,
     DeleteClubMember, SetMemberAuthorized, AssignMember, CreateSection, DeleteSection,
     SaveClub, AddFounder, FindClub, DeleteClubInvitations, DeleteClubMembers, DeleteClub,
     InviteUser, CreateInvitation, RevokeInvitation, ReadInvitation, CreateInvitedUser,
     SaveUser, UpdateFromEndpoint, SaveUserFails, AddUserToClub, MarkAccepted, Fail

\* A step of r goes on to a statement of its operation, or ends.
LEMMA StepCourse ==
    ASSUME ClubConstants, ReqTyped, Course, NEW r \in Req, Step(r)
    PROVE  /\ ReqTyped' /\ OnCourse(req'[r])
           /\ \A x \in Req : x # r => req'[x] = req[x]
<1>0. OnCourse(req[r])
  BY DEF Course
<1>1. CASE End(r)
  BY <1>1, Ended, IdleRequest
<1>2. ASSUME NEW pc \in Steps, Goto(r, pc), req[r].op \in Serves(pc),
             At(r, "idle") => pc = "idle",
             req[r].op = "role" /\ pc \in {"member", "count", "write"} => req[r].role \in Roles
      PROVE  ReqTyped' /\ OnCourse(req'[r]) /\ \A x \in Req : x # r => req'[x] = req[x]
  BY <1>0, <1>2, Went DEF OnCourse, At
<1>3. CASE Authorize(r)
  <2>1. CASE ~ Permitted(req[r])
    BY <1>1, <1>3, <2>1 DEF Authorize
  <2>2. CASE Permitted(req[r])
    <3>1. req[r].op = "role" => req[r].role \in Roles
      BY <2>2 DEF Permitted, IsSupportedRole
    <3>2. \E pc \in {"member", "count", "write", "find"} : Goto(r, pc) /\ req[r].op \in Serves(pc)
      BY <1>0, <1>3, <2>2 DEF Authorize, At, OnCourse, Serves, Ops
    <3>3. QED
      BY <1>2, <1>3, <3>1, <3>2 DEF Steps, Authorize, At
  <2>3. QED
    BY <2>1, <2>2
<1>4. CASE ReadMember(r)
  <2>1. \/ End(r)
        \/ \E pc \in {"section", "count", "write"} : Goto(r, pc) /\ req[r].op \in Serves(pc)
    BY <1>0, <1>4 DEF ReadMember, At, OnCourse, Serves, Ops
  <2>2. ~ At(r, "idle") /\ (req[r].op = "role" => req[r].role \in Roles)
    BY <1>0, <1>4 DEF ReadMember, At, OnCourse, Serves
  <2>3. QED
    BY <1>1, <1>2, <2>1, <2>2 DEF Steps
<1>5. CASE FindSection(r)
  <2>1. \/ End(r)
        \/ \E pc \in {"write"} : Goto(r, pc) /\ req[r].op \in Serves(pc)
    BY <1>0, <1>5 DEF FindSection, At, OnCourse, Serves, Ops
  <2>2. ~ At(r, "idle") /\ (req[r].op = "role" => req[r].role \in Roles)
    BY <1>0, <1>5 DEF FindSection, At, OnCourse, Serves
  <2>3. QED
    BY <1>1, <1>2, <2>1, <2>2 DEF Steps
<1>6. CASE RequireNotLastLeiter(r)
  <2>1. \/ End(r)
        \/ \E pc \in {"write"} : Goto(r, pc) /\ req[r].op \in Serves(pc)
    BY <1>0, <1>6 DEF RequireNotLastLeiter, At, OnCourse, Serves, Ops
  <2>2. ~ At(r, "idle") /\ (req[r].op = "role" => req[r].role \in Roles)
    BY <1>0, <1>6 DEF RequireNotLastLeiter, At, OnCourse, Serves
  <2>3. QED
    BY <1>1, <1>2, <2>1, <2>2 DEF Steps
<1>7. CASE \/ UpdateMemberRole(r) \/ DeleteClubMember(r) \/ SetMemberAuthorized(r)
           \/ AssignMember(r) \/ CreateSection(r) \/ DeleteSection(r) \/ AddFounder(r)
           \/ DeleteClub(r) \/ CreateInvitation(r) \/ RevokeInvitation(r)
           \/ SaveUserFails(r) \/ MarkAccepted(r) \/ Fail(r)
  BY <1>1, <1>7 DEF UpdateMemberRole, DeleteClubMember, SetMemberAuthorized, AssignMember,
       CreateSection, DeleteSection, AddFounder, DeleteClub, CreateInvitation,
       RevokeInvitation, SaveUserFails, MarkAccepted, Fail
<1>8. CASE SaveClub(r) \/ FindClub(r) \/ DeleteClubInvitations(r) \/ DeleteClubMembers(r)
  <2>1. \/ End(r)
        \/ \E pc \in {"founder", "invitations", "participants", "club"} :
             Goto(r, pc) /\ req[r].op \in Serves(pc)
    BY <1>0, <1>8 DEF SaveClub, FindClub, DeleteClubInvitations, DeleteClubMembers, At,
         OnCourse, Serves, Ops
  <2>2. ~ At(r, "idle") /\ (req[r].op = "role" => req[r].role \in Roles)
    BY <1>0, <1>8 DEF SaveClub, FindClub, DeleteClubInvitations, DeleteClubMembers, At,
         OnCourse, Serves
  <2>3. QED
    BY <1>1, <1>2, <2>1, <2>2 DEF Steps
<1>9. CASE InviteUser(r) \/ SaveUser(r) \/ UpdateFromEndpoint(r)
  <2>1. \/ End(r)
        \/ \E pc \in {"save", "email", "join"} : Goto(r, pc) /\ req[r].op \in Serves(pc)
    BY <1>0, <1>9 DEF InviteUser, SaveUser, UpdateFromEndpoint, At, OnCourse, Serves, Ops
  <2>2. ~ At(r, "idle") /\ (req[r].op = "role" => req[r].role \in Roles)
    BY <1>0, <1>9 DEF InviteUser, SaveUser, UpdateFromEndpoint, At, OnCourse, Serves
  <2>3. QED
    BY <1>1, <1>2, <2>1, <2>2 DEF Steps
<1>10. CASE ReadInvitation(r) \/ CreateInvitedUser(r) \/ AddUserToClub(r)
  <2>1. \/ End(r)
        \/ \E pc \in {"account", "save", "join", "mark"} : Goto(r, pc) /\ req[r].op \in Serves(pc)
    BY <1>0, <1>10 DEF ReadInvitation, CreateInvitedUser, AddUserToClub, At, OnCourse, Serves, Ops
  <2>2. ~ At(r, "idle") /\ (req[r].op = "role" => req[r].role \in Roles)
    BY <1>0, <1>10 DEF ReadInvitation, CreateInvitedUser, AddUserToClub, At, OnCourse, Serves
  <2>3. QED
    BY <1>1, <1>2, <2>1, <2>2 DEF Steps
<1>11. QED
  BY <1>3, <1>4, <1>5, <1>6, <1>7, <1>8, <1>9, <1>10 DEF Step
-----------------------------------------------------------------------------
(* Types.                                                                  *)

RowsTyped ==
    /\ role \in [User -> Roles \union {NoRole}]
    /\ section \in [User -> Section \union {NoSection}]
    /\ leader \subseteq User /\ authorized \subseteq User
    /\ joined \subseteq User /\ rowless \subseteq User

InvitationTyped ==
    invitation \in [Token -> [to : User \union {NoUser},
                              state : {"unused", "open", "accepted", "gone"}]]

ClubTypedParts ==
    /\ club \in {"none", "live", "gone"}
    /\ founded \in BOOLEAN /\ overlapped \in BOOLEAN /\ halved \in BOOLEAN
    /\ sections \in [Section -> {"unused", "live", "gone"}]

PeopleTyped == account \subseteq User /\ stored \subseteq User /\ known \subseteq stored

\* Nobody's registration is completed by two requests at once: Keycloak gives
\* the account to one of them, and as long as it has it the row is there to get
\* an email.  Without it the email of a row could outlive the row.
Registers(q) == q.op = "complete" /\ q.pc \in {"save", "email"}

Registering ==
    /\ \A r \in Req : Registers(req[r]) => req[r].who \in account
    /\ \A r \in Req : Registers(req[r]) /\ At(r, "email") => req[r].who \in stored
    /\ \A r, x \in Req :
         Registers(req[r]) /\ Registers(req[x]) /\ req[r].who = req[x].who => r = x

TypeInv ==
    RowsTyped /\ InvitationTyped /\ ClubTypedParts /\ PeopleTyped /\ ReqTyped /\ Course
    /\ Registering

LEMMA TypeParts == TypeInv <=> TypeOK /\ Course /\ Registering
BY DEF TypeInv, TypeOK, RowsTyped, InvitationTyped, ClubTypedParts, PeopleTyped, ReqTyped, Request

LEMMA TypeInit == ClubConstants /\ Init => TypeInv
<1> SUFFICES ASSUME ClubConstants, Init
             PROVE  TypeInv
  OBVIOUS
<1>1. RowsTyped /\ InvitationTyped /\ ClubTypedParts /\ PeopleTyped
  BY DEF Init, ClubConstants, RowsTyped, InvitationTyped, ClubTypedParts, PeopleTyped
<1>2. ReqTyped /\ Course /\ Registering
  BY IdleRequest DEF Init, ReqTyped, Course, Registering, Registers, Idle
<1>3. QED
  BY <1>1, <1>2 DEF TypeInv

\* The request that is asked for.
FirstStep(op) ==
    CASE op = "create" -> "club"
      [] op \in {"accept", "complete"} -> "read"
      [] OTHER -> "authorize"

Asked(op, by, who, ro, se, le, k) ==
    [pc |-> FirstStep(op), op |-> op, by |-> by, who |-> who, role |-> ro, section |-> se,
     lead |-> le, token |-> k]

LEMMA AskTyped ==
    ASSUME ClubConstants, TypeInv, NEW r \in Req, Ask(r)
    PROVE  /\ ReqTyped' /\ Course' /\ req[r].pc = "idle"
           /\ req'[r].pc \in {"club", "read", "authorize"}
           /\ req'[r].pc = "club" => req'[r].op = "create" /\ req'[r].by \in account
           /\ \A x \in Req : x # r => req'[x] = req[x]
<1>1. PICK op \in Op, by \in User :
        /\ op # "complete" => by \in account
        /\ \E who \in Whom(op, by), se \in WhichSections(op), k \in WhichTokens(op, by),
              ro \in (IF op = "role" THEN Role ELSE {NoRole}),
              le \in (IF op \in {"assign", "authorize"} THEN BOOLEAN ELSE {FALSE}) :
             req' = [req EXCEPT ![r] = Asked(op, by, who, ro, se, le, k)]
  BY DEF Ask, Asked, FirstStep
<1>2. PICK who \in Whom(op, by), se \in WhichSections(op), k \in WhichTokens(op, by),
           ro \in (IF op = "role" THEN Role ELSE {NoRole}),
           le \in (IF op \in {"assign", "authorize"} THEN BOOLEAN ELSE {FALSE}) :
        req' = [req EXCEPT ![r] = Asked(op, by, who, ro, se, le, k)]
  BY <1>1
<1> DEFINE q == Asked(op, by, who, ro, se, le, k)
<1>3. /\ op \in Ops /\ op \in Serves(FirstStep(op)) /\ FirstStep(op) \in Steps
      /\ FirstStep(op) \in {"club", "read", "authorize"}
      /\ FirstStep(op) = "club" => op = "create"
  BY DEF ClubConstants, Serves, Ops, Steps, FirstStep
<1>4. who \in User /\ (op = "leave" => who = by)
  BY DEF Whom
<1>5. se \in Section \union {NoSection} /\ (op \in {"addSection", "dropSection"} => se \in Section)
  BY DEF WhichSections
<1>6. k \in Token \union {NoToken}
      /\ (op \in {"invite", "revoke", "accept", "complete"} => k \in Token)
  BY DEF WhichTokens
<1>7. ro \in Roles \union {NoRole, "OTHER"} /\ le \in BOOLEAN
  BY DEF ClubConstants
<1>8. q \in Request
  BY <1>3, <1>4, <1>5, <1>6, <1>7 DEF Request, Asked
<1>9. OnCourse(q)
  BY <1>3, <1>4, <1>5, <1>6 DEF OnCourse, Asked
<1>10. req' = [req EXCEPT ![r] = q] /\ ReqTyped /\ Course /\ req[r].pc = "idle"
  BY <1>2 DEF TypeInv, Ask, At
<1>11. q.pc = FirstStep(op) /\ q.op = op /\ q.by = by
  BY DEF Asked
<1> HIDE DEF q
<1>12. req'[r] = q /\ ReqTyped' /\ \A x \in Req : x # r => req'[x] = req[x]
  BY <1>8, <1>10 DEF ReqTyped
<1>13. QED
  BY <1>1, <1>3, <1>9, <1>10, <1>11, <1>12 DEF Course

\* Expelling and admitting keep the types of the rows.
LEMMA ExpelTyped ==
    ASSUME RowsTyped, NEW U, Expel(U), UNCHANGED history
    PROVE  RowsTyped'
BY DEF RowsTyped, Expel, history

LEMMA AdmitTyped ==
    ASSUME RowsTyped, NEW u \in User, NEW ro \in Roles, Admit(u, ro)
    PROVE  RowsTyped'
BY DEF RowsTyped, Admit

LEMMA RowsStep ==
    ASSUME ClubConstants, TypeInv, NEW r \in Req, Step(r)
    PROVE  RowsTyped'
<1>1. RowsTyped /\ OnCourse(req[r]) /\ req[r] \in Request
  BY DEF TypeInv, Course, ReqTyped
<1>2. CASE UpdateMemberRole(r)
  <2>1. req[r].role \in Roles
    BY <1>1, <1>2 DEF UpdateMemberRole, At, OnCourse
  <2>2. role' \in [User -> Roles \union {NoRole}]
    BY <1>1, <1>2, <2>1 DEF UpdateMemberRole, RowsTyped
  <2>3. UNCHANGED <<section, leader, authorized, joined, rowless>>
    BY <1>2 DEF UpdateMemberRole, history
  <2>4. QED
    BY <1>1, <2>2, <2>3 DEF RowsTyped
<1>3. CASE DeleteClubMember(r) \/ DeleteClubMembers(r)
  BY <1>1, <1>3, ExpelTyped DEF DeleteClubMember, DeleteClubMembers
<1>4. CASE AddFounder(r)
  BY <1>1, <1>4, AdmitTyped DEF AddFounder, At, OnCourse, Roles
<1>5. CASE AddUserToClub(r)
  BY <1>1, <1>5, AdmitTyped DEF AddUserToClub, At, OnCourse, Roles
<1>6. CASE SetMemberAuthorized(r)
  BY <1>1, <1>6 DEF SetMemberAuthorized, RowsTyped, Members, history
<1>7. CASE AssignMember(r)
  <2>1. req[r].who \in User /\ req[r].section \in Section \union {NoSection}
    BY <1>1, <1>7 DEF AssignMember, At, OnCourse, Request
  <2>2. section' \in [User -> Section \union {NoSection}] /\ leader' \subseteq User
    BY <1>1, <1>7, <2>1 DEF AssignMember, RowsTyped
  <2>3. UNCHANGED <<role, authorized, joined, rowless>>
    BY <1>7 DEF AssignMember, history
  <2>4. QED
    BY <1>1, <2>2, <2>3 DEF RowsTyped
<1>8. CASE DeleteSection(r)
  BY <1>1, <1>8 DEF DeleteSection, RowsTyped, history
<1>9. CASE UNCHANGED <<role, section, leader, authorized, joined, rowless>>
  BY <1>1, <1>9 DEF RowsTyped
<1>10. QED
  BY <1>2, <1>3, <1>4, <1>5, <1>6, <1>7, <1>8, <1>9 DEF Step, member, history,
       Authorize, ReadMember, FindSection, RequireNotLastLeiter, CreateSection, SaveClub,
       FindClub, DeleteClubInvitations, DeleteClub, InviteUser, CreateInvitation,
       RevokeInvitation, ReadInvitation, CreateInvitedUser, SaveUser, UpdateFromEndpoint,
       SaveUserFails, MarkAccepted, Fail

LEMMA InvitationStep ==
    ASSUME ClubConstants, TypeInv, NEW r \in Req, Step(r)
    PROVE  InvitationTyped'
<1>1. InvitationTyped /\ OnCourse(req[r])
  BY DEF TypeInv, Course
<1>2. CASE DeleteClubInvitations(r)
  BY <1>1, <1>2 DEF DeleteClubInvitations, InvitationTyped
<1>3. CASE CreateInvitation(r)
  BY <1>1, <1>3 DEF CreateInvitation, InvitationTyped, At, OnCourse
<1>4. CASE RevokeInvitation(r)
  BY <1>1, <1>4 DEF RevokeInvitation, InvitationTyped
<1>5. CASE MarkAccepted(r)
  BY <1>1, <1>5 DEF MarkAccepted, InvitationTyped
<1>6. CASE UNCHANGED invitation
  BY <1>1, <1>6 DEF InvitationTyped
<1>7. QED
  BY <1>2, <1>3, <1>4, <1>5, <1>6 DEF Step,
       Authorize, ReadMember, FindSection, RequireNotLastLeiter, UpdateMemberRole,
       DeleteClubMember, SetMemberAuthorized, AssignMember, CreateSection, DeleteSection,
       SaveClub, AddFounder, FindClub, DeleteClubMembers, DeleteClub, InviteUser,
       ReadInvitation, CreateInvitedUser, SaveUser, UpdateFromEndpoint, SaveUserFails,
       AddUserToClub, Fail

LEMMA ClubStep ==
    ASSUME ClubConstants, TypeInv, NEW r \in Req, Step(r)
    PROVE  ClubTypedParts'
<1>1. ClubTypedParts
  BY DEF TypeInv
<1>2. CASE CreateSection(r)
  BY <1>1, <1>2 DEF CreateSection, ClubTypedParts, history
<1>3. CASE DeleteSection(r)
  BY <1>1, <1>3 DEF DeleteSection, ClubTypedParts, history
<1>4. CASE DeleteClub(r)
  BY <1>1, <1>4 DEF DeleteClub, ClubTypedParts, history
<1>5. CASE SaveClub(r)
  BY <1>1, <1>5 DEF SaveClub, ClubTypedParts, history
<1>6. CASE AddFounder(r)
  BY <1>1, <1>6 DEF AddFounder, ClubTypedParts
<1>7. CASE Fail(r)
  BY <1>1, <1>7 DEF Fail, ClubTypedParts
<1>8. CASE UNCHANGED <<club, founded, sections, overlapped, halved>>
  BY <1>1, <1>8 DEF ClubTypedParts
<1>9. QED
  BY <1>2, <1>3, <1>4, <1>5, <1>6, <1>7, <1>8 DEF Step, history,
       Authorize, ReadMember, FindSection, RequireNotLastLeiter, UpdateMemberRole,
       DeleteClubMember, SetMemberAuthorized, AssignMember,
       FindClub, DeleteClubInvitations, DeleteClubMembers, InviteUser, CreateInvitation,
       RevokeInvitation, ReadInvitation, CreateInvitedUser, SaveUser, UpdateFromEndpoint,
       SaveUserFails, AddUserToClub, MarkAccepted

\* Only CreateInvitedUser and SaveUser are followed by a statement of a
\* registration that may be taken back.
LEMMA RegistersNext ==
    ASSUME TypeInv, NEW r \in Req, Step(r), ~ CreateInvitedUser(r), ~ SaveUser(r)
    PROVE  ~ Registers(req'[r])
<1>1. ReqTyped /\ OnCourse(req[r])
  BY DEF TypeInv, Course
<1>2. CASE End(r)
  BY <1>1, <1>2, Ended DEF Idle, Registers
<1>3. ASSUME NEW pc \in Steps \ {"save", "email"}, Goto(r, pc)
      PROVE  ~ Registers(req'[r])
  BY <1>1, <1>3, Went DEF Registers
<1>4. CASE InviteUser(r)
  BY <1>1, <1>4, Went DEF InviteUser, Registers, Steps
<1>5. \/ End(r) \/ InviteUser(r)
      \/ \E pc \in {"find", "member", "section", "count", "write", "invitations", "participants",
                    "club", "founder", "account", "join", "mark"} : Goto(r, pc)
  BY DEF Step, Authorize, ReadMember, FindSection, RequireNotLastLeiter, UpdateMemberRole,
       DeleteClubMember, SetMemberAuthorized, AssignMember, CreateSection, DeleteSection,
       SaveClub, AddFounder, FindClub, DeleteClubInvitations, DeleteClubMembers, DeleteClub,
       CreateInvitation, RevokeInvitation, ReadInvitation, UpdateFromEndpoint,
       SaveUserFails, AddUserToClub, MarkAccepted, Fail
<1>6. QED
  BY <1>2, <1>3, <1>4, <1>5 DEF Steps

LEMMA PeopleStep ==
    ASSUME ClubConstants, TypeInv, NEW r \in Req, Step(r)
    PROVE  PeopleTyped' /\ Registering'
<1>1. PeopleTyped /\ Registering /\ ReqTyped /\ OnCourse(req[r])
  BY DEF TypeInv, Course
<1>2. \A x \in Req : x # r => req'[x] = req[x]
  BY StepCourse DEF TypeInv
<1>3. CASE CreateInvitedUser(r)
  <2>1. req[r].who \in User
    BY <1>1, <1>3 DEF CreateInvitedUser, At, OnCourse
  <2>2. CASE req[r].who \in account
    <3>1. End(r) /\ UNCHANGED <<account, stored, known>>
      BY <1>3, <2>2 DEF CreateInvitedUser
    <3>2. ~ Registers(req'[r])
      BY <1>1, <3>1, Ended DEF Idle, Registers
    <3>3. QED
      BY <1>1, <1>2, <3>1, <3>2 DEF PeopleTyped, Registering, At
  <2>3. CASE req[r].who \notin account
    <3>1. Goto(r, "save") /\ account' = account \union {req[r].who} /\ UNCHANGED <<stored, known>>
      BY <1>3, <2>3 DEF CreateInvitedUser
    <3>2. req'[r].who = req[r].who /\ req'[r].pc = "save"
      BY <1>1, <3>1, Went DEF Steps
    <3>3. PeopleTyped'
      BY <1>1, <2>1, <3>1 DEF PeopleTyped
    <3>4. Registering'
      BY <1>1, <1>2, <2>3, <3>1, <3>2 DEF Registering, At
    <3>5. QED
      BY <3>3, <3>4
  <2>4. QED
    BY <2>2, <2>3
<1>4. CASE SaveUser(r)
  <2>1. Goto(r, "email") /\ stored' = stored \union {req[r].who} /\ UNCHANGED <<account, known>>
        /\ req[r].who \in User /\ Registers(req[r])
    BY <1>1, <1>4 DEF SaveUser, At, OnCourse, Registers
  <2>2. req'[r].who = req[r].who /\ req'[r].op = req[r].op /\ req'[r].pc = "email"
    BY <1>1, <2>1, Went DEF Steps
  <2>3. PeopleTyped'
    BY <1>1, <2>1 DEF PeopleTyped
  <2>4. Registers(req'[r])
    BY <2>1, <2>2 DEF Registers
  <2>5. Registering'
    BY <1>1, <1>2, <2>1, <2>2, <2>4 DEF Registering, At
  <2>6. QED
    BY <2>3, <2>5
<1>5. CASE UpdateFromEndpoint(r)
  <2>1. Registers(req[r]) /\ At(r, "email") /\ req[r].who \in User
        /\ UNCHANGED <<account, stored>> /\ known' = known \union {req[r].who}
    BY <1>1, <1>5 DEF UpdateFromEndpoint, At, OnCourse, Serves, Registers
  <2>2. req[r].who \in stored
    BY <1>1, <2>1 DEF Registering
  <2>3. PeopleTyped'
    BY <1>1, <2>1, <2>2 DEF PeopleTyped
  <2>4. Goto(r, "join")
    BY <1>5 DEF UpdateFromEndpoint
  <2>5. ~ Registers(req'[r])
    BY <1>1, <2>4, Went DEF Registers, Steps
  <2>6. QED
    BY <1>1, <1>2, <2>1, <2>3, <2>5 DEF Registering, At
<1>6. CASE SaveUserFails(r)
  <2>1. Registers(req[r]) /\ End(r)
        /\ account \ {req[r].who} \subseteq account' /\ stored \ {req[r].who} \subseteq stored'
    BY <1>6 DEF SaveUserFails, Registers, At, people
  <2>2. PeopleTyped'
    BY <1>1, <1>6 DEF SaveUserFails, PeopleTyped, people
  <2>3. ~ Registers(req'[r])
    BY <1>1, <2>1, Ended DEF Idle, Registers
  <2>4. \A x \in Req : Registers(req'[x]) => x # r /\ req[x].who # req[r].who
    BY <1>1, <1>2, <2>1, <2>3 DEF Registering
  <2>5. Registering'
    BY <1>1, <1>2, <2>1, <2>4 DEF Registering, At
  <2>6. QED
    BY <2>2, <2>5
<1>7. CASE UNCHANGED people /\ ~ Registers(req'[r])
  BY <1>1, <1>2, <1>7 DEF people, PeopleTyped, Registering, At
<1>8. UNCHANGED people \/ CreateInvitedUser(r) \/ SaveUser(r) \/ UpdateFromEndpoint(r)
      \/ SaveUserFails(r)
  BY DEF Step, people,
       Authorize, ReadMember, FindSection, RequireNotLastLeiter, UpdateMemberRole,
       DeleteClubMember, SetMemberAuthorized, AssignMember, CreateSection, DeleteSection,
       SaveClub, AddFounder, FindClub, DeleteClubInvitations, DeleteClubMembers, DeleteClub,
       InviteUser, CreateInvitation, RevokeInvitation, ReadInvitation, AddUserToClub,
       MarkAccepted, Fail
<1>9. QED
  BY <1>3, <1>4, <1>5, <1>6, <1>7, <1>8, RegistersNext

LEMMA TypeStep ==
    ASSUME ClubConstants, TypeInv, [Next]_vars
    PROVE  TypeInv'
<1>0. RowsTyped /\ InvitationTyped /\ ClubTypedParts /\ PeopleTyped /\ ReqTyped /\ Course
      /\ Registering
  BY DEF TypeInv
<1>1. ASSUME NEW r \in Req, Ask(r)
      PROVE  TypeInv'
  <2>1. UNCHANGED <<club, role, section, leader, authorized, sections, invitation, account,
                    stored, known, founded, joined, rowless, halved>>
        /\ overlapped' \in BOOLEAN
    BY <1>1 DEF Ask, member, people, history
  <2>2. RowsTyped' /\ InvitationTyped' /\ ClubTypedParts' /\ PeopleTyped'
    BY <1>0, <2>1 DEF RowsTyped, InvitationTyped, ClubTypedParts, PeopleTyped
  <2>3. ReqTyped' /\ Course' /\ ~ Registers(req'[r]) /\ \A x \in Req : x # r => req'[x] = req[x]
    BY <1>1, AskTyped DEF Registers
  <2>4. Registering'
    BY <1>0, <2>1, <2>3 DEF Registering, At
  <2>5. QED
    BY <2>2, <2>3, <2>4 DEF TypeInv
<1>2. ASSUME NEW r \in Req, Step(r)
      PROVE  TypeInv'
  <2>1. ReqTyped' /\ Course'
    BY <1>0, <1>2, StepCourse DEF Course
  <2>2. QED
    BY <1>2, <2>1, RowsStep, InvitationStep, ClubStep, PeopleStep DEF TypeInv
<1>3. ASSUME NEW u \in User, SyncUser(u)
      PROVE  TypeInv'
  <2>1. UNCHANGED <<club, role, section, leader, authorized, sections, invitation, account,
                    req, history>>
    BY <1>3 DEF SyncUser, member
  <2>2. PeopleTyped' /\ Registering'
    BY <1>0, <1>3, <2>1 DEF SyncUser, PeopleTyped, Registering, At
  <2>3. RowsTyped' /\ InvitationTyped' /\ ClubTypedParts' /\ ReqTyped' /\ Course'
    BY <1>0, <2>1 DEF RowsTyped, InvitationTyped, ClubTypedParts, ReqTyped, Course, history
  <2>4. QED
    BY <2>2, <2>3 DEF TypeInv
<1>4. CASE UNCHANGED vars
  <2>1. RowsTyped' /\ InvitationTyped' /\ ClubTypedParts' /\ PeopleTyped' /\ ReqTyped' /\ Course'
        /\ Registering'
    BY <1>0, <1>4 DEF vars, member, people, history, RowsTyped, InvitationTyped,
         ClubTypedParts, PeopleTyped, ReqTyped, Course, Registering, At
  <2>2. QED
    BY <2>1 DEF TypeInv
<1>5. QED
  BY <1>1, <1>2, <1>3, <1>4 DEF Next

-----------------------------------------------------------------------------
(* Which statement writes what.                                            *)

LEMMA RoleWriters ==
    ASSUME NEW r \in Req, Step(r)
    PROVE  \/ UpdateMemberRole(r) \/ DeleteClubMember(r) \/ DeleteClubMembers(r)
           \/ AddFounder(r) \/ AddUserToClub(r)
           \/ UNCHANGED <<role, joined, rowless>>
BY DEF Step, member, history,
     Authorize, ReadMember, FindSection, RequireNotLastLeiter, SetMemberAuthorized,
     AssignMember, CreateSection, DeleteSection, SaveClub, FindClub, DeleteClubInvitations,
     DeleteClub, InviteUser, CreateInvitation, RevokeInvitation, ReadInvitation,
     CreateInvitedUser, SaveUser, UpdateFromEndpoint, SaveUserFails, MarkAccepted, Fail

LEMMA InvitationWriters ==
    ASSUME NEW r \in Req, Step(r)
    PROVE  \/ DeleteClubInvitations(r) \/ CreateInvitation(r) \/ RevokeInvitation(r)
           \/ MarkAccepted(r) \/ UNCHANGED invitation
BY DEF Step,
     Authorize, ReadMember, FindSection, RequireNotLastLeiter, UpdateMemberRole,
     DeleteClubMember, SetMemberAuthorized, AssignMember, CreateSection, DeleteSection,
     SaveClub, AddFounder, FindClub, DeleteClubMembers, DeleteClub, InviteUser,
     ReadInvitation, CreateInvitedUser, SaveUser, UpdateFromEndpoint, SaveUserFails,
     AddUserToClub, Fail

LEMMA ClubWriters ==
    ASSUME NEW r \in Req, Step(r)
    PROVE  SaveClub(r) \/ DeleteClub(r) \/ UNCHANGED club
BY DEF Step,
     Authorize, ReadMember, FindSection, RequireNotLastLeiter, UpdateMemberRole,
     DeleteClubMember, SetMemberAuthorized, AssignMember, CreateSection, DeleteSection,
     AddFounder, FindClub, DeleteClubInvitations, DeleteClubMembers, InviteUser,
     CreateInvitation, RevokeInvitation, ReadInvitation, CreateInvitedUser, SaveUser,
     UpdateFromEndpoint, SaveUserFails, AddUserToClub, MarkAccepted, Fail

LEMMA SectionWriters ==
    ASSUME NEW r \in Req, Step(r)
    PROVE  \/ DeleteClubMember(r) \/ DeleteClubMembers(r) \/ AssignMember(r)
           \/ CreateSection(r) \/ DeleteSection(r) \/ DeleteClub(r)
           \/ UNCHANGED <<section, sections>>
BY DEF Step, member,
     Authorize, ReadMember, FindSection, RequireNotLastLeiter, UpdateMemberRole,
     SetMemberAuthorized, SaveClub, AddFounder, FindClub, DeleteClubInvitations, Admit,
     InviteUser, CreateInvitation, RevokeInvitation, ReadInvitation, CreateInvitedUser,
     SaveUser, UpdateFromEndpoint, SaveUserFails, AddUserToClub, MarkAccepted, Fail

\* A request that asks, and the synchronisation of a user, touch no row of the club.
LEMMA OthersWrite ==
    /\ \A r \in Req : Ask(r) =>
         UNCHANGED <<club, role, section, leader, authorized, sections, invitation, account,
                     stored, known, founded, joined, rowless, halved>>
    /\ \A u \in User : SyncUser(u) =>
         UNCHANGED <<club, role, section, leader, authorized, sections, invitation, account,
                     req, founded, joined, rowless, overlapped, halved>>
BY DEF Ask, SyncUser, member, people, history

LEMMA InvAlways == ASSUME ClubConstants PROVE Spec => []TypeInv
<1>1. Init => TypeInv
  BY TypeInit
<1>2. TypeInv /\ [Next]_vars => TypeInv'
  BY TypeStep
<1>3. QED
  BY <1>1, <1>2, PTL DEF Spec

\* Every variable has its type, and every request keeps to the course of its
\* operation (the handlers of controllers/clubs.go and the services they call).
THEOREM ClubTyped ==
    ASSUME ClubConstants
    PROVE  Spec => [](TypeOK /\ Course)
<1>1. TypeInv => TypeOK /\ Course
  BY TypeParts
<1>2. QED
  BY <1>1, InvAlways, PTL
-----------------------------------------------------------------------------
(* Roles and sections.                                                     *)

LEMMA RolesStep ==
    ASSUME ClubConstants, TypeInv, [Next]_vars
    PROVE  KeepsRoles
<1> SUFFICES ASSUME NEW u \in Members, role'[u] # role[u], role'[u] # NoRole
             PROVE  \E r \in Req : req[r].op = "role" /\ req[r].who = u
  BY DEF KeepsRoles
<1>1. RowsTyped /\ u \in User /\ role[u] # NoRole
  BY DEF TypeInv, Members
<1>2. PICK r \in Req : Step(r)
  BY OthersWrite DEF Next, vars, member
<1>3. ~ UNCHANGED role
  OBVIOUS
<1>4. CASE UpdateMemberRole(r)
  BY <1>1, <1>4 DEF UpdateMemberRole, RowsTyped
<1>5. CASE DeleteClubMember(r) \/ DeleteClubMembers(r)
  BY <1>1, <1>5 DEF DeleteClubMember, DeleteClubMembers, Expel
<1>6. CASE AddFounder(r) \/ AddUserToClub(r)
  BY <1>1, <1>6 DEF AddFounder, AddUserToClub, Admit, RowsTyped
<1>7. QED
  BY <1>2, <1>3, <1>4, <1>5, <1>6, RoleWriters

\* Whatever interleaves, a member's role is changed by UpdateMemberRole alone:
\* no invitation, retry or second joining touches it, CreateMemberInClub being
\* an INSERT IGNORE.
THEOREM ClubRoleKept ==
    ASSUME ClubConstants
    PROVE  Spec => RoleKept
<1>1. TypeInv /\ [Next]_vars => [KeepsRoles]_vars
  BY RolesStep
<1>2. QED
  BY <1>1, InvAlways, PTL DEF Spec, RoleKept

\* A member stays one unless it is expelled.
LEMMA MembersStay ==
    ASSUME ClubConstants, TypeInv, NEW r \in Req, Step(r),
           ~ DeleteClubMember(r), ~ DeleteClubMembers(r),
           NEW u \in User, role[u] # NoRole
    PROVE  role'[u] # NoRole
<1>1. RowsTyped /\ OnCourse(req[r])
  BY DEF TypeInv, Course
<1>2. CASE UpdateMemberRole(r)
  <2>1. req[r].role \in Roles
    BY <1>1, <1>2 DEF UpdateMemberRole, At, OnCourse
  <2>2. QED
    BY <1>1, <1>2, <2>1 DEF UpdateMemberRole, RowsTyped, ClubConstants
<1>3. CASE AddFounder(r) \/ AddUserToClub(r)
  BY <1>1, <1>3 DEF AddFounder, AddUserToClub, Admit, RowsTyped
<1>4. QED
  BY <1>2, <1>3, RoleWriters

LEMMA SectionsStep ==
    ASSUME ClubConstants, TypeInv, AssignedToLiveSection, [Next]_vars
    PROVE  AssignedToLiveSection'
<1> SUFFICES ASSUME NEW u \in User, section'[u] # NoSection
             PROVE  role'[u] # NoRole /\ sections'[section'[u]] = "live"
  BY DEF AssignedToLiveSection
<1>0. RowsTyped /\ ClubTypedParts
  BY DEF TypeInv
<1>1. CASE UNCHANGED <<role, section, sections>>
  BY <1>1 DEF AssignedToLiveSection
<1>2. ASSUME NEW r \in Req, Step(r)
      PROVE  role'[u] # NoRole /\ sections'[section'[u]] = "live"
  <2>1. CASE DeleteClubMember(r) \/ DeleteClubMembers(r)
    BY <1>0, <2>1 DEF DeleteClubMember, DeleteClubMembers, Expel, AssignedToLiveSection
  <2>2. CASE AssignMember(r)
    BY <1>0, <2>2 DEF AssignMember, RowsTyped, AssignedToLiveSection
  <2>3. CASE CreateSection(r)
    BY <1>0, <2>3 DEF CreateSection, member, ClubTypedParts, RowsTyped, AssignedToLiveSection
  <2>4. CASE DeleteSection(r)
    BY <1>0, <2>4 DEF DeleteSection, ClubTypedParts, RowsTyped, AssignedToLiveSection
  <2>5. CASE DeleteClub(r)
    BY <1>0, <2>5 DEF DeleteClub, member, Members, RowsTyped, AssignedToLiveSection
  <2>6. CASE UNCHANGED <<section, sections>> /\ ~ DeleteClubMember(r) /\ ~ DeleteClubMembers(r)
    BY <1>2, <2>6, MembersStay DEF AssignedToLiveSection
  <2>7. QED
    BY <1>2, <2>1, <2>2, <2>3, <2>4, <2>5, <2>6, SectionWriters
<1>3. QED
  BY <1>1, <1>2, OthersWrite DEF Next, vars, member

\* However assignments, removals and deletions of sections and of the club
\* interleave, nobody is in a section that is gone: the foreign key refuses it,
\* ON DELETE SET NULL and the deletion of the row take it back.
THEOREM ClubAssignedToLiveSection ==
    ASSUME ClubConstants
    PROVE  Spec => []AssignedToLiveSection
<1>1. Init => AssignedToLiveSection
  BY DEF Init, AssignedToLiveSection
<1>2. TypeInv /\ AssignedToLiveSection /\ [Next]_vars => AssignedToLiveSection'
  BY SectionsStep
<1>3. QED
  BY <1>1, <1>2, InvAlways, PTL DEF Spec
-----------------------------------------------------------------------------
(* Invitations.                                                            *)

InvitationInv == Outstanding /\ Addressed /\ LetIn /\ AcceptedHasJoined

\* An invitation that was written keeps its addressee.
LEMMA TokensKept ==
    ASSUME TypeInv, NEW r \in Req, Step(r), NEW k \in Token, invitation[k].state # "unused"
    PROVE  invitation'[k].state # "unused" /\ invitation'[k].to = invitation[k].to
<1>1. InvitationTyped
  BY DEF TypeInv
<1>2. CASE DeleteClubInvitations(r)
  BY <1>1, <1>2 DEF DeleteClubInvitations, InvitationTyped
<1>3. CASE CreateInvitation(r)
  BY <1>1, <1>3 DEF CreateInvitation, InvitationTyped
<1>4. CASE RevokeInvitation(r)
  BY <1>1, <1>4 DEF RevokeInvitation, InvitationTyped
<1>5. CASE MarkAccepted(r)
  BY <1>1, <1>5 DEF MarkAccepted, InvitationTyped
<1>6. QED
  BY <1>2, <1>3, <1>4, <1>5, InvitationWriters

\* The histories only grow, and a club that has gone does not come back.
LEMMA HistoryGrows ==
    ASSUME NEW r \in Req, Step(r)
    PROVE  /\ joined \subseteq joined' /\ rowless \subseteq rowless'
           /\ club = "gone" => club' = "gone"
<1>1. joined \subseteq joined' /\ rowless \subseteq rowless'
  BY RoleWriters DEF UpdateMemberRole, DeleteClubMember, DeleteClubMembers, AddFounder,
       AddUserToClub, Admit, history
<1>2. club = "gone" => club' = "gone"
  BY ClubWriters DEF SaveClub, DeleteClub
<1>3. QED
  BY <1>1, <1>2

LEMMA OutstandingStep ==
    ASSUME TypeInv, Outstanding, NEW r \in Req, Step(r)
    PROVE  Outstanding'
<1>1. InvitationTyped /\ ClubTypedParts /\ OnCourse(req[r])
  BY DEF TypeInv, Course
<1>2. CASE UNCHANGED invitation
  <2>1. CASE SaveClub(r)
    BY <1>2, <2>1 DEF SaveClub, Outstanding
  <2>2. CASE DeleteClub(r)
    BY <1>2, <2>2 DEF DeleteClub, Outstanding
  <2>3. CASE UNCHANGED club
    BY <1>2, <2>3 DEF Outstanding
  <2>4. QED
    BY <2>1, <2>2, <2>3, ClubWriters
<1>3. CASE DeleteClubInvitations(r)
  BY <1>1, <1>3 DEF DeleteClubInvitations, InvitationTyped, Outstanding
<1>4. CASE CreateInvitation(r)
  BY <1>1, <1>4 DEF CreateInvitation, InvitationTyped, Outstanding
<1>5. CASE RevokeInvitation(r)
  BY <1>1, <1>5 DEF RevokeInvitation, InvitationTyped, Outstanding
<1>6. CASE MarkAccepted(r)
  BY <1>1, <1>6 DEF MarkAccepted, InvitationTyped, Outstanding
<1>7. QED
  BY <1>2, <1>3, <1>4, <1>5, <1>6, InvitationWriters

\* A request comes to follow an invitation by reading it, and goes on from there.
LEMMA FollowsNext ==
    ASSUME ClubConstants, TypeInv, NEW r \in Req, Step(r), Follows(req'[r])
    PROVE  /\ req'[r].token = req[r].token /\ req'[r].who = req[r].who
           /\ req[r].token \in Token
           /\ Follows(req[r]) \/ Usable(req[r].token, req[r].who)
<1>1. ReqTyped /\ OnCourse(req[r]) /\ ReqTyped' /\ OnCourse(req'[r])
  BY StepCourse DEF TypeInv, Course
<1>2. ~ End(r)
  BY <1>1, Ended DEF Idle, Follows
<1>3. PICK pc \in Steps : Goto(r, pc)
  BY <1>2, StepGoes
<1>4. /\ req'[r].token = req[r].token /\ req'[r].who = req[r].who /\ req'[r].op = req[r].op
      /\ req'[r].pc = pc
  BY <1>1, <1>3, Went
<1>5. req[r].op \in {"accept", "complete"} /\ req[r].token \in Token
  BY <1>1, <1>4 DEF Follows, OnCourse
<1>6. CASE Follows(req[r])
  BY <1>4, <1>5, <1>6
<1>7. CASE ~ Follows(req[r])
  <2>1. req[r].pc \in {"idle", "read"}
    BY <1>1, <1>5, <1>7 DEF Follows, OnCourse, Serves, ReqTyped, Request, Steps
  <2>2. ReadInvitation(r)
    BY <1>1, <1>2, <2>1 DEF Step, At,
       Authorize, ReadMember, FindSection, RequireNotLastLeiter, UpdateMemberRole,
       DeleteClubMember, SetMemberAuthorized, AssignMember, CreateSection, DeleteSection,
       SaveClub, AddFounder, FindClub, DeleteClubInvitations, DeleteClubMembers, DeleteClub,
       InviteUser, CreateInvitation, RevokeInvitation, CreateInvitedUser, SaveUser,
       UpdateFromEndpoint, SaveUserFails, AddUserToClub, MarkAccepted, Fail
  <2>3. QED
    BY <1>2, <1>4, <1>5, <2>2 DEF ReadInvitation
<1>8. QED
  BY <1>6, <1>7

LEMMA AddressedStep ==
    ASSUME ClubConstants, TypeInv, Addressed, NEW r \in Req, Step(r)
    PROVE  Addressed'
<1> SUFFICES ASSUME NEW x \in Req, Follows(req'[x])
             PROVE  /\ invitation'[req'[x].token].state # "unused"
                    /\ invitation'[req'[x].token].to = req'[x].who
  BY DEF Addressed
<1>1. CASE x = r
  BY <1>1, FollowsNext, TokensKept DEF Addressed, Usable
<1>2. CASE x # r
  <2>1. req'[x] = req[x] /\ req[x].token \in Token
    BY <1>2, StepCourse DEF TypeInv, Course, OnCourse, Follows
  <2>2. QED
    BY <2>1, TokensKept DEF Addressed
<1>3. QED
  BY <1>1, <1>2

LEMMA LetInStep ==
    ASSUME ClubConstants, TypeInv, Outstanding, Addressed, LetIn, NEW r \in Req, Step(r)
    PROVE  LetIn'
<1>1. RowsTyped /\ ReqTyped /\ OnCourse(req[r]) /\ ClubTypedParts
  BY DEF TypeInv, Course
<1>2. Members' \subseteq joined'
  <2>1. SUFFICES ASSUME NEW u \in User, role'[u] # NoRole, role[u] = NoRole
                 PROVE  u \in joined'
    BY HistoryGrows DEF Members, LetIn
  <2>2. CASE UpdateMemberRole(r)
    BY <1>1, <2>1, <2>2 DEF UpdateMemberRole, RowsTyped
  <2>3. CASE DeleteClubMember(r) \/ DeleteClubMembers(r)
    BY <2>1, <2>3 DEF DeleteClubMember, DeleteClubMembers, Expel
  <2>4. CASE AddFounder(r) \/ AddUserToClub(r)
    BY <1>1, <2>1, <2>4 DEF AddFounder, AddUserToClub, Admit, RowsTyped
  <2>5. QED
    BY <2>1, <2>2, <2>3, <2>4, RoleWriters
<1>3. ASSUME NEW x \in Req, req'[x].pc = "mark"
      PROVE  req'[x].who \in joined' \union rowless' \/ club' = "gone"
  <2>1. CASE x # r
    BY <1>3, <2>1, StepCourse, HistoryGrows DEF LetIn, At, TypeInv
  <2>2. CASE x = r
    <3>1. AddUserToClub(r)
      <4>1. ~ End(r)
        BY <1>1, <1>3, <2>2, Ended DEF Idle
      <4>2. ASSUME NEW pc \in Steps, Goto(r, pc)
            PROVE  pc = "mark"
        BY <1>1, <1>3, <2>2, <4>2, Went
      <4>3. QED
        BY <4>1, <4>2 DEF Step, Steps,
           Authorize, ReadMember, FindSection, RequireNotLastLeiter, UpdateMemberRole,
           DeleteClubMember, SetMemberAuthorized, AssignMember, CreateSection, DeleteSection,
           SaveClub, AddFounder, FindClub, DeleteClubInvitations, DeleteClubMembers,
           DeleteClub, InviteUser, CreateInvitation, RevokeInvitation, ReadInvitation,
           CreateInvitedUser, SaveUser, UpdateFromEndpoint, SaveUserFails, MarkAccepted, Fail
    <3>2. At(r, "join") /\ req[r].who \in User
      BY <1>1, <3>1 DEF AddUserToClub, At, OnCourse
    <3>3. Follows(req'[r])
      BY <1>3, <2>2, StepCourse DEF Follows, OnCourse, Serves, TypeInv
    <3>4. req'[r].who = req[r].who /\ Follows(req[r]) /\ req[r].token \in Token
      <4>1. Goto(r, "mark")
        BY <1>1, <1>3, <2>2, <3>1, Ended DEF AddUserToClub, Idle
      <4>2. req'[r].op = req[r].op
        BY <1>1, <4>1, Went DEF Steps
      <4>3. QED
        BY <3>2, <3>3, <4>2, FollowsNext DEF Follows, At
    <3>5. club # "none"
      BY <3>4 DEF Addressed, Outstanding
    <3>6. UNCHANGED club /\ Admit(req[r].who, "MITGLIED")
      BY <3>1 DEF AddUserToClub
    <3>7. CASE club = "live"
      BY <1>1, <2>2, <3>2, <3>4, <3>6, <3>7 DEF Admit, LetIn, Members
    <3>8. QED
      BY <1>1, <3>5, <3>6, <3>7 DEF ClubTypedParts
  <2>3. QED
    BY <2>1, <2>2
<1>4. QED
  BY <1>2, <1>3 DEF LetIn, At

LEMMA AcceptedStep ==
    ASSUME TypeInv, Outstanding, Addressed, LetIn, AcceptedHasJoined, NEW r \in Req, Step(r)
    PROVE  AcceptedHasJoined'
<1> SUFFICES ASSUME NEW k \in Token, invitation'[k].state = "accepted"
             PROVE  invitation'[k].to \in joined' \union rowless'
  BY DEF AcceptedHasJoined
<1>1. InvitationTyped /\ OnCourse(req[r]) /\ ClubTypedParts
  BY DEF TypeInv, Course
<1>2. CASE invitation[k].state = "accepted"
  BY <1>2, TokensKept, HistoryGrows DEF AcceptedHasJoined
<1>3. CASE invitation[k].state # "accepted"
  <2>1. ~ DeleteClubInvitations(r) /\ ~ CreateInvitation(r) /\ ~ RevokeInvitation(r)
    BY <1>1, <1>3 DEF DeleteClubInvitations, CreateInvitation, RevokeInvitation, InvitationTyped
  <2>2. MarkAccepted(r)
    BY <1>3, <2>1, InvitationWriters
  <2>3. req[r].token = k /\ invitation[k].state = "open"
    BY <1>1, <1>3, <2>2 DEF MarkAccepted, InvitationTyped
  <2>4. At(r, "mark") /\ Follows(req[r])
    BY <1>1, <2>2 DEF MarkAccepted, Follows, At, OnCourse, Serves
  <2>5. club = "live"
    BY <2>3 DEF Outstanding
  <2>6. invitation[k].to \in joined \union rowless
    BY <2>3, <2>4, <2>5 DEF Addressed, LetIn
  <2>7. QED
    BY <2>3, <2>6, TokensKept, HistoryGrows
<1>4. QED
  BY <1>2, <1>3

LEMMA InvitationInit == ClubConstants /\ Init => InvitationInv
BY DEF Init, InvitationInv, Outstanding, Addressed, LetIn, AcceptedHasJoined, Idle, Follows,
     Members, At

LEMMA InvitationInvStep ==
    ASSUME ClubConstants, TypeInv, InvitationInv, [Next]_vars
    PROVE  InvitationInv'
<1>1. ASSUME NEW r \in Req, Step(r)
      PROVE  InvitationInv'
  BY <1>1, OutstandingStep, AddressedStep, LetInStep, AcceptedStep DEF InvitationInv
<1>2. ASSUME NEW r \in Req, Ask(r)
      PROVE  InvitationInv'
  <2>1. UNCHANGED <<club, role, invitation, joined, rowless>>
    BY <1>2, OthersWrite
  <2>2. /\ req'[r].pc \in {"club", "read", "authorize"}
        /\ \A x \in Req : x # r => req'[x] = req[x]
    BY <1>2, AskTyped
  <2>3. \A x \in Req : Follows(req'[x]) \/ req'[x].pc = "mark" => req'[x] = req[x]
    BY <2>2 DEF Follows
  <2>4. QED
    BY <2>1, <2>3 DEF InvitationInv, Outstanding, Addressed, LetIn, AcceptedHasJoined, At, Members
<1>3. CASE UNCHANGED <<club, role, invitation, joined, rowless, req>>
  BY <1>3 DEF InvitationInv, Outstanding, Addressed, LetIn, AcceptedHasJoined, At, Members
<1>4. QED
  BY <1>1, <1>2, <1>3, OthersWrite DEF Next, vars, member, history

\* An invitation is marked accepted only after its addressee was let in, or was
\* passed over for want of a row, whoever else revokes it, accepts it or deletes
\* the club meanwhile (AcceptInvitation, CompleteInvitation).
THEOREM ClubAcceptedHasJoined ==
    ASSUME ClubConstants
    PROVE  Spec => []AcceptedHasJoined
<1>1. Init => InvitationInv
  BY InvitationInit
<1>2. TypeInv /\ InvitationInv /\ [Next]_vars => InvitationInv'
  BY InvitationInvStep
<1>3. InvitationInv => AcceptedHasJoined
  BY DEF InvitationInv
<1>4. QED
  BY <1>1, <1>2, <1>3, InvAlways, PTL DEF Spec
-----------------------------------------------------------------------------
(* Before the club has its founder.                                        *)

\* Until its founder is LEITER a club has neither members nor invitations, no
\* request gets past asking, and until the club is there nobody has an account
\* but the users known at the start.
Begins(q) == q.pc \in {"idle", "authorize", "founder", "read"} \/ (q.pc = "club" /\ q.op = "create")

Unfounded ==
    /\ club = "none" => ~ founded
    /\ ~ founded => /\ Members = {} /\ account \subseteq stored
                    /\ \A k \in Token : invitation[k].state = "unused"
                    /\ \A r \in Req : Begins(req[r])
                    /\ \A r \in Req : At(r, "club") => req[r].by \in account
    /\ \A r \in Req : At(r, "founder") => club = "live" /\ ~ founded /\ req[r].by \in account
    /\ \A r, x \in Req : At(r, "founder") /\ At(x, "founder") => r = x

LEMMA UnfoundedInit == ClubConstants /\ Init => Unfounded
BY DEF Init, Unfounded, Idle, Begins, Members, At

\* Before that a request may only found the club; the others are turned away.
LEMMA BeginsNext ==
    ASSUME ClubConstants, TypeInv, Unfounded, ~ founded, NEW r \in Req, Step(r)
    PROVE  SaveClub(r) \/ AddFounder(r) \/ End(r)
<1>1. RowsTyped /\ OnCourse(req[r]) /\ Begins(req[r]) /\ Members = {}
  BY DEF TypeInv, Course, Unfounded
<1>2. CASE Authorize(r)
  <2>1. role[req[r].by] = NoRole
    BY <1>1, <1>2 DEF Authorize, At, OnCourse, Members
  <2>2. ~ Permitted(req[r])
    BY <2>1 DEF Permitted, ClubConstants, Managers, Inviters, Roles
  <2>3. QED
    BY <1>2, <2>2 DEF Authorize
<1>3. CASE ReadInvitation(r)
  <2>1. req[r].token \in Token
    BY <1>1, <1>3 DEF ReadInvitation, At, OnCourse, Serves
  <2>2. ~ Usable(req[r].token, req[r].who)
    BY <2>1 DEF Usable, Unfounded
  <2>3. QED
    BY <1>3, <2>2 DEF ReadInvitation
<1>4. ~ Authorize(r) /\ ~ ReadInvitation(r) => SaveClub(r) \/ AddFounder(r) \/ Fail(r)
  BY <1>1 DEF Step, Begins, At,
     ReadMember, FindSection, RequireNotLastLeiter, UpdateMemberRole,
     DeleteClubMember, SetMemberAuthorized, AssignMember, CreateSection, DeleteSection,
     FindClub, DeleteClubInvitations, DeleteClubMembers, DeleteClub,
     InviteUser, CreateInvitation, RevokeInvitation, CreateInvitedUser,
     SaveUser, UpdateFromEndpoint, SaveUserFails, AddUserToClub, MarkAccepted
<1>5. QED
  BY <1>2, <1>3, <1>4 DEF Fail

LEMMA FoundedWriters ==
    ASSUME NEW r \in Req, Step(r)
    PROVE  AddFounder(r) \/ UNCHANGED founded
BY DEF Step, history,
     Authorize, ReadMember, FindSection, RequireNotLastLeiter, UpdateMemberRole,
     DeleteClubMember, SetMemberAuthorized, AssignMember, CreateSection, DeleteSection,
     SaveClub, FindClub, DeleteClubInvitations, DeleteClubMembers, DeleteClub,
     InviteUser, CreateInvitation, RevokeInvitation, ReadInvitation, CreateInvitedUser,
     SaveUser, UpdateFromEndpoint, SaveUserFails, AddUserToClub, MarkAccepted, Fail

\* A request that ends before its first statement that writes leaves all as it was.
LEMMA EndsEarly ==
    ASSUME TypeInv, NEW r \in Req, Step(r), Begins(req[r]), End(r), ~ AddFounder(r)
    PROVE  UNCHANGED <<club, role, invitation, account, stored>>
<1>1. ~ Goto(r, "founder")
  BY Ended, Went DEF TypeInv, Idle, Steps
<1>2. QED
  BY <1>1 DEF Step, Begins, At, member, people,
     Authorize, ReadMember, FindSection, RequireNotLastLeiter, UpdateMemberRole,
     DeleteClubMember, SetMemberAuthorized, AssignMember, CreateSection, DeleteSection,
     SaveClub, FindClub, DeleteClubInvitations, DeleteClubMembers, DeleteClub,
     InviteUser, CreateInvitation, RevokeInvitation, ReadInvitation, CreateInvitedUser,
     SaveUser, UpdateFromEndpoint, SaveUserFails, AddUserToClub, MarkAccepted, Fail

LEMMA UnfoundedStep ==
    ASSUME ClubConstants, TypeInv, Unfounded, NEW r \in Req, Step(r)
    PROVE  Unfounded'
<1>1. ReqTyped /\ OnCourse(req[r])
      /\ \A x \in Req : x # r => req'[x] = req[x]
  BY StepCourse DEF TypeInv, Course
<1>2. CASE AddFounder(r)
  <2>1. founded' /\ UNCHANGED club /\ End(r) /\ At(r, "founder")
    BY <1>2 DEF AddFounder
  <2>2. club' # "none"
    BY <2>1 DEF Unfounded
  <2>3. req'[r] = Idle
    BY <1>1, <2>1, Ended
  <2>4. \A x \in Req : req'[x].pc # "founder"
    BY <1>1, <2>1, <2>3 DEF Unfounded, At, Idle
  <2>5. QED
    BY <2>1, <2>2, <2>4 DEF Unfounded, At
<1>3. CASE founded /\ ~ AddFounder(r)
  <2>1. founded' /\ club # "none" /\ \A x \in Req : req[x].pc # "founder"
    BY <1>3, FoundedWriters DEF Unfounded, At
  <2>2. club' # "none"
    BY <2>1, ClubWriters DEF SaveClub, DeleteClub
  <2>3. req'[r].pc # "founder"
    <3>1. SaveClub(r) => End(r)
      BY <2>1 DEF SaveClub
    <3>2. End(r) \/ \E pc \in Steps \ {"founder"} : Goto(r, pc)
      BY <3>1 DEF Step, Steps,
         Authorize, ReadMember, FindSection, RequireNotLastLeiter, UpdateMemberRole,
         DeleteClubMember, SetMemberAuthorized, AssignMember, CreateSection, DeleteSection,
         SaveClub, AddFounder, FindClub, DeleteClubInvitations, DeleteClubMembers, DeleteClub,
         InviteUser, CreateInvitation, RevokeInvitation, ReadInvitation, CreateInvitedUser,
         SaveUser, UpdateFromEndpoint, SaveUserFails, AddUserToClub, MarkAccepted, Fail
    <3>3. QED
      BY <1>1, <3>2, Went, Ended DEF Idle
  <2>4. QED
    BY <1>1, <2>1, <2>2, <2>3 DEF Unfounded, At
<1>4. CASE ~ founded /\ SaveClub(r) /\ ~ End(r)
  <2>1. club = "none" /\ club' = "live" /\ Goto(r, "founder") /\ req[r].op = "create"
    BY <1>4 DEF SaveClub
  <2>2. UNCHANGED <<role, invitation, account, stored, founded>>
    BY <1>4 DEF SaveClub, member, people, history
  <2>3. req'[r].pc = "founder" /\ req'[r].by = req[r].by
    BY <1>1, <2>1, Went DEF Steps
  <2>4. \A x \in Req : req[x].pc # "founder"
    BY <2>1 DEF Unfounded, At
  <2>5. req[r].by \in account
    BY <2>1, <1>4 DEF Unfounded, SaveClub, At
  <2>6. \A x \in Req : Begins(req'[x])
    BY <1>1, <1>4, <2>3 DEF Unfounded, Begins
  <2>7. Members' = {}
    BY <1>4, <2>2 DEF Unfounded, Members
  <2>8. QED
    BY <1>1, <1>4, <2>1, <2>2, <2>3, <2>4, <2>5, <2>6, <2>7 DEF Unfounded, At
<1>5. CASE ~ founded /\ End(r) /\ ~ AddFounder(r)
  <2>1. UNCHANGED <<club, role, invitation, account, stored, founded>>
    BY <1>5, EndsEarly, FoundedWriters DEF Unfounded
  <2>2. req'[r] = Idle
    BY <1>1, <1>5, Ended
  <2>3. \A x \in Req : Begins(req'[x])
    BY <1>1, <1>5, <2>2 DEF Unfounded, Begins, Idle
  <2>4. req'[r].pc # "founder" /\ req'[r].pc # "club"
    BY <2>2 DEF Idle
  <2>5. Members' = {}
    BY <1>5, <2>1 DEF Unfounded, Members
  <2>6. QED
    BY <1>1, <1>5, <2>1, <2>3, <2>4, <2>5 DEF Unfounded, At
<1>6. QED
  BY <1>2, <1>3, <1>4, <1>5, BeginsNext

LEMMA UnfoundedNext ==
    ASSUME ClubConstants, TypeInv, Unfounded, [Next]_vars
    PROVE  Unfounded'
<1>1. ASSUME NEW r \in Req, Step(r)
      PROVE  Unfounded'
  BY <1>1, UnfoundedStep
<1>2. ASSUME NEW r \in Req, Ask(r)
      PROVE  Unfounded'
  <2>1. UNCHANGED <<club, role, invitation, account, stored, founded>>
    BY <1>2, OthersWrite
  <2>2. /\ req'[r].pc \in {"club", "read", "authorize"}
        /\ req'[r].pc = "club" => req'[r].op = "create" /\ req'[r].by \in account
        /\ \A x \in Req : x # r => req'[x] = req[x]
    BY <1>2, AskTyped
  <2>3. Begins(req'[r])
    BY <2>2 DEF Begins
  <2>4. \A x \in Req : req'[x].pc = "founder" => req'[x] = req[x]
    BY <2>2
  <2>5. Members' = Members
    BY <2>1 DEF Members
  <2>6. ~ founded' => /\ \A x \in Req : Begins(req'[x])
                      /\ \A x \in Req : req'[x].pc = "club" => req'[x].by \in account
    BY <2>1, <2>2, <2>3 DEF Unfounded, At
  <2>7. QED
    BY <2>1, <2>4, <2>5, <2>6 DEF Unfounded, At
<1>3. ASSUME NEW u \in User, SyncUser(u)
      PROVE  Unfounded'
  BY <1>3 DEF SyncUser, member, history, Unfounded, At, Members
<1>4. CASE UNCHANGED vars
  BY <1>4 DEF vars, member, people, history, Unfounded, At, Members
<1>5. QED
  BY <1>1, <1>2, <1>3, <1>4 DEF Next
-----------------------------------------------------------------------------
(***************************************************************************)
(* What holds while requests have come one at a time.  That it does not    *)
(* hold of two at once is what the run club_leiter shows.                  *)
(***************************************************************************)

\* Until two have overlapped, one request at most is under way.
OneAtATime ==
    ~ overlapped => \A r, x \in Req : ~ At(r, "idle") /\ ~ At(x, "idle") => r = x

\* No other request is under way, nor does one begin.
Alone(r) == \A x \in Req : x # r => req[x].pc = "idle" /\ req'[x].pc = "idle"

\* A deletion on its way has emptied what it has passed.
Emptied ==
    \A r \in Req : req[r].op = "delete" =>
      /\ At(r, "participants") \/ At(r, "club") =>
           \A k \in Token : invitation[k].state \notin {"open", "accepted"}
      /\ At(r, "club") => Members = {}

\* The LEITER that is about to go or to step down is not the last.
StepsDown(q) == q.op \in {"remove", "leave"} \/ (q.op = "role" /\ q.role # "LEITER")

Counted ==
    \A r \in Req : At(r, "write") /\ StepsDown(req[r]) /\ role[req[r].who] = "LEITER" =>
      Leiters \ {req[r].who} # {}

\* A club without a LEITER is being deleted, unless a deletion has stopped half way.
Led ==
    club = "live" /\ founded /\ ~ halved =>
      Leiters # {} \/ \E r \in Req : At(r, "club") /\ req[r].op = "delete"

\* Whoever makes a LEITER is one.
Empowered ==
    \A r \in Req :
      /\ req[r].op = "role" /\ req[r].role = "LEITER"
      /\ req[r].pc \in {"member", "count", "write"}
      => role[req[r].by] = "LEITER"

\* The invitation that is followed is still open.
StillOpen == \A r \in Req : Follows(req[r]) => invitation[req[r].token].state = "open"

SerialInv ==
    /\ OneAtATime
    /\ ~ overlapped => Emptied /\ Counted /\ Led /\ Empowered /\ StillOpen

\* A request is under way when it takes a step, and no step begins another.
LEMMA StepUnderWay ==
    ASSUME NEW r \in Req, Step(r)
    PROVE  ~ At(r, "idle") /\ overlapped' = overlapped
BY DEF Step, At, history,
     Authorize, ReadMember, FindSection, RequireNotLastLeiter, UpdateMemberRole,
     DeleteClubMember, SetMemberAuthorized, AssignMember, CreateSection, DeleteSection,
     SaveClub, AddFounder, FindClub, DeleteClubInvitations, DeleteClubMembers, DeleteClub,
     InviteUser, CreateInvitation, RevokeInvitation, ReadInvitation, CreateInvitedUser,
     SaveUser, UpdateFromEndpoint, SaveUserFails, AddUserToClub, MarkAccepted, Fail

LEMMA StepAlone ==
    ASSUME ClubConstants, TypeInv, OneAtATime, NEW r \in Req, Step(r)
    PROVE  OneAtATime' /\ (~ overlapped => Alone(r))
<1>1. \A x \in Req : x # r => req'[x] = req[x]
  BY StepCourse DEF TypeInv
<1>2. ~ At(r, "idle") /\ overlapped' = overlapped
  BY StepUnderWay
<1>3. ~ overlapped => \A x \in Req : x # r => req[x].pc = "idle"
  BY <1>2 DEF OneAtATime, At
<1>4. QED
  BY <1>1, <1>2, <1>3 DEF OneAtATime, Alone, At

\* Nothing is under way when a request begins, if none has overlapped after it.
LEMMA AskAlone ==
    ASSUME ClubConstants, TypeInv, NEW r \in Req, Ask(r), ~ overlapped'
    PROVE  /\ ~ overlapped /\ Alone(r)
           /\ req[r].pc = "idle" /\ req'[r].pc \in {"club", "read", "authorize"}
           /\ req'[r].pc = "club" => req'[r].op = "create"
<1>1. ~ overlapped /\ \A x \in Req : x # r => req[x].pc = "idle"
  BY DEF Ask, At
<1>2. QED
  BY <1>1, AskTyped DEF Alone

\* The members that are LEITER, when nobody's role but that of u changes.
LEMMA LeitersBut ==
    ASSUME RowsTyped, NEW u \in User, NEW ro, role' = [role EXCEPT ![u] = ro]
    PROVE  /\ ro = "LEITER" => Leiters' # {}
           /\ Leiters \ {u} # {} => Leiters' # {}
BY DEF RowsTyped, Leiters

\* More than one LEITER is another LEITER than u.
LEMMA NotTheLast ==
    ASSUME NEW u, ~ IsLastLeiter
    PROVE  Leiters \ {u} # {}
<1>1. ASSUME Leiters \ {u} = {}
      PROVE  FALSE
  <2>1. Leiters = {} \/ Leiters = {u}
    BY <1>1
  <2>2. Cardinality(Leiters) \in {0, 1}
    BY <2>1, FS_EmptySet, FS_Singleton
  <2>3. QED
    BY <2>2 DEF IsLastLeiter
<1>2. QED
  BY <1>1

LEMMA EmptiedStep ==
    ASSUME ClubConstants, TypeInv, Emptied, NEW r \in Req, Step(r), Alone(r)
    PROVE  Emptied'
<1> SUFFICES ASSUME req'[r].op = "delete"
             PROVE  /\ req'[r].pc \in {"participants", "club"} =>
                         \A k \in Token : invitation'[k].state \notin {"open", "accepted"}
                    /\ req'[r].pc = "club" => Members' = {}
  BY DEF Alone, Emptied, At
<1>1. ReqTyped /\ OnCourse(req[r]) /\ InvitationTyped
  BY DEF TypeInv, Course
<1>2. ~ End(r)
  BY <1>1, Ended DEF Idle
<1>3. PICK pc \in Steps : Goto(r, pc)
  BY <1>2, StepGoes
<1>4. req'[r].pc = pc /\ req[r].op = "delete"
  BY <1>1, <1>3, Went
<1>5. CASE DeleteClubInvitations(r)
  <2>1. pc = "participants"
    BY <1>1, <1>3, <1>4, <1>5, Went DEF DeleteClubInvitations, Steps
  <2>2. QED
    BY <1>1, <1>4, <1>5, <2>1 DEF Emptied, DeleteClubInvitations, InvitationTyped
<1>6. CASE DeleteClubMembers(r)
  BY <1>4, <1>6 DEF Emptied, DeleteClubMembers, Expel, Members, At
<1>7. CASE ~ DeleteClubInvitations(r) /\ ~ DeleteClubMembers(r)
  <2>1. Authorize(r) \/ FindClub(r)
    BY <1>1, <1>2, <1>4, <1>7 DEF Step, OnCourse, Serves, At,
       ReadMember, FindSection, RequireNotLastLeiter, UpdateMemberRole,
       DeleteClubMember, SetMemberAuthorized, AssignMember, CreateSection, DeleteSection,
       SaveClub, AddFounder, DeleteClub, InviteUser, CreateInvitation, RevokeInvitation,
       ReadInvitation, CreateInvitedUser, SaveUser, UpdateFromEndpoint, SaveUserFails,
       AddUserToClub, MarkAccepted, Fail
  <2>2. Goto(r, "find") \/ Goto(r, "invitations")
    BY <1>2, <1>4, <2>1 DEF Authorize, FindClub
  <2>3. pc \in {"find", "invitations"}
    BY <1>1, <1>4, <2>2, Went DEF Steps
  <2>4. QED
    BY <1>4, <2>3 DEF Emptied
<1>8. QED
  BY <1>5, <1>6, <1>7

\* Whatever comes to its last statement and takes a LEITER away has counted.
LEMMA CountedStep ==
    ASSUME ClubConstants, TypeInv, NEW r \in Req, Step(r), Alone(r)
    PROVE  Counted'
<1> SUFFICES ASSUME req'[r].pc = "write", StepsDown(req'[r]), role'[req'[r].who] = "LEITER"
             PROVE  Leiters' \ {req'[r].who} # {}
  BY DEF Alone, Counted, At
<1>1. ReqTyped /\ OnCourse(req[r])
  BY DEF TypeInv, Course
<1>2. ~ End(r)
  BY <1>1, Ended DEF Idle
<1>3. PICK pc \in Steps : Goto(r, pc)
  BY <1>2, StepGoes
<1>4. /\ pc = "write" /\ Goto(r, "write") /\ req'[r].who = req[r].who
      /\ StepsDown(req[r])
  BY <1>1, <1>3, Went DEF StepsDown
<1>5. \A p \in Steps : Goto(r, p) => p = "write"
  BY <1>1, Went
<1>6. Authorize(r) \/ ReadMember(r) \/ FindSection(r) \/ RequireNotLastLeiter(r)
  BY <1>2, <1>5 DEF Step, Steps, UpdateMemberRole, DeleteClubMember, SetMemberAuthorized,
     AssignMember, CreateSection, DeleteSection, SaveClub, AddFounder, FindClub,
     DeleteClubInvitations, DeleteClubMembers, DeleteClub, InviteUser, CreateInvitation,
     RevokeInvitation, ReadInvitation, CreateInvitedUser, SaveUser, UpdateFromEndpoint,
     SaveUserFails, AddUserToClub, MarkAccepted, Fail
<1>7. UNCHANGED role /\ Leiters' = Leiters
  BY <1>6 DEF Authorize, ReadMember, FindSection, RequireNotLastLeiter, member, Leiters
<1>8. CASE Authorize(r)
  <2>1. req[r].op = "leave"
    BY <1>1, <1>2, <1>4, <1>5, <1>8 DEF Authorize, Steps, StepsDown
  <2>2. role[req[r].by] # "LEITER"
    BY <1>2, <1>5, <1>8, <2>1 DEF Authorize, Steps
  <2>3. QED
    BY <1>1, <1>4, <1>7, <2>1, <2>2 DEF OnCourse
<1>9. CASE ReadMember(r)
  <2>1. role[req[r].who] # "LEITER"
    BY <1>1, <1>2, <1>4, <1>5, <1>9 DEF ReadMember, Steps, StepsDown, OnCourse, Serves, At
  <2>2. QED
    BY <1>4, <1>7, <2>1
<1>10. CASE FindSection(r)
  BY <1>1, <1>4, <1>10 DEF FindSection, At, OnCourse, Serves, StepsDown
<1>11. CASE RequireNotLastLeiter(r)
  <2>1. ~ IsLastLeiter
    BY <1>2, <1>11 DEF RequireNotLastLeiter
  <2>2. QED
    BY <1>4, <1>7, <2>1, NotTheLast
<1>12. QED
  BY <1>6, <1>8, <1>9, <1>10, <1>11

\* A deletion that has stopped half way stays in the history.
LEMMA HalvedStays ==
    ASSUME NEW r \in Req, Step(r), ~ halved'
    PROVE  ~ halved
BY DEF Step, history,
     Authorize, ReadMember, FindSection, RequireNotLastLeiter, UpdateMemberRole,
     DeleteClubMember, SetMemberAuthorized, AssignMember, CreateSection, DeleteSection,
     SaveClub, AddFounder, FindClub, DeleteClubInvitations, DeleteClubMembers, DeleteClub,
     InviteUser, CreateInvitation, RevokeInvitation, ReadInvitation, CreateInvitedUser,
     SaveUser, UpdateFromEndpoint, SaveUserFails, AddUserToClub, MarkAccepted, Fail

LEMMA LedStep ==
    ASSUME ClubConstants, TypeInv, Unfounded, Emptied, Counted, Led,
           NEW r \in Req, Step(r), Alone(r)
    PROVE  Led'
<1> SUFFICES ASSUME club' = "live", founded', ~ halved', Leiters' = {}
             PROVE  req'[r].pc = "club" /\ req'[r].op = "delete"
  BY DEF Led, At
<1>1. RowsTyped /\ ReqTyped /\ OnCourse(req[r]) /\ ClubTypedParts
  BY DEF TypeInv, Course
<1>2. CASE AddFounder(r)
  <2>1. /\ At(r, "founder") /\ req[r].by \in User /\ club = "live" /\ ~ founded
        /\ req[r].by \in account
    BY <1>1, <1>2 DEF AddFounder, At, OnCourse, Unfounded
  <2>2. req[r].by \in stored /\ role[req[r].by] = NoRole
    BY <2>1 DEF Unfounded, Members
  <2>3. role' = [role EXCEPT ![req[r].by] = "LEITER"]
    BY <1>2, <2>1, <2>2 DEF AddFounder, Admit
  <2>4. QED
    BY <1>1, <2>1, <2>3, LeitersBut
<1>3. CASE ~ AddFounder(r)
  <2>1. founded /\ club = "live"
    BY <1>3, FoundedWriters, ClubWriters DEF SaveClub, DeleteClub, Unfounded
  <2>2. CASE At(r, "club") /\ req[r].op = "delete"
    <3>1. Members = {} /\ \A k \in Token : invitation[k].state \notin {"open", "accepted"}
      BY <2>2 DEF Emptied
    <3>2. ~ Fail(r)
      BY <2>2 DEF Fail
    <3>3. DeleteClub(r)
      BY <2>2, <3>2 DEF Step, At,
         Authorize, ReadMember, FindSection, RequireNotLastLeiter, UpdateMemberRole,
         DeleteClubMember, SetMemberAuthorized, AssignMember, CreateSection, DeleteSection,
         SaveClub, AddFounder, FindClub, DeleteClubInvitations, DeleteClubMembers,
         InviteUser, CreateInvitation, RevokeInvitation, ReadInvitation, CreateInvitedUser,
         SaveUser, UpdateFromEndpoint, SaveUserFails, AddUserToClub, MarkAccepted
    <3>4. QED
      BY <3>1, <3>3 DEF DeleteClub
  <2>3. CASE ~ (At(r, "club") /\ req[r].op = "delete")
    <3>1. Leiters # {}
      BY <2>1, <2>3, HalvedStays DEF Led, Alone, At
    <3>2. role' # role
      BY <3>1 DEF Leiters
    <3>3. CASE UpdateMemberRole(r)
      <4>1. /\ role' = [role EXCEPT ![req[r].who] = req[r].role] /\ req[r].who \in User
            /\ At(r, "write") /\ req[r].op = "role"
        BY <1>1, <3>2, <3>3 DEF UpdateMemberRole, At, OnCourse
      <4>2. CASE req[r].role = "LEITER"
        BY <1>1, <4>1, <4>2, LeitersBut
      <4>3. CASE req[r].role # "LEITER"
        <5>1. Leiters \ {req[r].who} # {}
          BY <3>1, <4>1, <4>3 DEF Counted, StepsDown, Leiters
        <5>2. QED
          BY <1>1, <4>1, <5>1, LeitersBut
      <4>4. QED
        BY <4>2, <4>3
    <3>4. CASE DeleteClubMember(r)
      <4>1. At(r, "write") /\ req[r].op \in {"remove", "leave"}
        BY <3>4 DEF DeleteClubMember
      <4>2. Leiters \ {req[r].who} # {}
        BY <3>1, <4>1 DEF Counted, StepsDown, Leiters
      <4>3. Leiters' # {}
        BY <1>1, <3>4, <4>2 DEF DeleteClubMember, Expel, Leiters, RowsTyped
      <4>4. QED
        BY <4>3
    <3>5. CASE DeleteClubMembers(r)
      <4>1. Goto(r, "club") /\ req[r].op = "delete"
        BY <1>1, <3>5 DEF DeleteClubMembers, At, OnCourse, Serves
      <4>2. QED
        BY <1>1, <4>1, Went DEF Steps
    <3>6. CASE AddUserToClub(r)
      <4>1. PICK v \in User : role[v] = "LEITER"
        BY <3>1 DEF Leiters
      <4>2. role'[v] = "LEITER"
        BY <1>1, <3>6, <4>1 DEF AddUserToClub, Admit, RowsTyped, ClubConstants, Roles
      <4>3. QED
        BY <4>2 DEF Leiters
    <3>7. QED
      BY <1>3, <3>2, <3>3, <3>4, <3>5, <3>6, RoleWriters
  <2>4. QED
    BY <2>2, <2>3
<1>4. QED
  BY <1>2, <1>3

LEMMA EmpoweredStep ==
    ASSUME ClubConstants, TypeInv, Empowered, NEW r \in Req, Step(r), Alone(r)
    PROVE  Empowered'
<1> SUFFICES ASSUME req'[r].op = "role", req'[r].role = "LEITER",
                    req'[r].pc \in {"member", "count", "write"}
             PROVE  role'[req'[r].by] = "LEITER"
  BY DEF Alone, Empowered
<1>1. ReqTyped /\ OnCourse(req[r])
  BY DEF TypeInv, Course
<1>2. ~ End(r)
  BY <1>1, Ended DEF Idle
<1>3. PICK pc \in Steps : Goto(r, pc)
  BY <1>2, StepGoes
<1>4. /\ req'[r].pc = pc /\ req'[r].by = req[r].by
      /\ req[r].op = "role" /\ req[r].role = "LEITER"
  BY <1>1, <1>3, Went
<1>5. Authorize(r) \/ ReadMember(r) \/ RequireNotLastLeiter(r)
  BY <1>1, <1>2, <1>4 DEF Step, OnCourse, Serves, At,
     FindSection, UpdateMemberRole, DeleteClubMember, SetMemberAuthorized, AssignMember,
     CreateSection, DeleteSection, SaveClub, AddFounder, FindClub, DeleteClubInvitations,
     DeleteClubMembers, DeleteClub, InviteUser, CreateInvitation, RevokeInvitation,
     ReadInvitation, CreateInvitedUser, SaveUser, UpdateFromEndpoint, SaveUserFails,
     AddUserToClub, MarkAccepted, Fail
<1>6. UNCHANGED role
  BY <1>5 DEF Authorize, ReadMember, RequireNotLastLeiter, member
<1>7. CASE Authorize(r)
  <2>1. Permitted(req[r])
    BY <1>2, <1>7 DEF Authorize
  <2>2. role[req[r].by] = "LEITER"
    BY <1>4, <2>1 DEF Permitted, Managers
  <2>3. QED
    BY <1>4, <1>6, <2>2
<1>8. CASE ReadMember(r) \/ RequireNotLastLeiter(r)
  BY <1>4, <1>6, <1>8 DEF ReadMember, RequireNotLastLeiter, Empowered, At
<1>9. QED
  BY <1>5, <1>7, <1>8

LEMMA StillOpenStep ==
    ASSUME ClubConstants, TypeInv, StillOpen, NEW r \in Req, Step(r), Alone(r)
    PROVE  StillOpen'
<1> SUFFICES ASSUME Follows(req'[r])
             PROVE  invitation'[req'[r].token].state = "open"
  BY DEF Alone, Follows, StillOpen
<1>1. ReqTyped /\ OnCourse(req[r])
  BY DEF TypeInv, Course
<1>2. /\ req'[r].token = req[r].token
      /\ Follows(req[r]) \/ Usable(req[r].token, req[r].who)
  BY FollowsNext
<1>3. invitation[req[r].token].state = "open"
  BY <1>2 DEF StillOpen, Usable
<1>4. ~ End(r) /\ ~ Goto(r, "participants")
  BY <1>1, Ended, Went DEF Idle, Follows, Steps
<1>5. UNCHANGED invitation
  BY <1>4, InvitationWriters DEF DeleteClubInvitations, CreateInvitation, RevokeInvitation,
     MarkAccepted
<1>6. QED
  BY <1>2, <1>3, <1>5

LEMMA SerialInit == ClubConstants /\ Init => SerialInv
BY DEF Init, SerialInv, OneAtATime, Emptied, Counted, Led, Empowered, StillOpen, Follows, Idle, At

LEMMA SerialNext ==
    ASSUME ClubConstants, TypeInv, Unfounded, SerialInv, [Next]_vars
    PROVE  SerialInv'
<1>1. ASSUME NEW r \in Req, Step(r)
      PROVE  SerialInv'
  <2>1. OneAtATime' /\ (~ overlapped => Alone(r)) /\ overlapped' = overlapped
    BY <1>1, StepAlone, StepUnderWay DEF SerialInv
  <2>2. ASSUME ~ overlapped
        PROVE  Emptied' /\ Counted' /\ Led' /\ Empowered' /\ StillOpen'
    BY <1>1, <2>1, <2>2, EmptiedStep, CountedStep, LedStep, EmpoweredStep, StillOpenStep
       DEF SerialInv
  <2>3. QED
    BY <2>1, <2>2 DEF SerialInv
<1>2. ASSUME NEW r \in Req, Ask(r)
      PROVE  SerialInv'
  <2>1. UNCHANGED <<club, role, invitation, founded, halved>>
        /\ Members' = Members /\ Leiters' = Leiters
    BY <1>2, OthersWrite DEF Members, Leiters
  <2>2. ASSUME ~ overlapped'
        PROVE  /\ \A x, y \in Req : ~ At(x, "idle")' /\ ~ At(y, "idle")' => x = y
               /\ Emptied' /\ Counted' /\ Led' /\ Empowered' /\ StillOpen'
    <3>1. /\ ~ overlapped /\ Alone(r)
          /\ req[r].pc = "idle" /\ req'[r].pc \in {"club", "read", "authorize"}
          /\ req'[r].pc = "club" => req'[r].op = "create"
      BY <1>2, <2>2, AskAlone
    <3>2. \A x, y \in Req : ~ At(x, "idle")' /\ ~ At(y, "idle")' => x = y
      BY <3>1 DEF Alone, At
    <3>3. Emptied' /\ Counted' /\ Empowered' /\ StillOpen'
      BY <3>1 DEF Alone, Emptied, Counted, Empowered, StillOpen, Follows, At
    <3>4. Led'
      BY <2>1, <3>1 DEF SerialInv, Led, Alone, At
    <3>5. QED
      BY <3>2, <3>3, <3>4
  <2>3. QED
    BY <2>2 DEF SerialInv, OneAtATime
<1>3. CASE UNCHANGED <<club, role, invitation, founded, req, overlapped, halved>>
  BY <1>3 DEF SerialInv, OneAtATime, Emptied, Counted, Led, Empowered, StillOpen, At,
     Members, Leiters
<1>4. QED
  BY <1>1, <1>2, <1>3, OthersWrite DEF Next, vars, member, history

LEMMA UnfoundedAlways == ASSUME ClubConstants PROVE Spec => []Unfounded
<1>1. Init => Unfounded
  BY UnfoundedInit
<1>2. TypeInv /\ Unfounded /\ [Next]_vars => Unfounded'
  BY UnfoundedNext
<1>3. QED
  BY <1>1, <1>2, InvAlways, PTL DEF Spec

LEMMA SerialAlways == ASSUME ClubConstants PROVE Spec => []SerialInv
<1>1. Init => SerialInv
  BY SerialInit
<1>2. TypeInv /\ Unfounded /\ SerialInv /\ [Next]_vars => SerialInv'
  BY SerialNext
<1>3. QED
  BY <1>1, <1>2, InvAlways, UnfoundedAlways, PTL DEF Spec

\* As long as requests have come one at a time and no deletion has stopped half
\* way, a club has a LEITER from its founding to its deletion
\* (clubMemberService.go): whoever goes or steps down has counted, and the
\* founder, who is stored before the club is, becomes the first.
THEOREM ClubKeepsLeiter ==
    ASSUME ClubConstants
    PROVE  Spec => []KeepsLeiter
<1>1. SerialInv => KeepsLeiter
  BY DEF SerialInv, Led, KeepsLeiter, EveryClubKeepsLeiter, Quiet, At
<1>2. QED
  BY <1>1, SerialAlways, PTL

LEMMA AskedStep ==
    ASSUME ClubConstants, TypeInv, Unfounded, SerialInv, [Next]_vars
    PROVE  AskedByLeiter
<1> SUFFICES ASSUME NEW u \in User, role'[u] = "LEITER", role[u] # "LEITER", founded,
                    ~ overlapped
             PROVE  \E r \in Req : req[r].by \in Leiters
  BY DEF AskedByLeiter, Leiters
<1>1. RowsTyped /\ Course
  BY DEF TypeInv
<1>2. PICK r \in Req : Step(r)
  BY OthersWrite DEF Next, vars, member
<1>3. OnCourse(req[r])
  BY <1>1 DEF Course
<1>4. CASE UpdateMemberRole(r)
  <2>1. req[r].role = "LEITER" /\ At(r, "write") /\ req[r].op = "role" /\ req[r].by \in User
    BY <1>1, <1>3, <1>4 DEF UpdateMemberRole, RowsTyped, At, OnCourse
  <2>2. QED
    BY <2>1 DEF SerialInv, Empowered, Leiters, At
<1>5. CASE DeleteClubMember(r) \/ DeleteClubMembers(r)
  BY <1>5 DEF DeleteClubMember, DeleteClubMembers, Expel, ClubConstants, Roles
<1>6. CASE AddFounder(r)
  BY <1>6 DEF AddFounder, Unfounded
<1>7. CASE AddUserToClub(r)
  BY <1>1, <1>7 DEF AddUserToClub, Admit, RowsTyped
<1>8. QED
  BY <1>2, <1>4, <1>5, <1>6, <1>7, RoleWriters

\* While requests have come one at a time, nobody becomes LEITER after the
\* founding unless a LEITER asks for it: a CO_LEITER, an inviter or an invitation
\* cannot (UpdateMemberRole, AddUserToClub).
THEOREM ClubLeiterByLeiter ==
    ASSUME ClubConstants
    PROVE  Spec => LeiterByLeiter
<1>1. TypeInv /\ Unfounded /\ SerialInv /\ [Next]_vars => [AskedByLeiter]_vars
  BY AskedStep
<1>2. QED
  BY <1>1, InvAlways, UnfoundedAlways, SerialAlways, PTL DEF Spec, LeiterByLeiter

LEMMA JoinsStep ==
    ASSUME TypeInv, SerialInv
    PROVE  JoinsUnspent
<1>1. \A r \in Req : At(r, "join") /\ req[r].op # "invite" => Follows(req[r])
  BY DEF TypeInv, Course, OnCourse, Serves, Follows, At
<1>2. QED
  BY <1>1 DEF JoinsUnspent, SerialInv, StillOpen

\* While requests have come one at a time, an invitation that was accepted lets
\* nobody in again, so whoever was removed stays out (AcceptInvitation marks it
\* last, and every way to joining has read it open).
THEOREM ClubSpentStaysSpent ==
    ASSUME ClubConstants
    PROVE  Spec => SpentStaysSpent
<1>1. TypeInv /\ SerialInv /\ [Next]_vars => [JoinsUnspent]_vars
  BY JoinsStep
<1>2. QED
  BY <1>1, InvAlways, SerialAlways, PTL DEF Spec, SpentStaysSpent
=============================================================================
