----------------------------- MODULE ClubFounding -----------------------------
(***************************************************************************)
(* How a club comes about in the client: the form in three steps that      *)
(* creates it and the card that invites its first members                  *)
(* (ui/src/pages/ClubView.tsx), and the list of clubs in the side bar      *)
(* (components/layout/SideBar.tsx).  ClubMembers has the server's          *)
(* statements one by one; here a request is answered in one step, or fails *)
(* and may have done all or a part of it.                                  *)
(***************************************************************************)
EXTENDS Naturals, FiniteSets

CONSTANTS
    Club,           \* bound: clubs that are ever created
    Post,           \* requests to create one that may be under way at once
    NoClub, NoPost

FoundingNulls == NoClub \notin Club /\ NoPost \notin Post

Step == 0..2
Address == {"one", "other"}

VARIABLES
    currentStep,
    filled,         \* the steps whose fields are all valid
    post, latest,   \* requests to create a club, and the one mutation shows
    club,           \* the server's clubs: "none", "bare" (without a LEITER), "led"
    createdClub,
    clubs, fetch,   \* the list ["clubs"] of the side bar, and its request
    inviteInput, inviting,
    again,          \* history: a club was asked for while it had been already
    missed          \* history: the last request for the list failed

vars == <<currentStep, filled, post, latest, club, createdClub, clubs, fetch, inviteInput,
          inviting, again, missed>>
form == <<currentStep, filled>>
posts == <<post, latest, again>>
list == <<clubs, fetch, missed>>
invites == <<inviteInput, inviting>>

NoFetch == [pc |-> "idle", got |-> {}]
Asked == [pc |-> "asked", got |-> {}]
NoInvite == [club |-> NoClub, emails |-> {}]

TypeOK ==
    /\ currentStep \in Step /\ filled \subseteq Step
    /\ post \in [Post -> {"idle", "sent"}] /\ latest \in Post \union {NoPost}
    /\ club \in [Club -> {"none", "bare", "led"}]
    /\ createdClub \in Club \union {NoClub}
    /\ clubs \subseteq Club
    /\ fetch \in [pc : {"idle", "asked", "read"}, got : SUBSET Club]
    /\ inviteInput \subseteq Address
    /\ inviting \in [club : Club \union {NoClub}, emails : SUBSET Address]
    /\ {again, missed} \subseteq BOOLEAN

\* The radio buttons and the selects have a value from the start; a step is
\* valid when its texts are there, and the last when its box is ticked.
Init ==
    /\ currentStep = 0 /\ filled = {}
    /\ post = [p \in Post |-> "idle"] /\ latest = NoPost /\ again = FALSE
    /\ club = [k \in Club |-> "none"]
    /\ createdClub = NoClub
    /\ clubs = {} /\ fetch = NoFetch /\ missed = FALSE
    /\ inviteInput = {} /\ inviting = NoInvite

-----------------------------------------------------------------------------
(* The form. It stays until a club has been created.                       *)

Fill ==
    /\ createdClub = NoClub
    /\ filled' = IF currentStep \in filled THEN filled \ {currentStep}
                 ELSE filled \union {currentStep}
    /\ UNCHANGED <<currentStep, posts, club, createdClub, list, invites>>

\* "Continue" checks the step, "cancel" and the bars above go anywhere.
onNext ==
    /\ createdClub = NoClub
    /\ currentStep < 2 /\ currentStep \in filled
    /\ currentStep' = currentStep + 1
    /\ UNCHANGED <<filled, posts, club, createdClub, list, invites>>

GoTo ==
    /\ createdClub = NoClub
    /\ currentStep' \in Step \ {currentStep}
    /\ UNCHANGED <<filled, posts, club, createdClub, list, invites>>

isPending == latest # NoPost /\ post[latest] = "sent"

\* The button of the last step, disabled while a request is under way; or the
\* Enter key in the first step, which has one text and no button that submits.
\* All fields are checked.
onSubmit(p) ==
    /\ createdClub = NoClub
    /\ currentStep = 0 \/ (currentStep = 2 /\ ~ isPending)
    /\ filled = Step
    /\ post[p] = "idle"
    /\ post' = [post EXCEPT ![p] = "sent"]
    /\ latest' = p
    /\ again' = (again \/ "sent" \in {post[q] : q \in Post}
                       \/ {"bare", "led"} \intersect {club[k] : k \in Club} # {})
    /\ UNCHANGED <<form, club, createdClub, list, invites>>

\* Mutant: the list is not asked for while a request for it is under way.
JoinsFetch == IF fetch.pc = "idle" THEN Asked ELSE fetch

\* invalidateQueries: a request under way is dropped and another one sent.
Invalidated == Asked

\* PostClub: the club, and its founder as LEITER. onSuccess runs for every
\* request, also for one that a later one has replaced.
ClubCreated(p) ==
    /\ post[p] = "sent"
    /\ \E k \in Club :
          /\ club[k] = "none"
          /\ club' = [club EXCEPT ![k] = "led"]
          /\ createdClub' = k
    /\ post' = [post EXCEPT ![p] = "idle"]
    /\ fetch' = Invalidated
    /\ UNCHANGED <<form, latest, again, clubs, missed, invites>>

\* Nothing was done, the founder was not added, or the answer is lost.
PostFails(p) ==
    /\ post[p] = "sent"
    /\ \/ UNCHANGED club
       \/ \E k \in Club : club[k] = "none" /\ club' \in {[club EXCEPT ![k] = "bare"],
                                                        [club EXCEPT ![k] = "led"]}
    /\ post' = [post EXCEPT ![p] = "idle"]
    /\ UNCHANGED <<form, latest, again, createdClub, list, invites>>

-----------------------------------------------------------------------------
(* The list of the side bar: asked for, read on the server, answered.      *)

ListRead ==
    /\ fetch.pc = "asked"
    /\ fetch' = [pc |-> "read", got |-> {k \in Club : club[k] = "led"}]
    /\ UNCHANGED <<form, posts, club, createdClub, clubs, missed, invites>>

ListAnswered ==
    /\ fetch.pc = "read"
    /\ clubs' = fetch.got /\ fetch' = NoFetch /\ missed' = FALSE
    /\ UNCHANGED <<form, posts, club, createdClub, invites>>

ListFails ==
    /\ fetch.pc # "idle"
    /\ fetch' = NoFetch /\ missed' = TRUE
    /\ UNCHANGED <<form, posts, club, createdClub, clubs, invites>>

Focused ==
    /\ fetch.pc = "idle"
    /\ fetch' = Asked
    /\ UNCHANGED <<form, posts, club, createdClub, clubs, missed, invites>>

-----------------------------------------------------------------------------
(* The card of the created club.                                           *)

Type ==
    /\ createdClub # NoClub
    /\ inviteInput' \in (SUBSET Address) \ {inviteInput}
    /\ UNCHANGED <<form, posts, club, createdClub, list, inviting>>

onInvite ==
    /\ createdClub # NoClub /\ inviteInput # {} /\ inviting = NoInvite
    /\ inviting' = [club |-> createdClub, emails |-> inviteInput]
    /\ UNCHANGED <<form, posts, club, createdClub, list, inviteInput>>

\* onSuccess empties the input, whatever was typed into it meanwhile.
InviteAnswered ==
    /\ inviting # NoInvite
    /\ inviteInput' = {} /\ inviting' = NoInvite
    /\ UNCHANGED <<form, posts, club, createdClub, list>>

InviteFails ==
    /\ inviting # NoInvite
    /\ inviting' = NoInvite
    /\ UNCHANGED <<form, posts, club, createdClub, list, inviteInput>>

Next ==
    \/ Fill \/ onNext \/ GoTo
    \/ \E p \in Post : onSubmit(p) \/ ClubCreated(p) \/ PostFails(p)
    \/ ListRead \/ ListAnswered \/ ListFails \/ Focused
    \/ Type \/ onInvite \/ InviteAnswered \/ InviteFails

Spec == Init /\ [][Next]_vars

-----------------------------------------------------------------------------
(* The side bar has the club that was created as soon as nothing is under  *)
(* way, unless its list could not be fetched (ClubView.tsx:92-95), and it  *)
(* has no club without the founder as LEITER.                              *)
ListHasClub ==
    /\ fetch.pc = "idle" /\ ~ missed /\ createdClub # NoClub => createdClub \in clubs
    /\ \A k \in clubs : club[k] = "led"

(* One club from one form, unless it was sent again while a request was    *)
(* under way or after one that had done its work (ClubView.tsx:86-101).    *)
OneClub == ~ again => Cardinality({k \in Club : club[k] # "none"}) <= 1

(* The same without "unless" is refuted: Enter in the first step sends the *)
(* form again.                                                             *)
OneClubPerForm == Cardinality({k \in Club : club[k] # "none"}) <= 1

(* What is under way was typed for the club on the card, unless another    *)
(* one has come since (ClubView.tsx:103-126 and 152-161).                  *)
InvitesToShownClub == inviting # NoInvite /\ ~ again => inviting.club = createdClub

(* Why: the list under way has the club as soon as it has been read, and a *)
(* club is led when it is on the card. Unless the form was sent again      *)
(* there is one request for a club, or one club, at most.                  *)
ListFollows ==
    /\ createdClub # NoClub => club[createdClub] = "led"
    /\ fetch.pc = "read" =>
          /\ createdClub # NoClub => createdClub \in fetch.got
          /\ \A k \in fetch.got : club[k] = "led"

SentOnce ==
    ~ again =>
       /\ \A p, q \in Post : post[p] = "sent" /\ post[q] = "sent" => p = q
       /\ \A k, l \in Club : club[k] # "none" /\ club[l] # "none" => k = l
       /\ \A p \in Post, k \in Club : post[p] = "sent" => club[k] = "none"

InvitesOnCard == inviting # NoInvite => createdClub # NoClub

FoundingInv ==
    /\ TypeOK /\ ListHasClub /\ ListFollows
    /\ SentOnce /\ InvitesToShownClub /\ InvitesOnCard

(* An address is gone from the input when it was sent: refuted, for what   *)
(* is typed while the last ones are sent is gone, too (ClubView.tsx:122).  *)
SentWhenGone == [][createdClub' = createdClub /\ inviting # NoInvite /\ inviting' = NoInvite
                     => inviteInput \subseteq inviteInput' \union inviting.emails]_vars
=============================================================================
