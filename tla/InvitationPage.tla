---------------------------- MODULE InvitationPage ----------------------------
(***************************************************************************)
(* The page behind the link of an invitation to a club                     *)
(* (ui/src/pages/InviteAcceptView.tsx), open in several browsers: it shows *)
(* the invitation as it was when it was fetched, lets the invited account  *)
(* accept it, or makes an account for whoever has none.  The server takes  *)
(* an open invitation once (clubInvitationService.go, whose statements     *)
(* ClubMembers has one by one).                                            *)
(***************************************************************************)
CONSTANTS Page          \* the browsers the link is open in

VARIABLES
    invitation,     \* "open", "accepted", "expired" or "gone"
    account,        \* has the invited person an account?
    joined,         \* has the invited person ever been a member?
    page            \* page[p]: who is signed in, what is shown, what is under way

vars == <<invitation, account, joined, page>>
server == <<invitation, account, joined>>

View == {"none", "open", "accepted", "expired"}

TypeOK ==
    /\ invitation \in {"open", "accepted", "expired", "gone"}
    /\ {account, joined} \subseteq BOOLEAN
    /\ page \in [Page -> [who : {"nobody", "invited", "other"}, view : View,
                          query : BOOLEAN, pc : {"idle", "sent", "refetch"}]]

Opened(who) == [who |-> who, view |-> "none", query |-> TRUE, pc |-> "idle"]

Init ==
    /\ invitation = "open" /\ account \in BOOLEAN /\ joined = FALSE
    /\ page = [p \in Page |-> Opened("nobody")]

-----------------------------------------------------------------------------
(* The query.                                                              *)

\* A revoked invitation is not found, and what was shown stays. The mutation
\* that had it fetched again is at its end.
InvitationLoaded(p) ==
    /\ page[p].query
    /\ page' = [page EXCEPT ![p].query = FALSE,
                            ![p].pc = IF @ = "refetch" THEN "idle" ELSE @,
                            ![p].view = IF invitation = "gone" THEN @ ELSE invitation]
    /\ UNCHANGED server

LoadFails(p) ==
    /\ page[p].query
    /\ page' = [page EXCEPT ![p].query = FALSE, ![p].pc = IF @ = "refetch" THEN "idle" ELSE @]
    /\ UNCHANGED server

Refocus(p) ==
    /\ ~ page[p].query
    /\ page' = [page EXCEPT ![p].query = TRUE]
    /\ UNCHANGED server

\* The login leaves the page and comes back to its address.
SignIn(p) ==
    /\ \E who \in {"invited", "other"} :
          /\ who = "invited" => account
          /\ page' = [page EXCEPT ![p] = Opened(who)]
    /\ UNCHANGED server

-----------------------------------------------------------------------------
(* The two buttons. They are there while the invitation is shown as open.  *)

acceptMutation(p) ==
    /\ page[p].view = "open" /\ page[p].who = "invited" /\ page[p].pc = "idle"
    /\ page' = [page EXCEPT ![p].pc = "sent"]
    /\ UNCHANGED server

\* With a name and twice the same password.
completeMutation(p) ==
    /\ page[p].view = "open" /\ page[p].who = "nobody" /\ page[p].pc = "idle"
    /\ page' = [page EXCEPT ![p].pc = "sent"]
    /\ UNCHANGED server

\* What the server takes: an open invitation, from its addressee or from
\* somebody the address has no account of yet.
Takes(p) == invitation = "open" /\ (page[p].who = "invited" \/ ~ account)

\* The addressee joins, then the invitation is marked; onSuccess fetches it
\* again before the mutation is at its end.
Accepted(p) ==
    /\ page[p].pc = "sent" /\ Takes(p)
    /\ account' = TRUE /\ joined' = TRUE /\ invitation' = "accepted"
    /\ page' = [page EXCEPT ![p].pc = "refetch", ![p].query = TRUE]

\* Refused; or a statement fails, and what was done before it stays; or it is
\* all done and the answer lost. Nothing is fetched again.
AcceptFails(p) ==
    /\ page[p].pc = "sent"
    /\ \/ UNCHANGED server
       \/ Takes(p) /\ account' = TRUE /\ UNCHANGED <<joined, invitation>>
       \/ Takes(p) /\ account' = TRUE /\ joined' = TRUE /\ UNCHANGED invitation
       \/ Takes(p) /\ account' = TRUE /\ joined' = TRUE /\ invitation' = "accepted"
    /\ page' = [page EXCEPT ![p].pc = "idle"]

-----------------------------------------------------------------------------
\* Its days have passed, or somebody revokes it.
ExpireOrRevoke ==
    /\ \/ invitation = "open" /\ invitation' = "expired"
       \/ invitation \in {"open", "accepted", "expired"} /\ invitation' = "gone"
    /\ UNCHANGED <<account, joined, page>>

Next ==
    \/ \E p \in Page :
          \/ InvitationLoaded(p) \/ LoadFails(p) \/ Refocus(p) \/ SignIn(p)
          \/ acceptMutation(p) \/ completeMutation(p) \/ Accepted(p) \/ AcceptFails(p)
    \/ ExpireOrRevoke

Spec == Init /\ [][Next]_vars

-----------------------------------------------------------------------------
(* Who reads that the invitation was accepted has become a member, in      *)
(* whichever browser, and whatever failed in between                       *)
(* (InviteAcceptView.tsx:37-54 and 74).                                    *)
AcceptedIsMember == \A p \in Page : page[p].view = "accepted" => joined /\ account

(* Why: it is marked as accepted last, and a member stays one.             *)
MarkedLast == invitation = "accepted" => joined /\ account

LetterInv == TypeOK /\ AcceptedIsMember /\ MarkedLast

(* Who is offered an account has none: refuted, for the offer stays after  *)
(* the account was made and the last statements failed, and is refused     *)
(* from then on (InviteAcceptView.tsx:77-133).                             *)
OffersWhatIsTaken ==
    \A p \in Page : page[p].view = "open" /\ ~ page[p].query /\ invitation = "open" => Takes(p)
=============================================================================
