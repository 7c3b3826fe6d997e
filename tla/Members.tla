------------------------------ MODULE Members ------------------------------
(***************************************************************************)
(* Who belongs to a workspace: the first run, invitations, ranks and       *)
(* workspaces, in api/setup.py, api/routes/{setup,workspaces,invites}.py   *)
(* and api/security/permissions.py.                                        *)
(*                                                                         *)
(* A request reads rows, decides, and commits; others commit in between.   *)
(* Updating a row that is gone raises, deleting one that is gone does not. *)
(* Names, who may see what, and the links that a new one replaced are left *)
(* out.                                                                    *)
(***************************************************************************)
CONSTANTS Clerks,      \* requests in hand
          Errands,     \* sets of kinds of request examined together
          People,      \* accounts there may be
          Workspaces,  \* workspaces there may be
          Ranks,       \* ASSIGNABLE_ROLES
          Granted      \* INVITE_ROLES

ASSUME MembersAssumption ==
  /\ {"owner", "invited", "none"} \cap Ranks = {}
  /\ "admin" \in Ranks /\ Granted \subseteq Ranks

VARIABLES
  errands,  \* the requests this behaviour is about
  account,  \* users: "none", "invited" (no password), "password", "named" (by its person)
  made,     \* workspaces: those that exist
  rank,     \* memberships: the role of each person in each workspace
  invite,   \* invites: the row of the person it was made for
  desk      \* the requests

memberVars == <<errands, account, made, rank, invite, desk>>

NoInvite == [in |-> "none", role |-> "none", used |-> FALSE, expired |-> FALSE]
Invites  == [in : Workspaces, role : Granted, used : BOOLEAN, expired : BOOLEAN]
Away     == [at |-> "idle", who |-> "none", in |-> "none"]

\* Nobody yet, or a workspace with its owner and people who have joined.
MembersInit ==
  /\ errands \in Errands
  /\ \/ /\ "setup" \in errands
        /\ made = {} /\ rank = [w \in Workspaces |-> [p \in People |-> "none"]]
     \/ \E w \in Workspaces, owner \in People, team \in [People -> {"admin", "none"}] :
          /\ made = {w}
          /\ rank = [v \in Workspaces |-> [p \in People |->
               IF v # w THEN "none" ELSE IF p = owner THEN "owner" ELSE team[p]]]
  /\ account = [p \in People |-> IF \E w \in made : rank[w][p] # "none" THEN "named" ELSE "none"]
  /\ invite = [p \in People |-> NoInvite]
  /\ desk = [r \in Clerks |-> Away]

Steps == {"founding", "role", "remove", "relink", "accepting", "joining"}

MembersTypeOK ==
  /\ account \in [People -> {"none", "invited", "password", "named"}]
  /\ made \in SUBSET Workspaces
  /\ rank \in [Workspaces -> [People -> Ranks \cup {"owner", "invited", "none"}]]
  /\ invite \in [People -> Invites \cup {NoInvite}]
  /\ desk \in [Clerks -> {Away} \cup [at : Steps, who : People \cup {"none"},
                                      in : Workspaces \cup {"none"}]]

Invited(p) == invite[p] # NoInvite
Live(p)    == Invited(p) /\ ~invite[p].used /\ ~invite[p].expired

Handles(r, kind) == kind \in errands /\ desk[r].at = "idle"
Ready(r) == desk' = [desk EXCEPT ![r] = Away]
Asks(r, at, p, w) == desk' = [desk EXCEPT ![r] = [at |-> at, who |-> p, in |-> w]]

\* require_admin, read when the request arrives.
Manages(p, w) == rank[w][p] \in {"owner", "admin"}

(***************************************************************************)
(* The first run: nobody is there, so an owner and a workspace are made.   *)
(***************************************************************************)
FindsNobody(r) ==
  /\ Handles(r, "setup")
  /\ \A p \in People : account[p] = "none"
  /\ Asks(r, "founding", "none", "none")
  /\ UNCHANGED <<errands, account, made, rank, invite>>

Founds(r) ==
  /\ desk[r].at = "founding"
  /\ \E p \in People, w \in Workspaces \ made :
       /\ account[p] = "none"
       /\ account' = [account EXCEPT ![p] = "named"]
       /\ made' = made \cup {w}
       /\ rank' = [rank EXCEPT ![w] = [q \in People |-> IF q = p THEN "owner" ELSE "none"]]
  /\ Ready(r)
  /\ UNCHANGED <<errands, invite>>

FirstRun(r) == FindsNobody(r) \/ Founds(r)

(***************************************************************************)
(* The team's page                                                         *)
(***************************************************************************)
\* Nobody changes an owner, themselves, or somebody who has not accepted.
ReadsForRole(r) ==
  /\ Handles(r, "role")
  /\ \E w \in made, by, p \in People :
       /\ Manages(by, w) /\ p # by
       /\ rank[w][p] \notin {"owner", "invited", "none"}
       /\ Asks(r, "role", p, w)
  /\ UNCHANGED <<errands, account, made, rank, invite>>

ChangeRole(r) ==
  /\ desk[r].at = "role"
  /\ LET p == desk[r].who  w == desk[r].in
     IN IF rank[w][p] = "none" THEN rank' = rank
        ELSE \E role \in Ranks : rank' = [rank EXCEPT ![w][p] = role]
  /\ Ready(r)
  /\ UNCHANGED <<errands, account, made, invite>>

ReadsForRemoval(r) ==
  /\ Handles(r, "remove")
  /\ \E w \in made, by, p \in People :
       /\ Manages(by, w) /\ p # by
       /\ rank[w][p] \notin {"owner", "none"}
       /\ Asks(r, "remove", p, w)
  /\ UNCHANGED <<errands, account, made, rank, invite>>

\* A mutant: the link outlives the membership.
CancelledNever(p, w) == invite[p]

Cancelled(p, w) == IF invite[p].in = w THEN NoInvite ELSE invite[p]

\* The membership and the invitation go in one commit.
RemoveMember(r) ==
  /\ desk[r].at = "remove"
  /\ rank' = [rank EXCEPT ![desk[r].in][desk[r].who] = "none"]
  /\ invite' = [invite EXCEPT ![desk[r].who] = Cancelled(desk[r].who, desk[r].in)]
  /\ Ready(r)
  /\ UNCHANGED <<errands, account, made>>

\* _issue_invite: a new link replaces the one before it, and its seven days start again.
Issued(row) == [row EXCEPT !.expired = FALSE]

\* An invitation makes the account it is for, without a password.
CreateInvite(r) ==
  /\ Handles(r, "invite")
  /\ \E w \in made, by, p \in People, role \in Granted :
       /\ Manages(by, w) /\ account[p] = "none"
       /\ account' = [account EXCEPT ![p] = "invited"]
       /\ rank' = [rank EXCEPT ![w][p] = "invited"]
       /\ invite' = [invite EXCEPT ![p] = Issued([in |-> w, role |-> role, used |-> FALSE,
                                                  expired |-> TRUE])]
  /\ UNCHANGED <<errands, made, desk>>

ReadsForLink(r) ==
  /\ Handles(r, "relink")
  /\ \E w \in made, by, p \in People :
       /\ Manages(by, w)
       /\ rank[w][p] = "invited" /\ Invited(p) /\ invite[p].in = w
       /\ Asks(r, "relink", p, w)
  /\ UNCHANGED <<errands, account, made, rank, invite>>

RegenerateInvite(r) ==
  /\ desk[r].at = "relink"
  /\ LET p == desk[r].who
     IN invite' = IF Invited(p) THEN [invite EXCEPT ![p] = Issued(@)] ELSE invite
  /\ Ready(r)
  /\ UNCHANGED <<errands, account, made, rank>>

LinkExpires(p) ==
  /\ Live(p)
  /\ invite' = [invite EXCEPT ![p].expired = TRUE]
  /\ UNCHANGED <<errands, account, made, rank, desk>>

\* A mutant: the team is copied with the ranks it has.
CopiedAsIs(role) == IF role = "invited" THEN "none" ELSE role

\* Whoever is copied into a new workspace: the other one's owner becomes an admin there,
\* invitations stay behind.
Copied(role) ==
  CASE role = "owner"   -> "admin"
    [] role = "invited" -> "none"
    [] OTHER            -> role

CreateWorkspace(r) ==
  /\ Handles(r, "workspace")
  /\ \E from \in made, w \in Workspaces \ made, by \in People, team \in BOOLEAN :
       /\ Manages(by, from)
       /\ made' = made \cup {w}
       /\ rank' = [rank EXCEPT ![w] = [p \in People |->
            IF p = by THEN "owner" ELSE IF team THEN Copied(rank[from][p]) ELSE "none"]]
  /\ UNCHANGED <<errands, account, invite, desk>>

(***************************************************************************)
(* Accepting an invitation: two commits.                                   *)
(***************************************************************************)
Opens(r) ==
  /\ Handles(r, "accept")
  /\ \E p \in People :
       /\ Live(p) /\ rank[invite[p].in][p] # "none"
       /\ Asks(r, "accepting", p, invite[p].in)
  /\ UNCHANGED <<errands, account, made, rank, invite>>

\* set_password commits on its own. (What is sent again after the process stopped here
\* is refused as a recent password, and nothing catches that.)
SetsFirstPassword(r) ==
  /\ desk[r].at = "accepting"
  /\ account' = [account EXCEPT ![desk[r].who] = IF @ = "invited" THEN "password" ELSE @]
  /\ desk' = [desk EXCEPT ![r].at = "joining"]
  /\ UNCHANGED <<errands, made, rank, invite>>

\* The name, the role and the mark on the invitation go in with the session. Where the
\* invitation was cancelled meanwhile, the commit raises.
Joins(r) ==
  LET p == desk[r].who  w == desk[r].in IN
  /\ desk[r].at = "joining"
  /\ IF Invited(p) /\ rank[w][p] # "none"
     THEN /\ account' = [account EXCEPT ![p] = "named"]
          /\ rank' = [rank EXCEPT ![w][p] = invite[p].role]
          /\ invite' = [invite EXCEPT ![p].used = TRUE]
     ELSE UNCHANGED <<errands, account, rank, invite>>
  /\ Ready(r)
  /\ UNCHANGED <<errands, made>>

Accept(r) == Opens(r) \/ SetsFirstPassword(r) \/ Joins(r)

\* The process stops, and what was in hand is gone.
DropsRequests ==
  /\ desk' = [r \in Clerks |-> Away]
  /\ UNCHANGED <<errands, account, made, rank, invite>>

MembersNext ==
  \/ \E r \in Clerks :
       \/ FirstRun(r)
       \/ ReadsForRole(r) \/ ChangeRole(r)
       \/ ReadsForRemoval(r) \/ RemoveMember(r)
       \/ CreateInvite(r) \/ ReadsForLink(r) \/ RegenerateInvite(r)
       \/ CreateWorkspace(r)
       \/ Accept(r)
  \/ \E p \in People : LinkExpires(p)
  \/ DropsRequests

MembersSpec == MembersInit /\ [][MembersNext]_memberVars

(***************************************************************************)
(* Properties.                                                             *)
(***************************************************************************)
\* "One person, cannot be removed": whatever requests overlap, every workspace has one
\* owner, and admins who demote each other leave somebody in charge.
OneOwner ==
  \A w \in made : \E p \in People :
    /\ rank[w][p] = "owner"
    /\ \A q \in People : rank[w][q] = "owner" => q = p

\* An invitation is worth what it says: a link that opens belongs to somebody who is still
\* invited, as cancelling an invitation, or accepting it, closes every link made for it;
\* and nobody ranks above invited whose account could not be signed in to, wherever an
\* acceptance stops.
InvitationHolds ==
  /\ \A p \in People : Live(p) => rank[invite[p].in][p] = "invited"
  /\ \A w \in made, p \in People : rank[w][p] \notin {"none", "invited"} => account[p] = "named"
=============================================================================
