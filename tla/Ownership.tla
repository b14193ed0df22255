----------------------------- MODULE Ownership ------------------------------
(***************************************************************************)
(* Who owns what on the control plane: accounts, teams, memberships and    *)
(* subscriptions, as admin-subscription.service.ts changes them.           *)
(*                                                                         *)
(* A handler first reads and decides, then writes in one transaction.  The *)
(* two are separate actions, because another request or another API        *)
(* process can run in between unless an owner lock keeps it out.  The      *)
(* reads a handler decides on are one step.  Traffic and time are reduced  *)
(* to whether a subscription is effective (active or paused) or ended.     *)
(***************************************************************************)
EXTENDS Integers, Sequences, FiniteSets

CONSTANTS OwnUsers, OwnTeams, OwnProcs,
          MaxUserRows,     \* bound: subscription rows of a user
          MaxTeamRows,     \* bound: subscription rows of a team
          MaxStatusWrites, \* bound: changes of an account's or team's status
          MaxMembers,      \* bound: membership rows ever created
          NoTeam, NoUser

ASSUME OwnAssumption ==
    /\ MaxUserRows \in Nat /\ MaxTeamRows \in Nat
    /\ MaxStatusWrites \in Nat /\ MaxMembers \in Nat
    /\ NoTeam \notin OwnTeams /\ NoUser \notin OwnUsers
    /\ IsFiniteSet(OwnProcs) /\ OwnUsers \cap OwnTeams = {}

VARIABLES account,         \* account[u]: User.status
          team,            \* team[t]: ownerUserId and status; NoUser: no row
          member,          \* member[u]: the user's TeamMember row
          memberIds,       \* membership ids given out
          rows,            \* rows[o]: Subscription rows of a user or a team
          statusWrites,    \* status changes so far
          owned,           \* owned[p]: the request p is in
          bypassed         \* history: users whose row a join did not look at

ownVars == <<account, team, member, memberIds, rows, statusWrites, owned, bypassed>>

Owners    == OwnUsers \cup OwnTeams
NoMember  == [team |-> NoTeam, role |-> "none", id |-> 0]
NoRequest == [op |-> "idle", user |-> NoUser, team |-> NoTeam, id |-> 0, locks |-> {}]

(* isEffectiveSubscription of the row pickCurrentSubscription returns: it *)
(* prefers an effective row whenever there is one.                        *)
Effective(o) == \E i \in DOMAIN rows[o] : rows[o][i] = "effective"

(* assertUserCanJoinTeam. *)
CanJoinTeam(u) == account[u] = "active" /\ member[u] = NoMember /\ ~Effective(u)

OwnInit ==
    /\ account = [u \in OwnUsers |-> "active"]
    /\ team = [t \in OwnTeams |-> [owner |-> NoUser, status |-> "active"]]
    /\ member = [u \in OwnUsers |-> NoMember]
    /\ memberIds = 0
    /\ rows = [o \in Owners |-> <<>>]
    /\ owned = [p \in OwnProcs |-> NoRequest]
    /\ statusWrites = 0
    /\ bypassed = {}

TeamExists(t) == team[t].owner # NoUser

Joins == {"createTeam", "createTeamMember", "convert"}

(* The bound on membership rows, counting the requests about to write one. *)
RoomForMember ==
    memberIds + Cardinality({p \in OwnProcs : owned[p].op \in Joins}) < MaxMembers

-----------------------------------------------------------------------------
(* The deciding half of each handler.                                      *)

(* runWithSubscriptionOwnerLock, then the checks of the locked part: the  *)
(* request keeps its owner keys until it has written.                     *)
Decide(p, request) ==
    /\ owned[p] = NoRequest
    /\ \A q \in OwnProcs : owned[q].locks \cap request.locks = {}
    /\ owned' = [owned EXCEPT ![p] = request]
    /\ UNCHANGED <<account, team, member, memberIds, rows, bypassed, statusWrites>>

CreateSubscription(p, u) ==
    /\ account[u] = "active" /\ member[u] = NoMember /\ ~Effective(u)
    /\ Len(rows[u]) < MaxUserRows
    /\ Decide(p, [NoRequest EXCEPT !.op = "createSubscription", !.user = u, !.locks = {u}])

(* Fault: the team is not locked while its subscription is created. *)
CreateTeamSubscriptionUnlocked(p, t) ==
    /\ TeamExists(t) /\ team[t].status = "active" /\ ~Effective(t)
    /\ Len(rows[t]) < MaxTeamRows
    /\ Decide(p, [NoRequest EXCEPT !.op = "createTeamSubscription", !.team = t])

CreateTeamSubscription(p, t) ==
    /\ TeamExists(t) /\ team[t].status = "active" /\ ~Effective(t)
    /\ Len(rows[t]) < MaxTeamRows
    /\ Decide(p, [NoRequest EXCEPT !.op = "createTeamSubscription", !.team = t, !.locks = {t}])

CreateTeam(p, u, t) ==
    /\ ~TeamExists(t) /\ CanJoinTeam(u) /\ RoomForMember
    /\ Decide(p, [NoRequest EXCEPT !.op = "createTeam", !.user = u, !.team = t, !.locks = {u}])

(* Fault: the account is not locked while it joins. *)
CreateTeamMemberUnlocked(p, u, t) ==
    /\ TeamExists(t) /\ CanJoinTeam(u) /\ RoomForMember
    /\ Decide(p, [NoRequest EXCEPT !.op = "createTeamMember", !.user = u, !.team = t])

CreateTeamMember(p, u, t) ==
    /\ TeamExists(t) /\ CanJoinTeam(u) /\ RoomForMember
    /\ Decide(p, [NoRequest EXCEPT !.op = "createTeamMember", !.user = u, !.team = t, !.locks = {u}])

(* convertPersonalSubscriptionToTeam names one row of the user, which need *)
(* not be the current one; the request keeps its index as id.              *)
ConvertToTeam(p, u, t, i) ==
    /\ i \in DOMAIN rows[u] /\ RoomForMember
    /\ account[u] = "active" /\ team[t].status = "active"
    /\ member[u] = NoMember /\ Effective(t)
    /\ Decide(p, [op |-> "convert", user |-> u, team |-> t, id |-> i, locks |-> {u}])

(* updateTeam with a new ownerUserId takes the team's and the user's key. *)
TransferTeam(p, t, u) ==
    /\ TeamExists(t) /\ team[t].owner # u
    /\ account[u] = "active" /\ member[u].team = t /\ ~Effective(u)
    /\ Decide(p, [NoRequest EXCEPT !.op = "transfer", !.user = u, !.team = t, !.locks = {t, u}])

(* updateTeamMember to owner locks the team; an update that leaves the role *)
(* out follows the same path for the owner, without the lock.               *)
PromoteMember(p, u) ==
    /\ member[u] # NoMember /\ account[u] = "active"
    /\ \E locks \in {{member[u].team}} \cup IF member[u].role = "owner" THEN {{}} ELSE {} :
         Decide(p, [op |-> "promote", user |-> u, team |-> member[u].team,
                    id |-> member[u].id, locks |-> locks])

(* updateTeamMember to member, and deleteTeamMember: not the owner's row, *)
(* and no lock.                                                           *)
DemoteMember(p, u) ==
    /\ member[u].role = "member"
    /\ Decide(p, [op |-> "demote", user |-> u, team |-> member[u].team,
                  id |-> member[u].id, locks |-> {}])

DeleteTeamMember(p, u) ==
    /\ member[u].role = "member"
    /\ Decide(p, [op |-> "delete", user |-> u, team |-> member[u].team,
                  id |-> member[u].id, locks |-> {}])

-----------------------------------------------------------------------------
(* The writing half.  A failed write answers with an error; every outcome  *)
(* ends the request and releases its keys.                                 *)

EndRequest(p) == owned' = [owned EXCEPT ![p] = NoRequest]

FailWrite(p) ==
    /\ EndRequest(p)
    /\ UNCHANGED <<account, team, member, memberIds, rows, bypassed, statusWrites>>

WriteSubscription(p) ==
    LET o == IF owned[p].op = "createSubscription" THEN owned[p].user ELSE owned[p].team
    IN  /\ owned[p].op \in {"createSubscription", "createTeamSubscription"}
        /\ \E state \in {"effective", "ended"} : rows' = [rows EXCEPT ![o] = Append(@, state)]
        /\ EndRequest(p)
        /\ UNCHANGED <<account, team, member, memberIds, bypassed, statusWrites>>

NewMember(p, role) ==
    /\ memberIds' = memberIds + 1
    /\ member' = [member EXCEPT ![owned[p].user] =
                    [team |-> owned[p].team, role |-> role, id |-> memberIds + 1]]

(* TeamMember.userId is unique: a second row is refused. *)
WriteJoin(p) ==
    LET u == owned[p].user
        t == owned[p].team
    IN  /\ owned[p].op \in Joins
        /\ IF member[u] # NoMember \/ (owned[p].op = "createTeam" /\ TeamExists(t))
           THEN FailWrite(p)
           ELSE /\ NewMember(p, IF owned[p].op = "createTeam" THEN "owner" ELSE "member")
                /\ team' = IF owned[p].op = "createTeam" THEN [team EXCEPT ![t].owner = u] ELSE team
                /\ IF owned[p].op = "convert"
                   THEN LET rest == [rows EXCEPT ![u][owned[p].id] = "ended"]
                        IN  /\ rows' = rest
                            /\ bypassed' = IF \E i \in DOMAIN rest[u] : rest[u][i] = "effective"
                                           THEN bypassed \cup {u} ELSE bypassed
                   ELSE UNCHANGED <<rows, bypassed>>
                /\ EndRequest(p)
                /\ UNCHANGED <<account, statusWrites>>

(* Fault: the rows of every team are reset. *)
OwnerRolesEverywhere(t, u) ==
    [v \in OwnUsers |-> [member[v] EXCEPT !.role = IF v = u THEN "owner" ELSE "member"]]

(* Fault: the previous owner's row keeps its role. *)
OwnerRolesKept(t, u) ==
    [v \in OwnUsers |-> IF v = u THEN [member[v] EXCEPT !.role = "owner"] ELSE member[v]]

(* u becomes the owner, every other row of the team an ordinary member. *)
OwnerRoles(t, u) ==
    [v \in OwnUsers |->
        IF member[v].team # t THEN member[v]
        ELSE [member[v] EXCEPT !.role = IF v = u THEN "owner" ELSE "member"]]

(* Transfer reads the membership again in its transaction; a promotion      *)
(* updates its row by id and fails when the row is gone.                    *)
WriteOwner(p) ==
    LET u == owned[p].user
        t == owned[p].team
    IN  /\ owned[p].op \in {"transfer", "promote"}
        /\ IF member[u].team # t \/ (owned[p].op = "promote" /\ member[u].id # owned[p].id)
           THEN FailWrite(p)
           ELSE /\ member' = OwnerRoles(t, u)
                /\ team' = [team EXCEPT ![t].owner = u]
                /\ EndRequest(p)
                /\ UNCHANGED <<account, memberIds, rows, bypassed, statusWrites>>

(* By id, whatever role the row has by now. *)
WriteMember(p) ==
    LET u == owned[p].user
    IN  /\ owned[p].op \in {"demote", "delete"}
        /\ IF member[u].id # owned[p].id
           THEN FailWrite(p)
           ELSE /\ member' = [member EXCEPT ![u] =
                     IF owned[p].op = "delete" THEN NoMember ELSE [@ EXCEPT !.role = "member"]]
                /\ EndRequest(p)
                /\ UNCHANGED <<account, team, memberIds, rows, bypassed, statusWrites>>

-----------------------------------------------------------------------------
(* Single writes.                                                          *)

(* updateUser and kickTeamMember with disableAccount. *)
SetUserStatus(u) ==
    /\ statusWrites < MaxStatusWrites
    /\ statusWrites' = statusWrites + 1
    /\ account' = [account EXCEPT ![u] = IF @ = "active" THEN "disabled" ELSE "active"]
    /\ UNCHANGED <<team, member, memberIds, rows, owned, bypassed>>

SetTeamStatus(t) ==
    /\ TeamExists(t)
    /\ statusWrites < MaxStatusWrites
    /\ statusWrites' = statusWrites + 1
    /\ team' = [team EXCEPT ![t].status = IF @ = "active" THEN "disabled" ELSE "active"]
    /\ UNCHANGED <<account, member, memberIds, rows, owned, bypassed>>

(* Time, traffic or an administrator ends a subscription. *)
EndSubscription(o, i) ==
    /\ rows[o][i] = "effective"
    /\ rows' = [rows EXCEPT ![o][i] = "ended"]
    /\ UNCHANGED <<account, team, member, memberIds, owned, bypassed, statusWrites>>

(* Renewal, plan change and adjustment name any row, and look neither at    *)
(* the owner's other rows nor at its membership.                            *)
ReviveSubscription(o, i) ==
    /\ rows[o][i] = "ended"
    /\ rows' = [rows EXCEPT ![o][i] = "effective"]
    /\ bypassed' = bypassed \cup {o}
    /\ UNCHANGED <<account, team, member, memberIds, owned, statusWrites>>

OwnNext ==
    \/ \E p \in OwnProcs :
         \/ \E u \in OwnUsers :
              \/ CreateSubscription(p, u) \/ PromoteMember(p, u)
              \/ DemoteMember(p, u) \/ DeleteTeamMember(p, u)
              \/ \E t \in OwnTeams :
                   \/ CreateTeam(p, u, t) \/ CreateTeamMember(p, u, t) \/ TransferTeam(p, t, u)
                   \/ \E i \in DOMAIN rows[u] : ConvertToTeam(p, u, t, i)
         \/ \E t \in OwnTeams : CreateTeamSubscription(p, t)
         \/ WriteSubscription(p) \/ WriteJoin(p) \/ WriteOwner(p) \/ WriteMember(p)
    \/ \E u \in OwnUsers : SetUserStatus(u)
    \/ \E t \in OwnTeams : SetTeamStatus(t)
    \/ \E o \in Owners : \E i \in DOMAIN rows[o] : EndSubscription(o, i) \/ ReviveSubscription(o, i)

OwnSpec == OwnInit /\ [][OwnNext]_ownVars

-----------------------------------------------------------------------------
(* Types of the ownership tables. *)
OwnTypeOK ==
    /\ account \in [OwnUsers -> {"active", "disabled"}]
    /\ team \in [OwnTeams -> [owner : OwnUsers \cup {NoUser}, status : {"active", "disabled"}]]
    /\ member \in [OwnUsers -> [team : OwnTeams \cup {NoTeam}, role : {"none", "member", "owner"},
                                id : 0..MaxMembers]]
    /\ \A u \in OwnUsers : member[u].team = NoTeam <=> member[u].role = "none"
    /\ memberIds \in 0..MaxMembers
    /\ \A o \in Owners : rows[o] \in Seq({"effective", "ended"}) /\ Len(rows[o]) <= MaxUserRows + MaxTeamRows
    /\ statusWrites \in 0..MaxStatusWrites
    /\ bypassed \subseteq Owners

(* Creations never leave an owner with two effective subscriptions,        *)
(* whatever runs at the same time: only bringing an ended row back can.    *)
OneEffectiveRow ==
    \A o \in Owners \ bypassed :
        Cardinality({i \in DOMAIN rows[o] : rows[o][i] = "effective"}) <= 1

(* A member of a team has no effective personal subscription, unless an    *)
(* ended row was brought back or the conversion named another row.         *)
MemberHasNoPersonal ==
    \A u \in OwnUsers \ bypassed : member[u] # NoMember => ~Effective(u)

(* At most one row of a team says owner, and Team.ownerUserId names it.    *)
OwnerRowAgrees ==
    \A u \in OwnUsers : member[u].role = "owner" => team[member[u].team].owner = u

(* The handler that refuses to remove an owner promises that a team's      *)
(* owner is always one of its members.                                     *)
OwnerIsMember ==
    \A t \in OwnTeams : TeamExists(t) => member[team[t].owner].team = t

(* Memberships are in order: types, no personal subscription beside a team *)
(* and one owner row, the one Team.ownerUserId names.                      *)
MembershipInvariant == OwnTypeOK /\ MemberHasNoPersonal /\ OwnerRowAgrees
=============================================================================
