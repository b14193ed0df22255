-------------------------- MODULE SubscriptionProofs -------------------------
(***************************************************************************)
(* Proofs about subscription administration: who owns a subscription       *)
(* (Ownership), for any number of accounts, teams and concurrent requests, *)
(* and what its counters say (TrafficReset), for any number of members,    *)
(* requests, units and resets.                                             *)
(***************************************************************************)
EXTENDS Ownership, TrafficReset, FiniteSetTheorems, TLAPS

-----------------------------------------------------------------------------
(* Ownership: a request keeps what it decided on true until it writes,     *)
(* because every handler that could make it false needs the same owner key.*)

Requests ==
    [op : {"idle", "createSubscription", "createTeamSubscription", "createTeam", "createTeamMember",
           "convert", "transfer", "promote", "demote", "delete"},
     user : OwnUsers \cup {NoUser}, team : OwnTeams \cup {NoTeam}, id : Nat, locks : SUBSET Owners]

Creates == {"createSubscription", "createTeamSubscription"}

TargetOf(r) == IF r.op = "createSubscription" THEN r.user ELSE r.team

Joining == {p \in OwnProcs : owned[p].op \in Joins}

OwnTyped ==
    /\ account \in [OwnUsers -> {"active", "disabled"}]
    /\ team \in [OwnTeams -> [owner : OwnUsers \cup {NoUser}, status : {"active", "disabled"}]]
    /\ member \in [OwnUsers -> [team : OwnTeams \cup {NoTeam}, role : {"none", "member", "owner"},
                                id : 0..MaxMembers]]
    /\ memberIds \in Nat
    /\ rows \in [Owners -> Seq({"effective", "ended"})]
    /\ statusWrites \in 0..MaxStatusWrites
    /\ owned \in [OwnProcs -> Requests]
    /\ bypassed \in SUBSET Owners

(* A TeamMember row is there as a whole or not at all. *)
RowsWhole ==
    \A u \in OwnUsers :
        \/ member[u] = NoMember
        \/ member[u].team \in OwnTeams /\ member[u].role # "none" /\ member[u].id > 0

KeysExclude == \A p, q \in OwnProcs : p # q => owned[p].locks \cap owned[q].locks = {}

(* What a creation decided: the owner has no effective row, and a user is  *)
(* in no team.                                                             *)
CreateOk(r) ==
    /\ r.op = "createSubscription" => r.user \in OwnUsers /\ member[r.user] = NoMember
    /\ r.op = "createTeamSubscription" => r.team \in OwnTeams
    /\ TargetOf(r) \in r.locks
    /\ TargetOf(r) \in bypassed \/ ~Effective(TargetOf(r))
    /\ Len(rows[TargetOf(r)]) < MaxUserRows + MaxTeamRows

(* What a join decided: the user is in no team and, unless one of its rows *)
(* is converted, has no effective row.                                     *)
JoinOk(r) ==
    /\ r.user \in OwnUsers /\ r.team \in OwnTeams
    /\ r.user \in r.locks /\ member[r.user] = NoMember
    /\ r.op # "convert" => r.user \in bypassed \/ ~Effective(r.user)
    /\ r.op = "convert" => r.id \in DOMAIN rows[r.user]

MemberOk(r) ==
    /\ r.op \in {"transfer", "promote", "demote", "delete"} => r.user \in OwnUsers
    /\ r.op \in {"transfer", "promote"} => r.team \in OwnTeams
    /\ r.op \in {"demote", "delete"} => r.id > 0

RequestOk(r) ==
    /\ r.op \in Creates => CreateOk(r)
    /\ r.op \in Joins => JoinOk(r)
    /\ MemberOk(r)

Decided == \A p \in OwnProcs : RequestOk(owned[p])

MembersFit == memberIds + Cardinality(Joining) <= MaxMembers

RowsFit == \A o \in Owners : Len(rows[o]) <= MaxUserRows + MaxTeamRows

AtMostOne ==
    \A o \in Owners \ bypassed : \A i, j \in DOMAIN rows[o] :
        rows[o][i] = "effective" /\ rows[o][j] = "effective" => i = j

OwnInv ==
    /\ OwnTyped /\ RowsWhole /\ KeysExclude /\ Decided /\ MembersFit
    /\ RowsFit /\ AtMostOne /\ MemberHasNoPersonal /\ OwnerRowAgrees

(* The request records the deciding halves of the handlers write.          *)
LEMMA NoRequestTyped ==
  NoRequest \in Requests /\ NoRequest.op = "idle" /\ NoRequest.locks = {}
  BY OwnAssumption DEF NoRequest, Requests

(* The requests about to write a membership row are finitely many.         *)
LEMMA JoiningFinite ==
  /\ IsFiniteSet(Joining) /\ Cardinality(Joining) \in Nat
  /\ IsFiniteSet(Joining') /\ Cardinality(Joining') \in Nat
  <1>1. Joining \in SUBSET OwnProcs /\ Joining' \in SUBSET OwnProcs
    BY DEF Joining
  <1> QED
    BY ONLY <1>1, OwnAssumption, FS_Subset, FS_CardinalityType

(* The initial state satisfies the invariant. *)
LEMMA OwnInitInv ==
  ASSUME OwnInit
  PROVE  OwnInv
  <1> USE OwnAssumption, NoRequestTyped DEF OwnInit
  <1>1. OwnTyped
    BY DEF OwnTyped, NoMember, Owners
  <1>2. RowsWhole /\ KeysExclude /\ OwnerRowAgrees /\ MemberHasNoPersonal
    BY DEF RowsWhole, KeysExclude, OwnerRowAgrees, MemberHasNoPersonal, NoMember, NoRequest
  <1>3. Decided
    BY DEF Decided, RequestOk, Creates, Joins, MemberOk
  <1>4. MembersFit
    <2>1. Joining = {}
      BY DEF Joining, Joins
    <2> QED
      BY <2>1, FS_EmptySet DEF MembersFit
  <1>5. RowsFit /\ AtMostOne
    BY DEF RowsFit, AtMostOne
  <1> QED
    BY <1>1, <1>2, <1>3, <1>4, <1>5 DEF OwnInv

(* A request enters: its keys are free, and what it decided on holds.      *)
LEMMA DecideKeeps ==
  ASSUME OwnInv, NEW p \in OwnProcs, NEW r \in Requests, Decide(p, r),
         RequestOk(r), r.op \in Joins => RoomForMember
  PROVE  OwnInv'
  <1> USE OwnAssumption, NoRequestTyped DEF OwnInv, Decide
  <1>1. OwnTyped'
    BY DEF OwnTyped
  <1>2. RowsWhole' /\ RowsFit' /\ AtMostOne' /\ MemberHasNoPersonal' /\ OwnerRowAgrees'
    BY DEF RowsWhole, RowsFit, AtMostOne, MemberHasNoPersonal, OwnerRowAgrees, Effective
  <1>3. KeysExclude'
    BY DEF KeysExclude, OwnTyped
  <1>4. Decided'
    <2>1. \A q \in OwnProcs : owned'[q] = IF q = p THEN r ELSE owned[q]
      BY DEF OwnTyped
    <2>2. \A q \in OwnProcs : RequestOk(owned'[q])
      BY <2>1 DEF Decided
    <2> QED
      BY <2>2 DEF Decided, RequestOk, CreateOk, JoinOk, MemberOk, Effective
  <1>5. MembersFit'
    <2>1. CASE r.op \in Joins
      <3>1. Joining' = Joining \cup {p}
        BY <2>1 DEF Joining, OwnTyped
      <3>2. Cardinality(Joining') = IF p \in Joining THEN Cardinality(Joining) ELSE Cardinality(Joining) + 1
        BY <3>1, JoiningFinite, FS_AddElement
      <3>3. memberIds + Cardinality(Joining) < MaxMembers
        BY <2>1 DEF RoomForMember, Joining
      <3> QED
        BY <3>2, <3>3, JoiningFinite DEF MembersFit, OwnTyped
    <2>2. CASE r.op \notin Joins
      <3>1. Joining' \in SUBSET Joining
        BY <2>2 DEF Joining, OwnTyped
      <3>2. Cardinality(Joining') <= Cardinality(Joining)
        BY <3>1, JoiningFinite, FS_Subset
      <3> QED
        BY <3>2, JoiningFinite DEF MembersFit, OwnTyped
    <2> QED
      BY <2>1, <2>2
  <1> QED
    BY <1>1, <1>2, <1>3, <1>4, <1>5

(* The deciding half of every handler keeps the invariant: what it checks  *)
(* before it enters is what its write relies on.                           *)
LEMMA DecidingKeeps ==
  ASSUME OwnInv, NEW p \in OwnProcs,
         \/ \E u \in OwnUsers :
              \/ CreateSubscription(p, u) \/ PromoteMember(p, u)
              \/ DemoteMember(p, u) \/ DeleteTeamMember(p, u)
              \/ \E t \in OwnTeams :
                   \/ CreateTeam(p, u, t) \/ CreateTeamMember(p, u, t) \/ TransferTeam(p, t, u)
                   \/ \E i \in DOMAIN rows[u] : ConvertToTeam(p, u, t, i)
         \/ \E t \in OwnTeams : CreateTeamSubscription(p, t)
  PROVE  OwnInv'
  <1> USE OwnAssumption DEF OwnInv, NoRequest
  <1>1. ASSUME NEW u \in OwnUsers, CreateSubscription(p, u)
        PROVE  OwnInv'
    <2> DEFINE r == [NoRequest EXCEPT !.op = "createSubscription", !.user = u, !.locks = {u}]
    <2>1. r \in Requests /\ Decide(p, r) /\ r.op = "createSubscription" /\ r.user = u /\ r.locks = {u}
      BY <1>1 DEF CreateSubscription, Requests, Owners
    <2> HIDE DEF r
    <2>2. TargetOf(r) = u
      BY <2>1 DEF TargetOf
    <2>3. Len(rows[u]) < MaxUserRows + MaxTeamRows
      <3>1. Len(rows[u]) \in Nat
        BY DEF OwnTyped, Owners
      <3>2. Len(rows[u]) < MaxUserRows /\ MaxUserRows \in Nat /\ MaxTeamRows \in Nat
        BY <1>1 DEF CreateSubscription
      <3> QED
        BY ONLY <3>1, <3>2
    <2>4. RequestOk(r) /\ r.op \notin Joins
      BY <1>1, <2>1, <2>2, <2>3 DEF CreateSubscription, RequestOk, Creates, CreateOk, Joins, MemberOk
    <2> QED
      BY <2>1, <2>4, DecideKeeps
  <1>2. ASSUME NEW t \in OwnTeams, CreateTeamSubscription(p, t)
        PROVE  OwnInv'
    <2> DEFINE r == [NoRequest EXCEPT !.op = "createTeamSubscription", !.team = t, !.locks = {t}]
    <2>1. r \in Requests /\ Decide(p, r) /\ r.op = "createTeamSubscription" /\ r.team = t /\ r.locks = {t}
      BY <1>2 DEF CreateTeamSubscription, Requests, Owners
    <2> HIDE DEF r
    <2>2. TargetOf(r) = t
      BY <2>1 DEF TargetOf
    <2>3. Len(rows[t]) < MaxUserRows + MaxTeamRows
      <3>1. Len(rows[t]) \in Nat
        BY DEF OwnTyped, Owners
      <3>2. Len(rows[t]) < MaxTeamRows /\ MaxUserRows \in Nat /\ MaxTeamRows \in Nat
        BY <1>2 DEF CreateTeamSubscription
      <3> QED
        BY ONLY <3>1, <3>2
    <2>4. RequestOk(r) /\ r.op \notin Joins
      BY <1>2, <2>1, <2>2, <2>3 DEF CreateTeamSubscription, RequestOk, Creates, CreateOk, Joins, MemberOk
    <2> QED
      BY <2>1, <2>4, DecideKeeps
  <1>3. ASSUME NEW u \in OwnUsers, NEW t \in OwnTeams, CreateTeam(p, u, t)
        PROVE  OwnInv'
    <2> DEFINE r == [NoRequest EXCEPT !.op = "createTeam", !.user = u, !.team = t, !.locks = {u}]
    <2>1. r \in Requests /\ Decide(p, r) /\ r.op = "createTeam" /\ r.user = u /\ r.team = t /\ r.locks = {u}
      BY <1>3 DEF CreateTeam, Requests, Owners
    <2>2. RequestOk(r) /\ RoomForMember
      BY <1>3, <2>1 DEF CreateTeam, CanJoinTeam, RequestOk, Creates, JoinOk, Joins, MemberOk
    <2> QED
      BY <2>1, <2>2, DecideKeeps
  <1>4. ASSUME NEW u \in OwnUsers, NEW t \in OwnTeams, CreateTeamMember(p, u, t)
        PROVE  OwnInv'
    <2> DEFINE r == [NoRequest EXCEPT !.op = "createTeamMember", !.user = u, !.team = t, !.locks = {u}]
    <2>1. r \in Requests /\ Decide(p, r) /\ r.op = "createTeamMember" /\ r.user = u /\ r.team = t /\ r.locks = {u}
      BY <1>4 DEF CreateTeamMember, Requests, Owners
    <2>2. RequestOk(r) /\ RoomForMember
      BY <1>4, <2>1 DEF CreateTeamMember, CanJoinTeam, RequestOk, Creates, JoinOk, Joins, MemberOk
    <2> QED
      BY <2>1, <2>2, DecideKeeps
  <1>5. ASSUME NEW u \in OwnUsers, NEW t \in OwnTeams, NEW i \in DOMAIN rows[u], ConvertToTeam(p, u, t, i)
        PROVE  OwnInv'
    <2> DEFINE r == [op |-> "convert", user |-> u, team |-> t, id |-> i, locks |-> {u}]
    <2>1. i \in Nat
      BY DEF OwnTyped, Owners
    <2>2. r \in Requests /\ Decide(p, r)
      BY <1>5, <2>1 DEF ConvertToTeam, Requests, Owners
    <2>3. RequestOk(r) /\ RoomForMember
      BY <1>5, <2>2 DEF ConvertToTeam, RequestOk, Creates, JoinOk, Joins, MemberOk
    <2> QED
      BY <2>2, <2>3, DecideKeeps
  <1>6. ASSUME NEW u \in OwnUsers, NEW t \in OwnTeams, TransferTeam(p, t, u)
        PROVE  OwnInv'
    <2> DEFINE r == [NoRequest EXCEPT !.op = "transfer", !.user = u, !.team = t, !.locks = {t, u}]
    <2>1. r \in Requests /\ Decide(p, r) /\ r.op = "transfer" /\ r.user = u /\ r.team = t
      BY <1>6 DEF TransferTeam, Requests, Owners
    <2>2. RequestOk(r) /\ r.op \notin Joins
      BY <2>1 DEF RequestOk, Creates, Joins, MemberOk
    <2> QED
      BY <2>1, <2>2, DecideKeeps
  <1>7. ASSUME NEW u \in OwnUsers, PromoteMember(p, u)
        PROVE  OwnInv'
    <2>1. member[u].team \in OwnTeams /\ member[u].id \in Nat
      BY <1>7 DEF PromoteMember, RowsWhole, OwnTyped
    <2>2. PICK keys \in {{member[u].team}, {}} :
            Decide(p, [op |-> "promote", user |-> u, team |-> member[u].team,
                       id |-> member[u].id, locks |-> keys])
      BY <1>7, Zenon DEF PromoteMember
    <2> DEFINE r == [op |-> "promote", user |-> u, team |-> member[u].team,
                     id |-> member[u].id, locks |-> keys]
    <2>3. r \in Requests /\ Decide(p, r)
      BY <2>1, <2>2 DEF Requests, Owners
    <2>4. RequestOk(r) /\ r.op \notin Joins
      BY <2>1 DEF RequestOk, Creates, Joins, MemberOk
    <2> QED
      BY <2>3, <2>4, DecideKeeps
  <1>8. ASSUME NEW u \in OwnUsers, DemoteMember(p, u) \/ DeleteTeamMember(p, u)
        PROVE  OwnInv'
    <2>1. member[u].team \in OwnTeams /\ member[u].id \in Nat /\ member[u].id > 0
      BY <1>8 DEF DemoteMember, DeleteTeamMember, RowsWhole, OwnTyped, NoMember
    <2>2. PICK op \in {"demote", "delete"} :
            Decide(p, [op |-> op, user |-> u, team |-> member[u].team, id |-> member[u].id, locks |-> {}])
      BY <1>8 DEF DemoteMember, DeleteTeamMember
    <2> DEFINE r == [op |-> op, user |-> u, team |-> member[u].team, id |-> member[u].id, locks |-> {}]
    <2>3. r \in Requests /\ Decide(p, r)
      BY <2>1, <2>2 DEF Requests, Owners
    <2>4. RequestOk(r) /\ r.op \notin Joins
      BY <2>1 DEF RequestOk, Creates, Joins, MemberOk
    <2> QED
      BY <2>3, <2>4, DecideKeeps
  <1> QED
    BY <1>1, <1>2, <1>3, <1>4, <1>5, <1>6, <1>7, <1>8, Zenon

(* A request that ends gives its keys back and no longer counts.           *)
LEMMA EndRequestFrees ==
  ASSUME OwnInv, NEW p \in OwnProcs, EndRequest(p)
  PROVE  /\ owned' \in [OwnProcs -> Requests] /\ KeysExclude'
         /\ owned'[p] = NoRequest /\ \A q \in OwnProcs \ {p} : owned'[q] = owned[q]
         /\ Cardinality(Joining') =
              IF owned[p].op \in Joins THEN Cardinality(Joining) - 1 ELSE Cardinality(Joining)
  <1> USE NoRequestTyped DEF OwnInv, EndRequest
  <1>1. /\ owned' \in [OwnProcs -> Requests] /\ KeysExclude'
        /\ owned'[p] = NoRequest /\ \A q \in OwnProcs \ {p} : owned'[q] = owned[q]
    BY DEF OwnTyped, KeysExclude
  <1>2. Joining' = Joining \ {p}
    BY <1>1 DEF Joining, Joins
  <1>3. p \in Joining <=> owned[p].op \in Joins
    BY DEF Joining
  <1> QED
    BY <1>1, <1>2, <1>3, JoiningFinite, FS_RemoveElement

(* A write that is refused changes nothing and ends the request.           *)
LEMMA FailWriteKeeps ==
  ASSUME OwnInv, NEW p \in OwnProcs, FailWrite(p)
  PROVE  OwnInv'
  <1> USE NoRequestTyped DEF OwnInv, FailWrite
  <1>0. /\ owned' \in [OwnProcs -> Requests] /\ KeysExclude'
        /\ \A q \in OwnProcs : owned'[q] = NoRequest \/ owned'[q] = owned[q]
        /\ Cardinality(Joining') <= Cardinality(Joining)
    BY EndRequestFrees, JoiningFinite
  <1>1. OwnTyped' /\ RowsWhole' /\ RowsFit' /\ AtMostOne' /\ MemberHasNoPersonal' /\ OwnerRowAgrees'
    BY <1>0 DEF OwnTyped, RowsWhole, RowsFit, AtMostOne, MemberHasNoPersonal, OwnerRowAgrees, Effective
  <1>2. Decided'
    <2>1. \A q \in OwnProcs : RequestOk(owned'[q])
      BY <1>0 DEF Decided, RequestOk, Creates, Joins, MemberOk
    <2> QED
      BY <2>1 DEF Decided, RequestOk, CreateOk, JoinOk, MemberOk, Effective
  <1>3. MembersFit'
    BY <1>0, JoiningFinite, OwnAssumption DEF MembersFit, OwnTyped
  <1> QED
    BY <1>0, <1>1, <1>2, <1>3

(* createSubscription and createTeamSubscription add their row: the owner  *)
(* still has no effective one, unless an ended row was brought back.       *)
LEMMA WriteSubscriptionKeeps ==
  ASSUME OwnInv, NEW p \in OwnProcs, WriteSubscription(p)
  PROVE  OwnInv'
  <1> DEFINE o == TargetOf(owned[p])
  <1> USE OwnAssumption DEF OwnInv
  <1>0. /\ owned' \in [OwnProcs -> Requests] /\ KeysExclude' /\ owned'[p] = NoRequest
        /\ \A q \in OwnProcs \ {p} : owned'[q] = owned[q]
        /\ Cardinality(Joining') = Cardinality(Joining)
    BY EndRequestFrees DEF WriteSubscription, Joins
  <1>1. PICK state \in {"effective", "ended"} : rows' = [rows EXCEPT ![o] = Append(@, state)]
    BY DEF WriteSubscription, TargetOf
  <1>2. owned[p].op \in Creates /\ UNCHANGED <<account, team, member, memberIds, bypassed, statusWrites>>
    BY DEF WriteSubscription, Creates
  <1>3. /\ CreateOk(owned[p]) /\ o \in Owners
        /\ o \in OwnUsers => member[o] = NoMember
    BY <1>2 DEF Decided, RequestOk, Creates, CreateOk, TargetOf, Owners
  <1>4. /\ \A x \in Owners \ {o} : rows'[x] = rows[x]
        /\ rows'[o] = Append(rows[o], state)
        /\ Len(rows'[o]) = Len(rows[o]) + 1 /\ DOMAIN rows'[o] = 1..(Len(rows[o]) + 1)
        /\ \A i \in 1..Len(rows[o]) : rows'[o][i] = rows[o][i]
        /\ rows'[o][Len(rows[o]) + 1] = state
        /\ Len(rows[o]) \in Nat /\ DOMAIN rows[o] = 1..Len(rows[o])
    BY <1>1, <1>3 DEF OwnTyped
  <1>5. o \in bypassed \/ ~Effective(o)
    BY <1>3 DEF CreateOk
  <1>6. Len(rows[o]) < MaxUserRows + MaxTeamRows
    BY <1>3 DEF CreateOk
  <1> HIDE DEF o
  <1>7. OwnTyped'
    <2>1. rows' \in [Owners -> Seq({"effective", "ended"})]
      BY <1>1, <1>3 DEF OwnTyped
    <2> QED
      BY <1>0, <1>2, <2>1 DEF OwnTyped
  <1>8. RowsWhole' /\ OwnerRowAgrees' /\ MembersFit'
    BY <1>0, <1>2 DEF RowsWhole, OwnerRowAgrees, MembersFit
  <1>9. RowsFit'
    BY <1>4, <1>6 DEF RowsFit
  <1>10. AtMostOne'
    <2> SUFFICES ASSUME NEW x \in Owners \ bypassed, NEW i \in DOMAIN rows'[x], NEW j \in DOMAIN rows'[x],
                        rows'[x][i] = "effective", rows'[x][j] = "effective"
                 PROVE  i = j
      BY <1>2 DEF AtMostOne
    <2>1. CASE x # o
      BY <1>4, <2>1 DEF AtMostOne
    <2>2. CASE x = o
      <3>1. \A k \in 1..Len(rows[o]) : rows'[o][k] # "effective"
        BY <1>4, <1>5, <2>2 DEF Effective
      <3>2. /\ i \in 1..(Len(rows[o]) + 1) /\ j \in 1..(Len(rows[o]) + 1) /\ Len(rows[o]) \in Nat
            /\ i \notin 1..Len(rows[o]) /\ j \notin 1..Len(rows[o])
        BY <1>4, <2>2, <3>1
      <3> QED
        BY ONLY <3>2
    <2> QED
      BY <2>1, <2>2
  <1>11. MemberHasNoPersonal'
    BY <1>2, <1>3, <1>4 DEF MemberHasNoPersonal, Effective, Owners
  <1>12. Decided'
    <2> SUFFICES ASSUME NEW q \in OwnProcs PROVE RequestOk(owned[q])'
      BY DEF Decided
    <2>1. CASE q = p
      BY <1>0, <2>1, NoRequestTyped DEF RequestOk, Creates, Joins, MemberOk
    <2>2. CASE q # p
      <3>1. owned'[q] = owned[q] /\ RequestOk(owned[q]) /\ o \notin owned[q].locks
        BY <1>0, <1>3, <2>2 DEF Decided, KeysExclude, CreateOk, o
      <3>2. owned[q].op \in Creates =>
              /\ TargetOf(owned[q]) \in Owners \ {o}
              /\ rows'[TargetOf(owned[q])] = rows[TargetOf(owned[q])]
        BY <1>4, <3>1 DEF RequestOk, CreateOk, Creates, TargetOf, Owners
      <3>3. owned[q].op \in Joins => rows'[owned[q].user] = rows[owned[q].user]
        BY <1>4, <3>1 DEF RequestOk, JoinOk, Owners
      <3>4. owned[q].op \in Creates => CreateOk(owned[q])'
        BY <1>2, <3>1, <3>2 DEF RequestOk, CreateOk, TargetOf, Effective
      <3>5. owned[q].op \in Joins => JoinOk(owned[q])'
        BY <1>2, <3>1, <3>3 DEF RequestOk, JoinOk, Effective
      <3> QED
        BY <3>1, <3>4, <3>5 DEF RequestOk, MemberOk
    <2> QED
      BY <2>1, <2>2
  <1> QED
    BY <1>0, <1>7, <1>8, <1>9, <1>10, <1>11, <1>12

(* A join writes the membership row it decided on: nobody else could write *)
(* one for the user, or give the user an effective subscription, while the *)
(* user's key was held.                                                    *)
LEMMA WriteJoinKeeps ==
  ASSUME OwnInv, NEW p \in OwnProcs, WriteJoin(p)
  PROVE  OwnInv'
  <1> DEFINE u == owned[p].user
             t == owned[p].team
  <1> USE OwnAssumption DEF OwnInv
  <1>1. CASE FailWrite(p)
    BY <1>1, FailWriteKeeps
  <1>2. CASE ~FailWrite(p)
    <2>1. /\ owned[p].op \in Joins /\ EndRequest(p) /\ UNCHANGED <<account, statusWrites>>
          /\ NewMember(p, IF owned[p].op = "createTeam" THEN "owner" ELSE "member")
          /\ owned[p].op = "createTeam" => ~TeamExists(t)
          /\ team' = IF owned[p].op = "createTeam" THEN [team EXCEPT ![t].owner = u] ELSE team
          /\ owned[p].op # "convert" => UNCHANGED <<rows, bypassed>>
          /\ owned[p].op = "convert" =>
               /\ rows' = [rows EXCEPT ![u][owned[p].id] = "ended"]
               /\ bypassed' = IF \E i \in DOMAIN rows'[u] : rows'[u][i] = "effective"
                              THEN bypassed \cup {u} ELSE bypassed
      BY <1>2 DEF WriteJoin
    <2>2. JoinOk(owned[p])
      BY <2>1 DEF Decided, RequestOk
    <2>3. u \in OwnUsers /\ t \in OwnTeams /\ u \in owned[p].locks /\ u \in Owners
      BY <2>2 DEF JoinOk, Owners
    <2>4. /\ owned' \in [OwnProcs -> Requests] /\ KeysExclude' /\ owned'[p] = NoRequest
          /\ \A q \in OwnProcs \ {p} : owned'[q] = owned[q]
          /\ Cardinality(Joining') = Cardinality(Joining) - 1
      BY <2>1, EndRequestFrees
    <2>5. memberIds' = memberIds + 1 /\ memberIds \in Nat /\ memberIds + 1 \in 0..MaxMembers
      BY <2>1, <2>4, JoiningFinite DEF NewMember, MembersFit, OwnTyped
    <2>6. PICK role \in {"member", "owner"} :
            /\ member' = [member EXCEPT ![u] = [team |-> t, role |-> role, id |-> memberIds + 1]]
            /\ role = "owner" <=> owned[p].op = "createTeam"
      BY <2>1 DEF NewMember
    <2>7. /\ \A v \in OwnUsers \ {u} : member'[v] = member[v]
          /\ member'[u].team = t /\ member'[u].role = role /\ member'[u].id = memberIds + 1
      BY <2>3, <2>6 DEF OwnTyped
    <2>8. /\ \A x \in Owners \ {u} : rows'[x] = rows[x]
          /\ rows' \in [Owners -> Seq({"effective", "ended"})]
          /\ DOMAIN rows'[u] = DOMAIN rows[u] /\ Len(rows'[u]) = Len(rows[u])
          /\ \A i \in DOMAIN rows'[u] : rows'[u][i] = "effective" => rows[u][i] = "effective"
      <3>1. CASE owned[p].op = "convert"
        <4>1. owned[p].id \in DOMAIN rows[u]
          BY <2>2, <3>1 DEF JoinOk
        <4>2. rows[u] \in Seq({"effective", "ended"})
          BY <2>3 DEF OwnTyped
        <4>3. rows' = [rows EXCEPT ![u] = [rows[u] EXCEPT ![owned[p].id] = "ended"]]
          BY <2>1, <3>1
        <4>4. [rows[u] EXCEPT ![owned[p].id] = "ended"] \in Seq({"effective", "ended"})
          BY <4>1, <4>2
        <4> QED
          BY <2>3, <4>1, <4>2, <4>3, <4>4 DEF OwnTyped
      <3>2. CASE owned[p].op # "convert"
        BY <2>1, <2>3, <3>2 DEF OwnTyped
      <3> QED
        BY <3>1, <3>2
    <2>9. /\ bypassed \subseteq bypassed' /\ bypassed' \subseteq bypassed \cup {u}
          /\ u \in bypassed' \/ \A i \in DOMAIN rows'[u] : rows'[u][i] # "effective"
      <3>1. CASE owned[p].op = "convert"
        BY <2>1, <3>1
      <3>2. CASE owned[p].op # "convert"
        BY <2>1, <2>2, <2>8, <3>2 DEF JoinOk, Effective
      <3> QED
        BY <3>1, <3>2
    <2> HIDE DEF u, t
    <2>10. OwnTyped'
      <3>1. team' \in [OwnTeams -> [owner : OwnUsers \cup {NoUser}, status : {"active", "disabled"}]]
        BY <2>1, <2>3 DEF OwnTyped
      <3>2. member' \in [OwnUsers -> [team : OwnTeams \cup {NoTeam}, role : {"none", "member", "owner"},
                                      id : 0..MaxMembers]]
        BY <2>3, <2>5, <2>6 DEF OwnTyped
      <3> QED
        BY <2>1, <2>3, <2>4, <2>5, <2>8, <2>9, <3>1, <3>2 DEF OwnTyped
    <2>11. RowsWhole' /\ MemberHasNoPersonal'
      <3>1. RowsWhole'
        BY <2>3, <2>5, <2>7 DEF RowsWhole
      <3>2. MemberHasNoPersonal'
        BY <2>3, <2>7, <2>8, <2>9 DEF MemberHasNoPersonal, Effective, Owners
      <3> QED
        BY <3>1, <3>2
    <2>12. OwnerRowAgrees'
      <3> SUFFICES ASSUME NEW v \in OwnUsers, member'[v].role = "owner"
                   PROVE  team'[member'[v].team].owner = v
        BY DEF OwnerRowAgrees
      <3>1. CASE v = u
        BY <2>1, <2>3, <2>6, <2>7, <3>1 DEF OwnTyped
      <3>2. CASE v # u
        <4>1. team[member[v].team].owner = v /\ member'[v] = member[v] /\ member[v].team \in OwnTeams
          BY <2>7, <3>2 DEF OwnerRowAgrees, RowsWhole, NoMember
        <4>2. owned[p].op = "createTeam" => member[v].team # t
          BY <2>1, <4>1 DEF TeamExists, t
        <4> QED
          BY <2>1, <2>3, <4>1, <4>2 DEF OwnTyped
      <3> QED
        BY <3>1, <3>2
    <2>13. MembersFit' /\ RowsFit'
      <3>1. MembersFit'
        BY <2>4, <2>5, JoiningFinite DEF MembersFit
      <3>2. RowsFit'
        BY <2>3, <2>8 DEF RowsFit
      <3> QED
        BY <3>1, <3>2
    <2>14. AtMostOne'
      BY <2>8, <2>9 DEF AtMostOne
    <2>15. Decided'
      <3> SUFFICES ASSUME NEW q \in OwnProcs PROVE RequestOk(owned[q])'
        BY DEF Decided
      <3>1. CASE q = p
        BY <2>4, <3>1, NoRequestTyped DEF RequestOk, Creates, Joins, MemberOk
      <3>2. CASE q # p
        <4>1. owned'[q] = owned[q] /\ RequestOk(owned[q]) /\ u \notin owned[q].locks
          BY <2>3, <2>4, <3>2 DEF Decided, KeysExclude
        <4>2. owned[q].op \in Creates =>
                /\ TargetOf(owned[q]) \in Owners \ {u}
                /\ rows'[TargetOf(owned[q])] = rows[TargetOf(owned[q])]
          BY <2>8, <4>1 DEF RequestOk, CreateOk, Creates, TargetOf, Owners
        <4>3. owned[q].op = "createSubscription" => member'[owned[q].user] = member[owned[q].user]
          BY <2>7, <4>1 DEF RequestOk, CreateOk, Creates, TargetOf
        <4>4. owned[q].op \in Joins =>
                /\ rows'[owned[q].user] = rows[owned[q].user]
                /\ member'[owned[q].user] = member[owned[q].user]
          BY <2>7, <2>8, <4>1 DEF RequestOk, JoinOk, Owners
        <4>5. owned[q].op \in Creates => CreateOk(owned[q])'
          BY <2>9, <4>1, <4>2, <4>3 DEF RequestOk, CreateOk, TargetOf, Effective
        <4>6. owned[q].op \in Joins => JoinOk(owned[q])'
          BY <2>9, <4>1, <4>4 DEF RequestOk, JoinOk, Effective
        <4> QED
          BY <4>1, <4>5, <4>6 DEF RequestOk, MemberOk
      <3> QED
        BY <3>1, <3>2
    <2> QED
      BY <2>4, <2>10, <2>11, <2>12, <2>13, <2>14, <2>15
  <1> QED
    BY <1>1, <1>2

(* A transfer or a promotion makes one row of the team its owner row, and  *)
(* every other an ordinary one.                                            *)
LEMMA WriteOwnerKeeps ==
  ASSUME OwnInv, NEW p \in OwnProcs, WriteOwner(p)
  PROVE  OwnInv'
  <1> DEFINE u == owned[p].user
             t == owned[p].team
  <1> USE OwnAssumption DEF OwnInv
  <1>1. CASE FailWrite(p)
    BY <1>1, FailWriteKeeps
  <1>2. CASE ~FailWrite(p)
    <2>1. /\ owned[p].op \in {"transfer", "promote"} /\ EndRequest(p)
          /\ member[u].team = t /\ member' = OwnerRoles(t, u) /\ team' = [team EXCEPT ![t].owner = u]
          /\ UNCHANGED <<account, memberIds, rows, bypassed, statusWrites>>
      BY <1>2 DEF WriteOwner
    <2>2. u \in OwnUsers /\ t \in OwnTeams
      BY <2>1 DEF Decided, RequestOk, MemberOk
    <2>3. /\ owned' \in [OwnProcs -> Requests] /\ KeysExclude' /\ owned'[p] = NoRequest
          /\ \A q \in OwnProcs \ {p} : owned'[q] = owned[q]
          /\ Cardinality(Joining') = Cardinality(Joining)
      BY <2>1, EndRequestFrees DEF Joins
    <2> HIDE DEF u, t
    <2>4. /\ \A v \in OwnUsers : member[v].team # t => member'[v] = member[v]
          /\ \A v \in OwnUsers : member[v].team = t =>
               /\ member'[v].team = t /\ member'[v].id = member[v].id
               /\ member'[v].role = IF v = u THEN "owner" ELSE "member"
               /\ member[v] # NoMember /\ member'[v] # NoMember
          /\ member' \in [OwnUsers -> [team : OwnTeams \cup {NoTeam}, role : {"none", "member", "owner"},
                                       id : 0..MaxMembers]]
      <3>1. \A v \in OwnUsers :
              /\ member[v] \in [team : OwnTeams \cup {NoTeam}, role : {"none", "member", "owner"}, id : 0..MaxMembers]
              /\ member'[v] = IF member[v].team # t THEN member[v]
                              ELSE [member[v] EXCEPT !.role = IF v = u THEN "owner" ELSE "member"]
        BY <2>1 DEF OwnerRoles, OwnTyped
      <3>2. DOMAIN member' = OwnUsers /\ member' = [v \in OwnUsers |-> member'[v]]
        BY <2>1 DEF OwnerRoles
      <3>3. \A v \in OwnUsers : member[v].team # t => member'[v] = member[v]
        BY <3>1
      <3>4. ASSUME NEW v \in OwnUsers, member[v].team = t
            PROVE  /\ member'[v].team = t /\ member'[v].id = member[v].id
                   /\ member'[v].role = IF v = u THEN "owner" ELSE "member"
                   /\ member[v] # NoMember /\ member'[v] # NoMember
                   /\ member'[v] \in [team : OwnTeams \cup {NoTeam}, role : {"none", "member", "owner"}, id : 0..MaxMembers]
        <4> DEFINE R == IF v = u THEN "owner" ELSE "member"
        <4>1. R \in {"member", "owner"}
          OBVIOUS
        <4>2. member'[v] = [member[v] EXCEPT !.role = R]
          BY <3>1, <3>4
        <4> HIDE DEF R
        <4>3. /\ member'[v].team = member[v].team /\ member'[v].id = member[v].id /\ member'[v].role = R
              /\ member'[v] \in [team : OwnTeams \cup {NoTeam}, role : {"none", "member", "owner"}, id : 0..MaxMembers]
          BY <3>1, <4>1, <4>2
        <4>4. member[v] # NoMember /\ member'[v] # NoMember
          BY <2>2, <3>4, <4>3 DEF NoMember
        <4> QED
          BY <3>4, <4>3, <4>4 DEF R
      <3> QED
        BY <3>1, <3>2, <3>3, <3>4
    <2>5. OwnTyped'
      <3>1. team' \in [OwnTeams -> [owner : OwnUsers \cup {NoUser}, status : {"active", "disabled"}]]
        BY <2>1, <2>2 DEF OwnTyped
      <3> QED
        BY <2>1, <2>3, <2>4, <3>1 DEF OwnTyped
    <2>6. RowsWhole'
      BY <2>2, <2>4 DEF RowsWhole
    <2>7. MemberHasNoPersonal' /\ RowsFit' /\ AtMostOne' /\ MembersFit'
      BY <2>1, <2>3, <2>4 DEF MemberHasNoPersonal, RowsFit, AtMostOne, MembersFit, Effective
    <2>8. OwnerRowAgrees'
      BY <2>1, <2>2, <2>4 DEF OwnerRowAgrees, RowsWhole, OwnTyped, NoMember
    <2>9. Decided'
      <3> SUFFICES ASSUME NEW q \in OwnProcs PROVE RequestOk(owned[q])'
        BY DEF Decided
      <3>1. CASE q = p
        BY <2>3, <3>1, NoRequestTyped DEF RequestOk, Creates, Joins, MemberOk
      <3>2. CASE q # p
        <4>1. owned'[q] = owned[q] /\ RequestOk(owned[q])
          BY <2>3, <3>2 DEF Decided
        <4>2. \A v \in OwnUsers : member[v] = NoMember => member'[v] = NoMember
          BY <2>4
        <4> QED
          BY <2>1, <4>1, <4>2 DEF RequestOk, CreateOk, JoinOk, MemberOk, TargetOf, Creates, Effective
      <3> QED
        BY <3>1, <3>2
    <2> QED
      BY <2>3, <2>5, <2>6, <2>7, <2>8, <2>9
  <1> QED
    BY <1>1, <1>2

(* A demotion or a removal touches one membership row, by its id. *)
LEMMA WriteMemberKeeps ==
  ASSUME OwnInv, NEW p \in OwnProcs, WriteMember(p)
  PROVE  OwnInv'
  <1> DEFINE u == owned[p].user
  <1> USE OwnAssumption DEF OwnInv
  <1>1. CASE FailWrite(p)
    BY <1>1, FailWriteKeeps
  <1>2. CASE ~FailWrite(p)
    <2>1. /\ owned[p].op \in {"demote", "delete"} /\ EndRequest(p) /\ member[u].id = owned[p].id
          /\ member' = [member EXCEPT ![u] =
               IF owned[p].op = "delete" THEN NoMember ELSE [@ EXCEPT !.role = "member"]]
          /\ UNCHANGED <<account, team, memberIds, rows, bypassed, statusWrites>>
      BY <1>2 DEF WriteMember
    <2>2. u \in OwnUsers /\ member[u] # NoMember
      BY <2>1 DEF Decided, RequestOk, MemberOk, NoMember
    <2>3. /\ owned' \in [OwnProcs -> Requests] /\ KeysExclude' /\ owned'[p] = NoRequest
          /\ \A q \in OwnProcs \ {p} : owned'[q] = owned[q]
          /\ Cardinality(Joining') = Cardinality(Joining)
      BY <2>1, EndRequestFrees DEF Joins
    <2> HIDE DEF u
    <2>4. /\ \A v \in OwnUsers \ {u} : member'[v] = member[v]
          /\ \/ member'[u] = NoMember
             \/ /\ member'[u].team = member[u].team /\ member'[u].id = member[u].id
                /\ member'[u].role = "member"
          /\ member' \in [OwnUsers -> [team : OwnTeams \cup {NoTeam}, role : {"none", "member", "owner"},
                                       id : 0..MaxMembers]]
      <3>1. /\ member[u] \in [team : OwnTeams \cup {NoTeam}, role : {"none", "member", "owner"}, id : 0..MaxMembers]
            /\ NoMember \in [team : OwnTeams \cup {NoTeam}, role : {"none", "member", "owner"}, id : 0..MaxMembers]
        BY <2>2 DEF OwnTyped, NoMember
      <3>2. PICK m : member' = [member EXCEPT ![u] = m] /\ m \in {NoMember, [member[u] EXCEPT !.role = "member"]}
        BY <2>1
      <3>3. /\ m \in [team : OwnTeams \cup {NoTeam}, role : {"none", "member", "owner"}, id : 0..MaxMembers]
            /\ m = NoMember \/ (m.team = member[u].team /\ m.id = member[u].id /\ m.role = "member")
        BY <3>1, <3>2
      <3> QED
        BY <2>2, <3>2, <3>3 DEF OwnTyped
    <2>5. OwnTyped'
      BY <2>1, <2>3, <2>4 DEF OwnTyped
    <2>6. RowsWhole'
      BY <2>2, <2>4 DEF RowsWhole
    <2>7. MemberHasNoPersonal' /\ RowsFit' /\ AtMostOne' /\ MembersFit'
      BY <2>1, <2>2, <2>3, <2>4 DEF MemberHasNoPersonal, RowsFit, AtMostOne, MembersFit, Effective
    <2>8. OwnerRowAgrees'
      BY <2>1, <2>2, <2>4 DEF OwnerRowAgrees, NoMember
    <2>9. Decided'
      <3> SUFFICES ASSUME NEW q \in OwnProcs PROVE RequestOk(owned[q])'
        BY DEF Decided
      <3>1. CASE q = p
        BY <2>3, <3>1, NoRequestTyped DEF RequestOk, Creates, Joins, MemberOk
      <3>2. CASE q # p
        <4>1. owned'[q] = owned[q] /\ RequestOk(owned[q])
          BY <2>3, <3>2 DEF Decided
        <4>2. \A v \in OwnUsers : member[v] = NoMember => member'[v] = NoMember
          BY <2>2, <2>4
        <4> QED
          BY <2>1, <4>1, <4>2 DEF RequestOk, CreateOk, JoinOk, MemberOk, TargetOf, Creates, Effective
      <3> QED
        BY <3>1, <3>2
    <2> QED
      BY <2>3, <2>5, <2>6, <2>7, <2>8, <2>9
  <1> QED
    BY <1>1, <1>2

(* A write of an account's or a team's status changes nothing a request    *)
(* relies on.                                                              *)
LEMMA StatusWritten ==
  ASSUME OwnInv, UNCHANGED <<member, memberIds, rows, owned, bypassed>>,
         statusWrites' = statusWrites + 1, statusWrites < MaxStatusWrites,
         account' \in [OwnUsers -> {"active", "disabled"}],
         team' \in [OwnTeams -> [owner : OwnUsers \cup {NoUser}, status : {"active", "disabled"}]],
         \A t \in OwnTeams : team'[t].owner = team[t].owner
  PROVE  OwnInv'
  <1> USE OwnAssumption DEF OwnInv
  <1>1. UNCHANGED <<member, memberIds, rows, owned, bypassed>>
    OBVIOUS
  <1>2. OwnTyped'
    BY DEF OwnTyped
  <1>3. RowsWhole' /\ KeysExclude' /\ RowsFit' /\ AtMostOne' /\ MemberHasNoPersonal' /\ Decided'
    BY <1>1 DEF RowsWhole, KeysExclude, RowsFit, AtMostOne, MemberHasNoPersonal, Effective,
                Decided, RequestOk, CreateOk, JoinOk, MemberOk
  <1>4. OwnerRowAgrees'
    BY <1>1 DEF OwnerRowAgrees, RowsWhole, NoMember
  <1>5. MembersFit'
    BY <1>1 DEF MembersFit, Joining
  <1> QED
    BY <1>2, <1>3, <1>4, <1>5

(* Changing the status of an account or a team touches nothing a request   *)
(* relies on.                                                              *)
LEMMA StatusKeeps ==
  ASSUME OwnInv, (\E u \in OwnUsers : SetUserStatus(u)) \/ (\E t \in OwnTeams : SetTeamStatus(t))
  PROVE  OwnInv'
  <1> USE OwnAssumption DEF OwnInv
  <1>0. /\ UNCHANGED <<member, memberIds, rows, owned, bypassed>>
        /\ statusWrites' = statusWrites + 1 /\ statusWrites < MaxStatusWrites
    BY DEF SetUserStatus, SetTeamStatus
  <1>1. CASE \E u \in OwnUsers : SetUserStatus(u)
    <2>1. PICK u \in OwnUsers : SetUserStatus(u)
      BY <1>1
    <2>2. team' = team /\ account' \in [OwnUsers -> {"active", "disabled"}]
      BY <2>1 DEF SetUserStatus, OwnTyped
    <2>3. team' \in [OwnTeams -> [owner : OwnUsers \cup {NoUser}, status : {"active", "disabled"}]]
      BY <2>2 DEF OwnTyped
    <2> QED
      BY <1>0, <2>2, <2>3, StatusWritten
  <1>2. CASE \E t \in OwnTeams : SetTeamStatus(t)
    <2>1. PICK t \in OwnTeams : SetTeamStatus(t)
      BY <1>2
    <2>2. PICK state \in {"active", "disabled"} : team' = [team EXCEPT ![t].status = state]
      BY <2>1 DEF SetTeamStatus
    <2>3. /\ account' = account
          /\ team' \in [OwnTeams -> [owner : OwnUsers \cup {NoUser}, status : {"active", "disabled"}]]
          /\ \A x \in OwnTeams : team'[x].owner = team[x].owner
      <3>1. team[t] \in [owner : OwnUsers \cup {NoUser}, status : {"active", "disabled"}]
        BY DEF OwnTyped
      <3>2. team' = [team EXCEPT ![t] = [team[t] EXCEPT !.status = state]]
        BY <2>2
      <3>3. /\ [team[t] EXCEPT !.status = state] \in [owner : OwnUsers \cup {NoUser}, status : {"active", "disabled"}]
            /\ [team[t] EXCEPT !.status = state].owner = team[t].owner
        BY <3>1
      <3>4. account' = account
        BY <2>1 DEF SetTeamStatus
      <3> QED
        BY <3>2, <3>3, <3>4 DEF OwnTyped
    <2>4. account' \in [OwnUsers -> {"active", "disabled"}]
      BY <2>3 DEF OwnTyped
    <2> QED
      BY <1>0, <2>3, <2>4, StatusWritten
  <1> QED
    BY <1>1, <1>2

(* A row that ends can only make an owner's effective rows fewer; one that *)
(* is brought back puts its owner among the bypassed.                      *)
LEMMA RowStatusKeeps ==
  ASSUME OwnInv, NEW o \in Owners, NEW i \in DOMAIN rows[o],
         EndSubscription(o, i) \/ ReviveSubscription(o, i)
  PROVE  OwnInv'
  <1> USE OwnAssumption DEF OwnInv, EndSubscription, ReviveSubscription
  <1>1. PICK state \in {"effective", "ended"} :
          /\ rows' = [rows EXCEPT ![o][i] = state]
          /\ state = "effective" => bypassed' = bypassed \cup {o}
          /\ state = "ended" => bypassed' = bypassed
    OBVIOUS
  <1>2. UNCHANGED <<account, team, member, memberIds, owned, statusWrites>>
    OBVIOUS
  <1>3. /\ rows' \in [Owners -> Seq({"effective", "ended"})]
        /\ \A x \in Owners : DOMAIN rows'[x] = DOMAIN rows[x] /\ Len(rows'[x]) = Len(rows[x])
        /\ \A x \in Owners : x \in bypassed' \/
             \A j \in DOMAIN rows[x] : rows'[x][j] = "effective" => rows[x][j] = "effective"
        /\ bypassed \subseteq bypassed' /\ bypassed' \in SUBSET Owners
    <2>1. rows[o] \in Seq({"effective", "ended"})
      BY DEF OwnTyped
    <2>2. [rows[o] EXCEPT ![i] = state] \in Seq({"effective", "ended"})
      BY <2>1
    <2>3. rows' = [rows EXCEPT ![o] = [rows[o] EXCEPT ![i] = state]]
      BY <1>1
    <2> QED
      BY <1>1, <2>1, <2>2, <2>3 DEF OwnTyped
  <1>4. OwnTyped' /\ RowsWhole' /\ KeysExclude' /\ OwnerRowAgrees' /\ RowsFit'
    BY <1>2, <1>3 DEF OwnTyped, RowsWhole, KeysExclude, OwnerRowAgrees, RowsFit
  <1>5. AtMostOne' /\ MemberHasNoPersonal'
    BY <1>2, <1>3 DEF AtMostOne, MemberHasNoPersonal, Effective, Owners
  <1>6. MembersFit'
    BY <1>2 DEF MembersFit, Joining
  <1>7. Decided'
    <2> SUFFICES ASSUME NEW q \in OwnProcs PROVE RequestOk(owned[q])'
      BY DEF Decided
    <2>1. RequestOk(owned[q])
      BY DEF Decided
    <2>2. owned[q].op \in Creates => CreateOk(owned[q])'
      <3> HAVE owned[q].op \in Creates
      <3>1. CreateOk(owned[q]) /\ TargetOf(owned[q]) \in Owners
        BY <2>1 DEF RequestOk, CreateOk, Creates, TargetOf, Owners
      <3> QED
        BY <1>2, <1>3, <3>1 DEF CreateOk, TargetOf, Effective
    <2>3. owned[q].op \in Joins => JoinOk(owned[q])'
      BY <1>2, <1>3, <2>1 DEF RequestOk, JoinOk, Effective, Owners
    <2> QED
      BY <1>2, <2>1, <2>2, <2>3 DEF RequestOk, MemberOk
  <1> QED
    BY <1>4, <1>5, <1>6, <1>7

(* Every step of subscription administration keeps the invariant. *)
LEMMA OwnStep ==
  ASSUME OwnInv, [OwnNext]_ownVars
  PROVE  OwnInv'
  <1>1. CASE UNCHANGED ownVars
    BY <1>1 DEF ownVars, OwnInv, OwnTyped, RowsWhole, KeysExclude, Decided, RequestOk, CreateOk, JoinOk,
                MemberOk, MembersFit, Joining, RowsFit, AtMostOne, MemberHasNoPersonal, OwnerRowAgrees,
                Effective
  <1>2. CASE OwnNext
    BY <1>2, DecidingKeeps, WriteSubscriptionKeeps, WriteJoinKeeps, WriteOwnerKeeps, WriteMemberKeeps,
       StatusKeeps, RowStatusKeeps, Zenon DEF OwnNext
  <1> QED
    BY <1>1, <1>2

(* The ownership tables and the requests about to write them stay in step. *)
THEOREM OwnInvHolds == OwnSpec => []OwnInv
  BY OwnInitInv, OwnStep, PTL DEF OwnSpec

(* Creations never leave an owner with two effective subscriptions,        *)
(* whatever runs at the same time (runWithSubscriptionOwnerLock).          *)
THEOREM OneEffectiveRowHolds == OwnSpec => []OneEffectiveRow
  <1>1. ASSUME OwnInv
        PROVE  OneEffectiveRow
    <2> SUFFICES ASSUME NEW o \in Owners \ bypassed
                 PROVE  Cardinality({i \in DOMAIN rows[o] : rows[o][i] = "effective"}) <= 1
      BY DEF OneEffectiveRow
    <2> DEFINE E == {i \in DOMAIN rows[o] : rows[o][i] = "effective"}
    <2>1. E = {} \/ \E i : E = {i}
      BY <1>1 DEF OwnInv, AtMostOne
    <2> QED
      BY <2>1, FS_EmptySet, FS_Singleton
  <1> QED
    BY <1>1, OwnInvHolds, PTL

(* A member of a team has no personal subscription beside it, and a team   *)
(* has at most one owner row, the one Team.ownerUserId names.              *)
THEOREM MembershipInvariantHolds == OwnSpec => []MembershipInvariant
  <1>1. ASSUME OwnInv
        PROVE  MembershipInvariant
    <2>1. memberIds \in 0..MaxMembers
      BY <1>1, JoiningFinite, OwnAssumption DEF OwnInv, OwnTyped, MembersFit
    <2>2. \A u \in OwnUsers : member[u].team = NoTeam <=> member[u].role = "none"
      BY <1>1, OwnAssumption DEF OwnInv, RowsWhole, NoMember
    <2> QED
      BY <1>1, <2>1, <2>2 DEF OwnInv, OwnTyped, RowsFit, MembershipInvariant, OwnTypeOK
  <1> QED
    BY <1>1, OwnInvHolds, PTL

-----------------------------------------------------------------------------
(* TrafficReset: a disable and its report travel in step with the binding, *)
(* and the provisioning lock keeps the bindings of a running reset off.    *)

Bindings == [status : {"active", "disabled"}, mark : Nat \cup {NoMark}]
Nodes == [serving : BOOLEAN, commands : Seq({"ENSURE_USER", "DISABLE_USER"}), results : Seq(Nat),
          made : 0..MaxUnits, queue : Seq(Nat)]
SubRows == [state : States, used : Nat]
ResetHandlers ==
    [op : {"idle", "reset", "renew", "sync", "adjust"},
     step : {"none", "lock", "quiesce", "settle", "counters", "plan", "chunk", "write"},
     target : SUBSET Users, todo : SUBSET Users, read : SubRows]
Budgets == [resets : Nat, adjusts : Nat, upsets : Nat]
Resets == {"reset", "renew"}

TrafficTyped ==
    /\ sub \in SubRows /\ ledger \in [Users -> Nat]
    /\ binding \in [Users -> Bindings] /\ node \in [Users -> Nodes]
    /\ provLock \in ResetProcs \cup {Nobody} /\ usageLock \in ResetProcs \cup {Nobody}
    /\ handler \in [ResetProcs -> ResetHandlers]
    /\ deferred \in SUBSET {"sync", "disconnect"}
    /\ epoch \in [Users -> Nat] /\ charged \in [Users -> Nat] /\ budget \in Budgets

(* A watermark the node reported after it cut u off: all u produced, or    *)
(* nothing when nothing was queued.                                        *)
Marks(u, m) == m = node[u].made \/ (m = 0 /\ node[u].queue = <<>>)

(* The life of a binding and of the commands on their way to its node: it  *)
(* is on; its disable is on the way to the node; the node's report is on   *)
(* the way back; the report has arrived.                                   *)
BindingOn(u) ==
    /\ binding[u] = [status |-> "active", mark |-> NoMark]
    /\ node[u].results = <<>>
    /\ node[u].commands \in {<<>>, <<"ENSURE_USER">>}

CutAhead(u) ==
    /\ binding[u] = [status |-> "disabled", mark |-> NoMark]
    /\ node[u].results = <<>>
    /\ node[u].commands \in {<<"DISABLE_USER">>, <<"ENSURE_USER", "DISABLE_USER">>}

ReportAhead(u) ==
    /\ binding[u] = [status |-> "disabled", mark |-> NoMark]
    /\ node[u].commands = <<>> /\ ~node[u].serving
    /\ \E m \in Nat : node[u].results = <<m>> /\ Marks(u, m)

BindingOff(u) ==
    /\ binding[u].status = "disabled" /\ binding[u].mark \in Nat
    /\ node[u].commands = <<>> /\ node[u].results = <<>> /\ ~node[u].serving
    /\ Marks(u, binding[u].mark)

Phase(u) == BindingOn(u) \/ CutAhead(u) \/ ReportAhead(u) \/ BindingOff(u)

Phases == \A u \in Users : Phase(u)

(* A handler that went past the provisioning lock holds it; the bindings a *)
(* reset has quiesced, or a sync is about to restore, are still off; an    *)
(* adjustment holds the usage lock and the row it read.                    *)
HandlerOk(p) ==
    /\ handler[p].op = "idle" => handler[p] = Idle
    /\ handler[p].op = "adjust" => handler[p].step = "write"
    /\ handler[p].step \in {"quiesce", "settle", "counters", "plan", "chunk"} => provLock = p
    /\ handler[p].step \in {"quiesce", "settle", "counters"} => handler[p].op \in Resets
    /\ handler[p].step \in {"plan", "chunk"} => handler[p].op = "sync"
    /\ handler[p].step \in {"settle", "counters"} =>
         \A u \in handler[p].target : binding[u].status = "disabled"
    /\ handler[p].step = "chunk" => \A u \in handler[p].todo : binding[u].status = "disabled"
    /\ handler[p].step = "write" => usageLock = p /\ handler[p].read = sub

HandlersOk == \A p \in ResetProcs : HandlerOk(p)

Resetting == {p \in ResetProcs : handler[p].op \in Resets}

ResetsFit == \A u \in Users : epoch[u] + budget.resets + Cardinality(Resetting) <= MaxResets

TrafficInv ==
    /\ TrafficTyped /\ Phases /\ HandlersOk /\ ResetsFit
    /\ ResetBoundary /\ LedgerAgrees /\ UnitsConserved

(* Summing ledger rows: the sum is a number, nothing for empty rows, and   *)
(* one more when one row grows by one.                                     *)
LEMMA UnitsFinite ==
  ASSUME NEW l \in [Users -> Nat]
  PROVE  /\ IsFiniteSet(UNION {{u} \X (1..l[u]) : u \in Users})
         /\ SumLedger(l) \in Nat
  <1> DEFINE F == [u \in Users |-> {u} \X (1..l[u])]
             Fam == {{u} \X (1..l[u]) : u \in Users}
  <1>1. Fam = {F[u] : u \in Users}
    OBVIOUS
  <1>2. F \in Surjection(Users, Fam)
    BY <1>1 DEF Surjection
  <1>3. IsFiniteSet(Fam)
    BY <1>2, FS_Surjection, ResetAssumption
  <1>4. \A u \in Users : IsFiniteSet({u} \X (1..l[u]))
    <2> SUFFICES ASSUME NEW u \in Users PROVE IsFiniteSet({u} \X (1..l[u]))
      OBVIOUS
    <2>1. l[u] \in Int /\ 1 \in Int
      OBVIOUS
    <2>2. IsFiniteSet(1..l[u])
      BY <2>1, FS_Interval
    <2>3. IsFiniteSet({u})
      BY FS_Singleton
    <2> QED
      BY <2>2, <2>3, FS_Product
  <1>5. \A T \in Fam : IsFiniteSet(T)
    BY <1>4
  <1>6. IsFiniteSet(UNION Fam)
    BY <1>3, <1>5, FS_UNION
  <1> QED
    BY <1>6, FS_CardinalityType DEF SumLedger

(* One more byte of one user is one more byte of the ledger. *)
LEMMA SumLedgerAdd ==
  ASSUME NEW l \in [Users -> Nat], NEW u \in Users
  PROVE  SumLedger([l EXCEPT ![u] = @ + 1]) = SumLedger(l) + 1
  <1> DEFINE k == [l EXCEPT ![u] = @ + 1]
             A == UNION {{v} \X (1..l[v]) : v \in Users}
             B == UNION {{v} \X (1..k[v]) : v \in Users}
  <1>1. k \in [Users -> Nat] /\ k[u] = l[u] + 1 /\ \A v \in Users \ {u} : k[v] = l[v]
    OBVIOUS
  <1> HIDE DEF k
  <1>2. <<u, l[u] + 1>> \notin A
    OBVIOUS
  <1>3. B = A \cup {<<u, l[u] + 1>>}
    BY <1>1
  <1>4. IsFiniteSet(A)
    BY UnitsFinite
  <1> HIDE DEF A, B
  <1>5. Cardinality(B) = Cardinality(A) + 1
    BY <1>2, <1>3, <1>4, FS_AddElement
  <1> QED
    BY <1>5 DEF A, B, k, SumLedger

(* The cleared ledger sums to nothing. *)
LEMMA SumLedgerZero ==
  SumLedger([u \in Users |-> 0]) = 0
  <1> DEFINE l == [u \in Users |-> 0]
  <1>1. UNION {{u} \X (1..l[u]) : u \in Users} = {}
    OBVIOUS
  <1> QED
    BY <1>1, FS_EmptySet DEF SumLedger

(* Requests that will reset are finitely many. *)
LEMMA ResettingFinite ==
  /\ IsFiniteSet(Resetting) /\ Cardinality(Resetting) \in Nat
  /\ IsFiniteSet(Resetting') /\ Cardinality(Resetting') \in Nat
  <1>1. Resetting \in SUBSET ResetProcs /\ Resetting' \in SUBSET ResetProcs
    BY DEF Resetting
  <1> QED
    BY ONLY <1>1, ResetAssumption, FS_Subset, FS_CardinalityType

(* An idle handler is typed. *)
LEMMA IdleTyped ==
  /\ Idle \in ResetHandlers /\ Idle.op = "idle" /\ Idle.step = "none"
  /\ Idle.target = {} /\ Idle.todo = {}
  BY DEF Idle, ResetHandlers, SubRows, States

(* A binding nobody touches stays in its phase. *)
LEMMA PhaseSame ==
  ASSUME NEW v \in Users, Phase(v), binding'[v] = binding[v], node'[v] = node[v]
  PROVE  Phase(v)'
  BY DEF Phase, BindingOn, CutAhead, ReportAhead, BindingOff, Marks

(* A step of the handlers alone leaves the counters and the bindings.      *)
LEMMA QuietKeeps ==
  ASSUME TrafficInv, UNCHANGED <<sub, ledger, binding, node, epoch, charged>>
  PROVE  Phases' /\ ResetBoundary' /\ LedgerAgrees' /\ UnitsConserved'
  <1> USE DEF TrafficInv
  <1>1. Phases'
    BY PhaseSame DEF Phases
  <1>2. ResetBoundary' /\ LedgerAgrees' /\ UnitsConserved'
    BY DEF ResetBoundary, LedgerAgrees, UnitsConserved
  <1> QED
    BY <1>1, <1>2

(* Steps that start no reset do not add to the resets.                     *)
LEMMA ResetsSame ==
  ASSUME TrafficInv, TrafficTyped', epoch' = epoch, budget'.resets = budget.resets,
         \A p \in ResetProcs : handler'[p].op \in Resets => handler[p].op \in Resets
  PROVE  ResetsFit'
  <1>1. Resetting' \in SUBSET Resetting
    BY DEF Resetting
  <1>2. Cardinality(Resetting') <= Cardinality(Resetting)
    BY <1>1, ResettingFinite, FS_Subset
  <1> SUFFICES ASSUME NEW u \in Users
               PROVE  epoch[u] + budget.resets + Cardinality(Resetting') <= MaxResets
    BY DEF ResetsFit
  <1>3. epoch[u] + budget.resets + Cardinality(Resetting) <= MaxResets
    BY DEF TrafficInv, ResetsFit
  <1>4. epoch[u] \in Nat /\ budget.resets \in Nat /\ MaxResets \in Nat
    BY ResetAssumption DEF TrafficInv, TrafficTyped, Budgets
  <1> QED
    BY <1>2, <1>3, <1>4, ResettingFinite

(* The initial state satisfies the invariant. *)
LEMMA ResetInitInv ==
  ASSUME ResetInit
  PROVE  TrafficInv
  <1> USE ResetAssumption, IdleTyped DEF ResetInit
  <1>1. TrafficTyped
    BY DEF TrafficTyped, SubRows, States, Bindings, Nodes, Budgets
  <1>2. Phases
    BY DEF Phases, Phase, BindingOn
  <1>3. HandlersOk
    BY DEF HandlersOk, HandlerOk
  <1>4. ResetsFit
    <2>1. Resetting = {}
      BY DEF Resetting, Resets
    <2> QED
      BY <2>1, FS_EmptySet DEF ResetsFit
  <1>5. ResetBoundary /\ LedgerAgrees /\ UnitsConserved
    BY SumLedgerZero DEF ResetBoundary, LedgerAgrees, UnitsConserved
  <1> QED
    BY <1>1, <1>2, <1>3, <1>4, <1>5 DEF TrafficInv

(* A reset enters; it counts until it ends. *)
LEMMA StartResetKeeps ==
  ASSUME TrafficInv, NEW p \in ResetProcs, NEW target \in SUBSET Users, NEW op \in Resets, StartReset(p, target, op)
  PROVE  TrafficInv'
  <1> USE ResetAssumption, IdleTyped DEF TrafficInv, StartReset, End, Release, GotoStep
  <1> DEFINE h == [Idle EXCEPT !.op = op, !.step = "lock", !.target = target]
  <1>0. /\ handler' = [handler EXCEPT ![p] = h] /\ h \in ResetHandlers
        /\ h.step = "lock" /\ h.op = op
    BY DEF TrafficTyped, ResetHandlers, Resets, Idle, SubRows
  <1> HIDE DEF h
  <1>1. TrafficTyped'
    BY <1>0 DEF TrafficTyped, Budgets
  <1>2. Phases' /\ ResetBoundary' /\ LedgerAgrees' /\ UnitsConserved'
    BY QuietKeeps
  <1>3. HandlersOk'
    <2> SUFFICES ASSUME NEW q \in ResetProcs PROVE HandlerOk(q)'
      BY DEF HandlersOk
    <2>1. CASE q = p
      BY <1>0, <2>1 DEF HandlersOk, HandlerOk, TrafficTyped, Resets
    <2>2. CASE q # p
      BY <1>0, <2>2 DEF HandlersOk, HandlerOk, TrafficTyped
    <2> QED
      BY <2>1, <2>2
  <1>4. ResetsFit'
    <2>1. Resetting' = Resetting \cup {p} /\ p \notin Resetting
      BY DEF Resetting, Resets, TrafficTyped, ResetHandlers, Idle
    <2>2. Cardinality(Resetting') = Cardinality(Resetting) + 1
      BY <2>1, ResettingFinite, FS_AddElement
    <2>3. epoch' = epoch /\ budget'.resets = budget.resets - 1 /\ budget.resets \in Nat
      BY DEF TrafficTyped, Budgets
    <2> QED
      BY <2>2, <2>3, ResettingFinite DEF ResetsFit, TrafficTyped
  <1> QED
    BY <1>1, <1>2, <1>3, <1>4

(* A handler takes the provisioning lock. *)
LEMMA TakeProvisioningKeeps ==
  ASSUME TrafficInv, NEW p \in ResetProcs, TakeProvisioning(p)
  PROVE  TrafficInv'
  <1> USE ResetAssumption, IdleTyped DEF TrafficInv, TakeProvisioning, End, Release, GotoStep
  <1> DEFINE h == [handler[p] EXCEPT !.step = IF handler[p].op = "sync" THEN "plan" ELSE "quiesce"]
  <1>0. /\ handler' = [handler EXCEPT ![p] = h] /\ h \in ResetHandlers
        /\ h.step = (IF h.op = "sync" THEN "plan" ELSE "quiesce") /\ h.op = handler[p].op
    BY DEF TrafficTyped, ResetHandlers, Resets, Idle, SubRows
  <1> HIDE DEF h
  <1>1. TrafficTyped'
    BY <1>0 DEF TrafficTyped, Budgets
  <1>2. Phases' /\ ResetBoundary' /\ LedgerAgrees' /\ UnitsConserved'
    BY QuietKeeps
  <1>3. HandlersOk'
    <2> SUFFICES ASSUME NEW q \in ResetProcs PROVE HandlerOk(q)'
      BY DEF HandlersOk
    <2>1. CASE q = p
      <3>1. handler[p].op # "idle" /\ handler[p].op # "adjust"
        BY DEF HandlersOk, HandlerOk
      <3> QED
        BY <1>0, <2>1, <3>1 DEF HandlersOk, HandlerOk, TrafficTyped, ResetHandlers, Resets
    <2>2. CASE q # p
      BY <1>0, <2>2 DEF HandlersOk, HandlerOk, TrafficTyped
    <2> QED
      BY <2>1, <2>2
  <1>4. ResetsFit'
    BY <1>1, ResetsSame DEF TrafficTyped, ResetHandlers, Budgets, Resets, Idle
  <1> QED
    BY <1>1, <1>2, <1>3, <1>4

(* A handler gives up and lets its lock go. *)
LEMMA GiveUpKeeps ==
  ASSUME TrafficInv, NEW p \in ResetProcs, GiveUp(p)
  PROVE  TrafficInv'
  <1> USE ResetAssumption, IdleTyped DEF TrafficInv, GiveUp, End, Release, GotoStep
  <1>1. TrafficTyped'
    BY DEF TrafficTyped, ResetHandlers, Budgets, Resets
  <1>2. Phases' /\ ResetBoundary' /\ LedgerAgrees' /\ UnitsConserved'
    BY QuietKeeps
  <1>3. HandlersOk'
    BY DEF HandlersOk, HandlerOk, TrafficTyped, ResetHandlers, Resets, Idle
  <1>4. ResetsFit'
    BY <1>1, ResetsSame DEF TrafficTyped, ResetHandlers, Budgets, Resets, Idle
  <1> QED
    BY <1>1, <1>2, <1>3, <1>4

(* A reset sees its bindings settled. *)
LEMMA AwaitSettledKeeps ==
  ASSUME TrafficInv, NEW p \in ResetProcs, AwaitSettled(p)
  PROVE  TrafficInv'
  <1> USE ResetAssumption, IdleTyped DEF TrafficInv, AwaitSettled, End, Release, GotoStep
  <1>1. TrafficTyped'
    BY DEF TrafficTyped, ResetHandlers, Budgets, Resets
  <1>2. Phases' /\ ResetBoundary' /\ LedgerAgrees' /\ UnitsConserved'
    BY QuietKeeps
  <1>3. HandlersOk'
    <2> SUFFICES ASSUME NEW q \in ResetProcs PROVE HandlerOk(q)'
      BY DEF HandlersOk
    <2>1. CASE q = p
      <3>1. /\ handler'[p].step = "counters" /\ handler'[p].op = handler[p].op
            /\ handler'[p].target = handler[p].target
        BY DEF TrafficTyped, ResetHandlers
      <3> QED
        BY <2>1, <3>1 DEF HandlersOk, HandlerOk, Resets
    <2>2. CASE q # p
      BY <2>2 DEF HandlersOk, HandlerOk, TrafficTyped
    <2> QED
      BY <2>1, <2>2
  <1>4. ResetsFit'
    BY <1>1, ResetsSame DEF TrafficTyped, ResetHandlers, Budgets, Resets, Idle
  <1> QED
    BY <1>1, <1>2, <1>3, <1>4

(* A sync enters. *)
LEMMA StartSyncKeeps ==
  ASSUME TrafficInv, NEW p \in ResetProcs, StartSync(p)
  PROVE  TrafficInv'
  <1> USE ResetAssumption, IdleTyped DEF TrafficInv, StartSync, End, Release, GotoStep
  <1>1. TrafficTyped'
    BY DEF TrafficTyped, ResetHandlers, Budgets, Resets
  <1>2. Phases' /\ ResetBoundary' /\ LedgerAgrees' /\ UnitsConserved'
    BY QuietKeeps
  <1>3. HandlersOk'
    BY DEF HandlersOk, HandlerOk, TrafficTyped, ResetHandlers, Resets, Idle
  <1>4. ResetsFit'
    BY <1>1, ResetsSame DEF TrafficTyped, ResetHandlers, Budgets, Resets, Idle
  <1> QED
    BY <1>1, <1>2, <1>3, <1>4

(* A sync plans its targets. *)
LEMMA PlanSyncKeeps ==
  ASSUME TrafficInv, NEW p \in ResetProcs, PlanSync(p)
  PROVE  TrafficInv'
  <1> USE ResetAssumption, IdleTyped DEF TrafficInv, PlanSync, End, Release, GotoStep
  <1> DEFINE h == [handler[p] EXCEPT !.step = "chunk", !.todo = IF Eligible THEN {u \in Users : binding[u].status = "disabled" /\ Settled(u)} ELSE {}]
  <1>0. /\ handler' = [handler EXCEPT ![p] = h] /\ h \in ResetHandlers
        /\ h.step = "chunk" /\ h.op = handler[p].op /\ \A u \in h.todo : binding[u].status = "disabled"
    BY DEF TrafficTyped, ResetHandlers, Resets, Idle, SubRows
  <1> HIDE DEF h
  <1>1. TrafficTyped'
    <2>1. handler' \in [ResetProcs -> ResetHandlers]
      BY <1>0 DEF TrafficTyped
    <2> QED
      BY <2>1 DEF TrafficTyped
  <1>2. Phases' /\ ResetBoundary' /\ LedgerAgrees' /\ UnitsConserved'
    BY QuietKeeps
  <1>3. HandlersOk'
    <2> SUFFICES ASSUME NEW q \in ResetProcs PROVE HandlerOk(q)'
      BY DEF HandlersOk
    <2>1. CASE q = p
      BY <1>0, <2>1 DEF HandlersOk, HandlerOk, TrafficTyped, Resets
    <2>2. CASE q # p
      BY <1>0, <2>2 DEF HandlersOk, HandlerOk, TrafficTyped
    <2> QED
      BY <2>1, <2>2
  <1>4. ResetsFit'
    BY <1>0, <1>1, ResetsSame DEF TrafficTyped
  <1> QED
    BY <1>1, <1>2, <1>3, <1>4

(* A sync ends. *)
LEMMA EndSyncKeeps ==
  ASSUME TrafficInv, NEW p \in ResetProcs, EndSync(p)
  PROVE  TrafficInv'
  <1> USE ResetAssumption, IdleTyped DEF TrafficInv, EndSync, End, Release, GotoStep
  <1>1. TrafficTyped'
    BY DEF TrafficTyped, ResetHandlers, Budgets, Resets
  <1>2. Phases' /\ ResetBoundary' /\ LedgerAgrees' /\ UnitsConserved'
    BY QuietKeeps
  <1>3. HandlersOk'
    BY DEF HandlersOk, HandlerOk, TrafficTyped, ResetHandlers, Resets, Idle
  <1>4. ResetsFit'
    BY <1>1, ResetsSame DEF TrafficTyped, ResetHandlers, Budgets, Resets, Idle
  <1> QED
    BY <1>1, <1>2, <1>3, <1>4

(* An adjustment takes the usage lock and reads the row. *)
LEMMA AdjustReadKeeps ==
  ASSUME TrafficInv, NEW p \in ResetProcs, AdjustRead(p)
  PROVE  TrafficInv'
  <1> USE ResetAssumption, IdleTyped DEF TrafficInv, AdjustRead, End, Release, GotoStep
  <1> DEFINE h == [Idle EXCEPT !.op = "adjust", !.step = "write", !.read = sub]
  <1>0. /\ handler' = [handler EXCEPT ![p] = h] /\ h \in ResetHandlers
        /\ h.step = "write" /\ h.op = "adjust" /\ h.read = sub
    BY DEF TrafficTyped, ResetHandlers, Resets, Idle, SubRows
  <1> HIDE DEF h
  <1>1. TrafficTyped'
    BY <1>0 DEF TrafficTyped, Budgets
  <1>2. Phases' /\ ResetBoundary' /\ LedgerAgrees' /\ UnitsConserved'
    BY QuietKeeps
  <1>3. HandlersOk'
    <2> SUFFICES ASSUME NEW q \in ResetProcs PROVE HandlerOk(q)'
      BY DEF HandlersOk
    <2>1. CASE q = p
      BY <1>0, <2>1 DEF HandlersOk, HandlerOk, TrafficTyped, Resets
    <2>2. CASE q # p
      BY <1>0, <2>2 DEF HandlersOk, HandlerOk, TrafficTyped
    <2> QED
      BY <2>1, <2>2
  <1>4. ResetsFit'
    BY <1>0, <1>1, ResetsSame DEF TrafficTyped, Budgets, Resets
  <1> QED
    BY <1>1, <1>2, <1>3, <1>4

(* The handlers do not notice a step of a node or its reports, as long as  *)
(* no binding comes back on.                                               *)
LEMMA HandlersUndisturbed ==
  ASSUME TrafficInv, UNCHANGED <<provLock, usageLock, handler>>,
         sub' = sub \/ usageLock = Nobody,
         \A u \in Users : binding[u].status = "disabled" => binding'[u].status = "disabled"
  PROVE  HandlersOk'
  <1> SUFFICES ASSUME NEW p \in ResetProcs PROVE HandlerOk(p)'
    BY DEF HandlersOk
  <1>1. HandlerOk(p) /\ handler[p].target \in SUBSET Users /\ handler[p].todo \in SUBSET Users
    BY DEF TrafficInv, TrafficTyped, ResetHandlers, HandlersOk
  <1> QED
    BY <1>1, ResetAssumption DEF HandlerOk

(* A node meters a unit: it is queued under the resets its user has seen.  *)
LEMMA ProduceKeeps ==
  ASSUME TrafficInv, NEW u \in Users, Produce(u)
  PROVE  TrafficInv'
  <1> USE ResetAssumption DEF TrafficInv, Produce
  <1>0. /\ node[u] \in Nodes /\ epoch[u] \in Nat /\ node[u].queue \in Seq(Nat)
        /\ node[u].made \in Nat /\ node[u].made + 1 \in 0..MaxUnits
    BY DEF TrafficTyped, Nodes
  <1>1. /\ \A v \in Users \ {u} : node'[v] = node[v]
        /\ node' = [node EXCEPT ![u] = [node[u] EXCEPT !.made = @ + 1, !.queue = Append(@, epoch[u])]]
    BY DEF TrafficTyped
  <1>2. [node[u] EXCEPT !.made = @ + 1, !.queue = Append(@, epoch[u])] \in Nodes
    <2>1. Append(node[u].queue, epoch[u]) \in Seq(Nat)
      BY <1>0
    <2> QED
      BY <1>0, <2>1 DEF Nodes
  <1>3. /\ node'[u].made = node[u].made + 1 /\ node'[u].queue = Append(node[u].queue, epoch[u])
        /\ node'[u].commands = node[u].commands /\ node'[u].results = node[u].results
    BY <1>0, <1>1 DEF TrafficTyped, Nodes
  <1>4. TrafficTyped'
    BY <1>1, <1>2 DEF TrafficTyped
  <1>5. Phases'
    <2> SUFFICES ASSUME NEW v \in Users PROVE Phase(v)'
      BY DEF Phases
    <2>1. CASE v # u
      BY <1>1, <2>1, PhaseSame DEF Phases
    <2>2. CASE v = u
      BY <1>3, <2>2 DEF Phases, Phase, BindingOn, CutAhead, ReportAhead, BindingOff
    <2> QED
      BY <2>1, <2>2
  <1>6. HandlersOk'
    BY HandlersUndisturbed
  <1>7. ResetsFit'
    BY <1>4, ResetsSame
  <1>8. ResetBoundary'
    <2> SUFFICES ASSUME NEW v \in Users, NEW i \in DOMAIN node'[v].queue
                 PROVE  node'[v].queue[i] = epoch[v]
      BY DEF ResetBoundary
    <2>1. CASE v # u
      BY <1>1, <2>1 DEF ResetBoundary
    <2>2. CASE v = u
      <3> DEFINE q == node[u].queue
      <3>1. q \in Seq(Nat) /\ epoch[u] \in Nat /\ node'[u].queue = Append(q, epoch[u])
        BY <1>0, <1>3
      <3>2. \A j \in 1..Len(q) : q[j] = epoch[u]
        <4>1. \A j \in DOMAIN node[u].queue : node[u].queue[j] = epoch[u]
          BY Zenon DEF ResetBoundary
        <4> QED
          BY ONLY <3>1, <4>1
      <3> HIDE DEF q
      <3>3. \A j \in DOMAIN Append(q, epoch[u]) : Append(q, epoch[u])[j] = epoch[u]
        BY ONLY <3>1, <3>2
      <3> QED
        BY <2>2, <3>1, <3>3
    <2> QED
      BY <2>1, <2>2
  <1>9. LedgerAgrees' /\ UnitsConserved'
    <2>1. Len(node'[u].queue) = Len(node[u].queue) + 1 /\ Len(node[u].queue) \in Nat
      BY <1>0, <1>3
    <2>2. charged[u] \in Nat
      BY DEF TrafficTyped
    <2>3. LedgerAgrees'
      BY DEF LedgerAgrees
    <2>4. node[u].made = charged[u] + Len(node[u].queue)
      BY DEF UnitsConserved
    <2>5. node'[u].made = charged[u] + Len(node'[u].queue)
      BY ONLY <1>0, <1>3, <2>1, <2>2, <2>4
    <2>6. \A v \in Users \ {u} : node'[v].made = charged[v] + Len(node'[v].queue)
      BY <1>1 DEF UnitsConserved
    <2>7. charged' = charged
      OBVIOUS
    <2> QED
      BY <2>3, <2>5, <2>6, <2>7 DEF UnitsConserved
  <1> QED
    BY <1>4, <1>5, <1>6, <1>7, <1>8, <1>9

(* A node executes a command: a disable is reported at once, and the node  *)
(* meters nothing more.                                                    *)
LEMMA AgentCommandKeeps ==
  ASSUME TrafficInv, NEW u \in Users, AgentCommand(u)
  PROVE  TrafficInv'
  <1> USE ResetAssumption DEF TrafficInv
  <1> DEFINE command == Head(node[u].commands)
             mark == IF node[u].queue = <<>> THEN 0 ELSE node[u].made
             results == IF command = "ENSURE_USER" THEN node[u].results ELSE Append(node[u].results, mark)
             after == [node[u] EXCEPT !.commands = Tail(@), !.serving = (command = "ENSURE_USER"), !.results = results]
  <1>0. /\ node[u] \in Nodes /\ node[u].queue \in Seq(Nat) /\ node[u].made \in Nat /\ node[u].results \in Seq(Nat)
        /\ node[u].commands \in Seq({"ENSURE_USER", "DISABLE_USER"})
    BY DEF TrafficTyped, Nodes
  <1>1. node' = [node EXCEPT ![u] = after] /\ node[u].commands # <<>>
        /\ UNCHANGED <<sub, ledger, binding, provLock, usageLock, handler, deferred, epoch, charged, budget>>
    BY DEF AgentCommand
  <1>2. /\ Tail(node[u].commands) \in Seq({"ENSURE_USER", "DISABLE_USER"})
        /\ mark \in Nat /\ results \in Seq(Nat) /\ (command = "ENSURE_USER") \in BOOLEAN
    BY <1>0, <1>1
  <1>3. /\ after \in Nodes /\ after.made = node[u].made /\ after.queue = node[u].queue
        /\ after.commands = Tail(node[u].commands) /\ after.results = results
        /\ after.serving = (command = "ENSURE_USER")
    BY <1>0, <1>2 DEF Nodes
  <1> HIDE DEF after
  <1>4. node'[u] = after /\ \A v \in Users \ {u} : node'[v] = node[v]
    BY <1>1 DEF TrafficTyped
  <1>5. TrafficTyped'
    BY <1>1, <1>3 DEF TrafficTyped
  <1>6. Phases'
    <2> SUFFICES ASSUME NEW v \in Users PROVE Phase(v)'
      BY DEF Phases
    <2>1. CASE v # u
      BY <1>1, <1>4, <2>1, PhaseSame DEF Phases
    <2>2. CASE v = u
      <3>1. BindingOn(u) \/ CutAhead(u)
        BY <1>1 DEF Phases, Phase, ReportAhead, BindingOff
      <3>2. CASE node[u].commands = <<"ENSURE_USER">>
        <4>1. command = "ENSURE_USER" /\ Tail(node[u].commands) = <<>>
          BY <3>2
        <4>2. BindingOn(u)
          BY <3>1, <3>2 DEF CutAhead
        <4> QED
          BY <1>1, <1>3, <1>4, <2>2, <4>1, <4>2 DEF Phase, BindingOn
      <3>3. CASE node[u].commands = <<"ENSURE_USER", "DISABLE_USER">>
        <4>1. command = "ENSURE_USER" /\ Tail(node[u].commands) = <<"DISABLE_USER">>
          BY <3>3
        <4>2. CutAhead(u)
          BY <3>1, <3>3 DEF BindingOn
        <4> QED
          BY <1>1, <1>3, <1>4, <2>2, <4>1, <4>2 DEF Phase, CutAhead
      <3>4. CASE node[u].commands = <<"DISABLE_USER">>
        <4>1. command = "DISABLE_USER" /\ Tail(node[u].commands) = <<>>
          BY <3>4
        <4>2. CutAhead(u)
          BY <3>1, <3>4 DEF BindingOn
        <4>3. results = <<mark>>
          BY <1>2, <4>1, <4>2 DEF CutAhead
        <4>4. ReportAhead(u)'
          BY <1>1, <1>2, <1>3, <1>4, <4>1, <4>2, <4>3 DEF CutAhead, ReportAhead, Marks
        <4> QED
          BY <2>2, <4>4 DEF Phase
      <3> QED
        BY <1>1, <3>1, <3>2, <3>3, <3>4 DEF BindingOn, CutAhead
    <2> QED
      BY <2>1, <2>2
  <1>7. HandlersOk'
    BY <1>1, HandlersUndisturbed
  <1>8. ResetsFit'
    BY <1>1, <1>5, ResetsSame
  <1>9. ResetBoundary' /\ LedgerAgrees' /\ UnitsConserved'
    BY <1>1, <1>3, <1>4 DEF ResetBoundary, LedgerAgrees, UnitsConserved
  <1> QED
    BY <1>5, <1>6, <1>7, <1>8, <1>9

(* The report of a disable reaches the binding. *)
LEMMA CompleteDisableKeeps ==
  ASSUME TrafficInv, NEW u \in Users, CompleteDisable(u)
  PROVE  TrafficInv'
  <1> USE ResetAssumption DEF TrafficInv
  <1>1. ReportAhead(u)
    BY DEF CompleteDisable, Phases, Phase, BindingOn, CutAhead, BindingOff
  <1>2. PICK m \in Nat : node[u].results = <<m>> /\ Marks(u, m)
    BY <1>1 DEF ReportAhead
  <1>3. Head(node[u].results) = m /\ Tail(node[u].results) = <<>>
    BY <1>2
  <1>4. /\ node' = [node EXCEPT ![u] = [node[u] EXCEPT !.results = <<>>]]
        /\ binding' = [binding EXCEPT ![u] = [binding[u] EXCEPT !.mark = m]]
        /\ UNCHANGED <<sub, ledger, provLock, usageLock, handler, deferred, epoch, charged, budget>>
    BY <1>3 DEF CompleteDisable
  <1>5. node[u] \in Nodes /\ binding[u] \in Bindings
    BY DEF TrafficTyped
  <1>6. [node[u] EXCEPT !.results = <<>>] \in Nodes /\ [binding[u] EXCEPT !.mark = m] \in Bindings
    <2>1. <<>> \in Seq(Nat)
      OBVIOUS
    <2>2. [node[u] EXCEPT !.results = <<>>] \in Nodes
      BY <1>5, <2>1 DEF Nodes
    <2>3. [binding[u] EXCEPT !.mark = m] \in Bindings
      BY <1>5 DEF Bindings
    <2> QED
      BY <2>2, <2>3
  <1>7. /\ \A v \in Users \ {u} : node'[v] = node[v] /\ binding'[v] = binding[v]
        /\ node'[u].results = <<>> /\ node'[u].made = node[u].made /\ node'[u].queue = node[u].queue
        /\ node'[u].commands = node[u].commands /\ node'[u].serving = node[u].serving
        /\ binding'[u].status = binding[u].status /\ binding'[u].mark = m
    BY <1>4, <1>5 DEF TrafficTyped, Nodes, Bindings
  <1>8. TrafficTyped'
    BY <1>4, <1>6 DEF TrafficTyped
  <1>9. Phases'
    <2> SUFFICES ASSUME NEW v \in Users PROVE Phase(v)'
      BY DEF Phases
    <2>1. CASE v # u
      BY <1>7, <2>1, PhaseSame DEF Phases
    <2>2. CASE v = u
      BY <1>1, <1>2, <1>7, <2>2 DEF Phase, ReportAhead, BindingOff, Marks
    <2> QED
      BY <2>1, <2>2
  <1>10. HandlersOk'
    BY <1>4, <1>7, HandlersUndisturbed
  <1>11. ResetsFit'
    BY <1>4, <1>8, ResetsSame
  <1>12. ResetBoundary' /\ LedgerAgrees' /\ UnitsConserved'
    BY <1>4, <1>7 DEF ResetBoundary, LedgerAgrees, UnitsConserved
  <1> QED
    BY <1>8, <1>9, <1>10, <1>11, <1>12

(* Appending to a queue of commands, and to a queue of one. *)
LEMMA AppendParts ==
  ASSUME NEW S, NEW s \in Seq(S), NEW y \in S
  PROVE  /\ Append(s, y) \in Seq(S) /\ Len(Append(s, y)) = Len(s) + 1
         /\ Append(s, y)[Len(s) + 1] = y /\ \A i \in 1..Len(s) : Append(s, y)[i] = s[i]
  <1>1. Append(s, y) \in Seq(S)
    OBVIOUS
  <1>2. Len(Append(s, y)) = Len(s) + 1
    OBVIOUS
  <1>3. Append(s, y)[Len(s) + 1] = y
    OBVIOUS
  <1>4. \A i \in 1..Len(s) : Append(s, y)[i] = s[i]
    OBVIOUS
  <1> QED
    BY <1>1, <1>2, <1>3, <1>4, Zenon

(* Appending to a queue of one command. *)
LEMMA AppendToOne ==
  ASSUME NEW S, NEW s \in Seq(S), NEW y \in S, Len(s) = 1
  PROVE  Append(s, y) = <<s[1], y>>
  <1> DEFINE a == Append(s, y)
  <1>1. /\ a \in Seq(S) /\ Len(a) = Len(s) + 1
        /\ a[Len(s) + 1] = y /\ \A i \in 1..Len(s) : a[i] = s[i]
    BY AppendParts, Zenon
  <1> HIDE DEF a
  <1>2. a \in Seq(S) /\ Len(a) = 2 /\ a[2] = y /\ a[1] = s[1]
    BY ONLY <1>1, Len(s) = 1
  <1>3. a = <<s[1], y>>
    BY ONLY <1>2
  <1> QED
    BY <1>3 DEF a

(* A disable of a binding that is on is queued behind at most one ensure.  *)
LEMMA CutOff ==
  ASSUME NEW v \in Users, Phase(v), binding[v].status = "active",
         binding'[v] = [status |-> "disabled", mark |-> NoMark],
         node'[v].commands = Append(node[v].commands, "DISABLE_USER"),
         node'[v].results = node[v].results
  PROVE  Phase(v)'
  <1>1. BindingOn(v)
    BY DEF Phase, CutAhead, ReportAhead, BindingOff
  <1>2. /\ Append(<<>>, "DISABLE_USER") = <<"DISABLE_USER">>
        /\ Append(<<"ENSURE_USER">>, "DISABLE_USER") = <<"ENSURE_USER", "DISABLE_USER">>
    <2>1. Append(<<>>, "DISABLE_USER") = <<"DISABLE_USER">>
      OBVIOUS
    <2>2. /\ <<"ENSURE_USER">> \in Seq({"ENSURE_USER", "DISABLE_USER"}) /\ Len(<<"ENSURE_USER">>) = 1
          /\ <<"ENSURE_USER">>[1] = "ENSURE_USER" /\ "DISABLE_USER" \in {"ENSURE_USER", "DISABLE_USER"}
      OBVIOUS
    <2>3. Append(<<"ENSURE_USER">>, "DISABLE_USER") = << <<"ENSURE_USER">>[1], "DISABLE_USER">>
      BY ONLY <2>2, AppendToOne
    <2> QED
      BY <2>1, <2>2, <2>3
  <1>3. node'[v].commands \in {<<"DISABLE_USER">>, <<"ENSURE_USER", "DISABLE_USER">>}
    BY <1>1, <1>2 DEF BindingOn
  <1> QED
    BY <1>1, <1>3 DEF BindingOn, CutAhead, Phase

(* Disabling the active bindings of a set. *)
LEMMA DisablingKeeps ==
  ASSUME TrafficInv, NEW S \in SUBSET Users, binding' = DisableIn(S),
         node' = CommandIn(ActiveIn(S), "DISABLE_USER"), UNCHANGED <<sub, ledger, epoch, charged>>
  PROVE  /\ binding' \in [Users -> Bindings] /\ node' \in [Users -> Nodes]
         /\ \A u \in S : binding'[u].status = "disabled"
         /\ \A u \in Users : binding[u].status = "disabled" => binding'[u].status = "disabled"
         /\ Phases' /\ ResetBoundary' /\ LedgerAgrees' /\ UnitsConserved'
  <1> DEFINE Off == [status |-> "disabled", mark |-> NoMark]
             Cut(v) == [node[v] EXCEPT !.commands = Append(@, "DISABLE_USER")]
  <1> USE DEF TrafficInv
  <1>1. /\ \A v \in Users : binding[v] \in Bindings /\ node[v] \in Nodes
        /\ \A v \in ActiveIn(S) : v \in Users /\ binding[v].status = "active"
        /\ \A v \in ActiveIn(S) : binding'[v] = Off /\ node'[v] = Cut(v)
        /\ \A v \in Users \ ActiveIn(S) : binding'[v] = binding[v] /\ node'[v] = node[v]
        /\ \A v \in S \ ActiveIn(S) : binding[v].status = "disabled"
        /\ binding' = [v \in Users |-> binding'[v]] /\ node' = [v \in Users |-> node'[v]]
    BY DEF TrafficTyped, DisableIn, CommandIn, ActiveIn, Bindings
  <1>2. ASSUME NEW v \in ActiveIn(S)
        PROVE  /\ Cut(v) \in Nodes /\ Cut(v).made = node[v].made /\ Cut(v).queue = node[v].queue
               /\ Cut(v).commands = Append(node[v].commands, "DISABLE_USER")
               /\ Cut(v).results = node[v].results
    <2>1. node[v] \in Nodes
      BY <1>1
    <2>2. Append(node[v].commands, "DISABLE_USER") \in Seq({"ENSURE_USER", "DISABLE_USER"})
      BY <2>1 DEF Nodes
    <2> QED
      BY <2>1, <2>2 DEF Nodes
  <1>3. Off \in Bindings /\ Off.status = "disabled"
    BY DEF Bindings
  <1> HIDE DEF Cut, Off
  <1>4. binding' \in [Users -> Bindings] /\ node' \in [Users -> Nodes]
    BY <1>1, <1>2, <1>3
  <1>5. /\ \A u \in S : binding'[u].status = "disabled"
        /\ \A u \in Users : binding[u].status = "disabled" => binding'[u].status = "disabled"
    BY <1>1, <1>3
  <1>6. Phases'
    <2> SUFFICES ASSUME NEW v \in Users PROVE Phase(v)'
      BY DEF Phases
    <2>1. CASE v \notin ActiveIn(S)
      BY <1>1, <2>1, PhaseSame DEF Phases
    <2>2. CASE v \in ActiveIn(S)
      BY <1>1, <1>2, <2>2, CutOff DEF Phases, Off
    <2> QED
      BY <2>1, <2>2
  <1>7. \A v \in Users : node'[v].made = node[v].made /\ node'[v].queue = node[v].queue
    BY <1>1, <1>2
  <1>8. ResetBoundary' /\ LedgerAgrees' /\ UnitsConserved'
    BY <1>7 DEF ResetBoundary, LedgerAgrees, UnitsConserved
  <1> QED
    BY <1>4, <1>5, <1>6, <1>8

(* A binding that is off and settled has nothing queued: every unit its    *)
(* user produced has been accounted.                                       *)
LEMMA SettledIsDrained ==
  ASSUME TrafficInv, NEW u \in Users, binding[u].status = "disabled", Settled(u)
  PROVE  BindingOff(u) /\ node[u].queue = <<>>
  <1>1. BindingOff(u)
    BY DEF TrafficInv, Phases, Phase, Settled, BindingOn, CutAhead, ReportAhead
  <1>2. node[u].queue \in Seq(Nat) /\ node[u].made \in Nat /\ Len(node[u].queue) \in Nat
    BY DEF TrafficInv, TrafficTyped, Nodes
  <1>3. CASE binding[u].mark = node[u].made
    <2>1. node[u].made - Len(node[u].queue) >= node[u].made
      BY <1>3 DEF Settled, Accounted
    <2>2. Len(node[u].queue) = 0
      BY ONLY <1>2, <2>1
    <2> QED
      BY <1>1, <1>2, <2>2
  <1> QED
    BY <1>1, <1>3 DEF BindingOff, Marks

(* Restoring a binding whose disable has settled. *)
LEMMA EnsuringKeeps ==
  ASSUME TrafficInv, NEW u \in Users, binding[u].status = "disabled", EnsureBinding(u),
         UNCHANGED <<sub, ledger, epoch, charged>>
  PROVE  /\ binding' \in [Users -> Bindings] /\ node' \in [Users -> Nodes]
         /\ \A v \in Users \ {u} : binding'[v] = binding[v]
         /\ Phases' /\ ResetBoundary' /\ LedgerAgrees' /\ UnitsConserved'
  <1> DEFINE On == [status |-> "active", mark |-> NoMark]
             Ensured == [node[u] EXCEPT !.commands = Append(@, "ENSURE_USER")]
  <1> USE DEF TrafficInv
  <1>1. BindingOff(u)
    BY SettledIsDrained DEF EnsureBinding, CanEnsure
  <1>2. /\ binding' = [binding EXCEPT ![u] = On] /\ On \in Bindings
        /\ node[u] \in Nodes /\ node' = [v \in Users |-> IF v = u THEN Ensured ELSE node[v]]
    BY DEF EnsureBinding, CommandIn, TrafficTyped, Bindings
  <1>3. Append(node[u].commands, "ENSURE_USER") = <<"ENSURE_USER">>
    BY <1>1 DEF BindingOff
  <1>4. <<"ENSURE_USER">> \in Seq({"ENSURE_USER", "DISABLE_USER"})
    OBVIOUS
  <1>5. /\ Ensured \in Nodes /\ Ensured.commands = <<"ENSURE_USER">> /\ Ensured.results = <<>>
        /\ Ensured.made = node[u].made /\ Ensured.queue = node[u].queue
    BY <1>1, <1>2, <1>3, <1>4 DEF Nodes, BindingOff
  <1> HIDE DEF On, Ensured
  <1>6. /\ binding'[u] = On /\ node'[u] = Ensured
        /\ \A v \in Users \ {u} : binding'[v] = binding[v] /\ node'[v] = node[v]
    BY <1>2 DEF TrafficTyped
  <1>7. binding' \in [Users -> Bindings] /\ node' \in [Users -> Nodes]
    BY <1>2, <1>5 DEF TrafficTyped
  <1>8. Phases'
    <2> SUFFICES ASSUME NEW v \in Users PROVE Phase(v)'
      BY DEF Phases
    <2>1. CASE v # u
      BY <1>6, <2>1, PhaseSame DEF Phases
    <2>2. CASE v = u
      BY <1>5, <1>6, <2>2 DEF Phase, BindingOn, On
    <2> QED
      BY <2>1, <2>2
  <1>9. ResetBoundary' /\ LedgerAgrees' /\ UnitsConserved'
    BY <1>5, <1>6 DEF ResetBoundary, LedgerAgrees, UnitsConserved
  <1> QED
    BY <1>6, <1>7, <1>8, <1>9

(* A follow-up or an administrator disables bindings. *)
LEMMA DisconnectKeeps ==
  ASSUME TrafficInv, NEW S \in SUBSET Users, Disconnect(S)
  PROVE  TrafficInv'
  <1> USE ResetAssumption DEF TrafficInv, Disconnect
  <1>1. /\ binding' \in [Users -> Bindings] /\ node' \in [Users -> Nodes]
        /\ \A u \in Users : binding[u].status = "disabled" => binding'[u].status = "disabled"
        /\ Phases' /\ ResetBoundary' /\ LedgerAgrees' /\ UnitsConserved'
    BY DisablingKeeps
  <1>2. /\ deferred' \in SUBSET {"sync", "disconnect"} /\ budget' \in Budgets
        /\ budget'.resets = budget.resets
    BY DEF TrafficTyped, Budgets
  <1>3. UNCHANGED <<sub, ledger, provLock, usageLock, handler, epoch, charged>>
    OBVIOUS
  <1>4. TrafficTyped'
    BY <1>1, <1>2, <1>3 DEF TrafficTyped
  <1>5. HandlersOk'
    BY <1>1, <1>3, HandlersUndisturbed
  <1>6. ResetsFit'
    BY <1>2, <1>3, <1>4, ResetsSame
  <1> QED
    BY <1>1, <1>4, <1>5, <1>6

(* A client connects, under both locks. *)
LEMMA ConnectClientKeeps ==
  ASSUME TrafficInv, NEW u \in Users, ConnectClient(u)
  PROVE  TrafficInv'
  <1> USE ResetAssumption DEF TrafficInv, ConnectClient
  <1>1. /\ binding' \in [Users -> Bindings] /\ node' \in [Users -> Nodes]
        /\ Phases' /\ ResetBoundary' /\ LedgerAgrees' /\ UnitsConserved'
    BY EnsuringKeeps
  <1>2. UNCHANGED <<sub, ledger, provLock, usageLock, handler, deferred, epoch, charged, budget>>
    OBVIOUS
  <1>3. TrafficTyped'
    BY <1>1, <1>2 DEF TrafficTyped
  <1>4. HandlersOk'
    BY <1>2 DEF HandlersOk, HandlerOk
  <1>5. ResetsFit'
    BY <1>2, <1>3, ResetsSame
  <1> QED
    BY <1>1, <1>3, <1>4, <1>5

(* A reset disables its target. *)
LEMMA QuiesceKeeps ==
  ASSUME TrafficInv, NEW p \in ResetProcs, Quiesce(p)
  PROVE  TrafficInv'
  <1> USE ResetAssumption DEF TrafficInv
  <1> DEFINE h == [handler[p] EXCEPT !.step = "settle", !.todo = ActiveIn(handler[p].target)]
  <1>1. handler[p] \in ResetHandlers /\ handler[p].target \in SUBSET Users /\ HandlerOk(p)
    BY DEF TrafficTyped, ResetHandlers, HandlersOk
  <1>2. /\ handler' = [handler EXCEPT ![p] = h] /\ h \in ResetHandlers
        /\ h.step = "settle" /\ h.op = handler[p].op /\ h.target = handler[p].target
    BY <1>1 DEF Quiesce, ResetHandlers, ActiveIn
  <1>3. handler[p].step = "quiesce" /\ handler[p].op \in Resets /\ provLock = p
    BY <1>1 DEF Quiesce, HandlerOk
  <1> HIDE DEF h
  <1>4. /\ binding' \in [Users -> Bindings] /\ node' \in [Users -> Nodes]
        /\ \A u \in handler[p].target : binding'[u].status = "disabled"
        /\ \A u \in Users : binding[u].status = "disabled" => binding'[u].status = "disabled"
        /\ Phases' /\ ResetBoundary' /\ LedgerAgrees' /\ UnitsConserved'
    BY <1>1, DisablingKeeps DEF Quiesce
  <1>5. UNCHANGED <<sub, ledger, provLock, usageLock, deferred, epoch, charged, budget>>
    BY DEF Quiesce
  <1>6. TrafficTyped'
    BY <1>2, <1>4, <1>5 DEF TrafficTyped
  <1>7. HandlersOk'
    <2> SUFFICES ASSUME NEW q \in ResetProcs PROVE HandlerOk(q)'
      BY DEF HandlersOk
    <2>1. CASE q = p
      <3>1. handler'[q] = h
        BY <1>2, <2>1 DEF TrafficTyped
      <3> QED
        BY <1>2, <1>3, <1>4, <1>5, <2>1, <3>1 DEF HandlerOk, Resets
    <2>2. CASE q # p
      <3>1. handler'[q] = handler[q] /\ HandlerOk(q)
        BY <1>2, <2>2 DEF TrafficTyped, HandlersOk
      <3>2. handler[q].step \notin {"settle", "counters", "chunk"}
        BY <1>3, <2>2, <3>1 DEF HandlerOk
      <3> QED
        BY <1>5, <3>1, <3>2 DEF HandlerOk
    <2> QED
      BY <2>1, <2>2
  <1>8. ResetsFit'
    BY <1>2, <1>5, <1>6, ResetsSame DEF TrafficTyped
  <1> QED
    BY <1>4, <1>6, <1>7, <1>8

(* A batch is accounted: it is never past the watermark of a binding that  *)
(* was cut off, so the unit is charged; exhausting the quota cuts every    *)
(* binding off in the same transaction.                                    *)
LEMMA IngestBatchKeeps ==
  ASSUME TrafficInv, NEW u \in Users, IngestBatch(u)
  PROVE  TrafficInv'
  <1> USE ResetAssumption DEF TrafficInv
  <1> DEFINE used  == sub.used + 1
             state == IF sub.state = "active" THEN ResolveState("active", used) ELSE sub.state
             drained == [node EXCEPT ![u].queue = Tail(@)]
             stops == IF state # "active" THEN ActiveIn(Users) ELSE {}
             Cut(v) == [drained[v] EXCEPT !.commands = Append(@, "DISABLE_USER")]
             Off == [status |-> "disabled", mark |-> NoMark]
  <1>0. /\ node[u] \in Nodes /\ node[u].queue \in Seq(Nat) /\ node[u].made \in Nat
        /\ Len(node[u].queue) \in Nat /\ node[u].queue # <<>> /\ Len(node[u].queue) > 0
    BY DEF TrafficTyped, Nodes, IngestBatch
  <1>1. ~PastWatermark(u)
    <2> SUFFICES ASSUME PastWatermark(u) PROVE FALSE
      OBVIOUS
    <2>1. BindingOff(u)
      BY DEF PastWatermark, Phases, Phase, BindingOn, CutAhead, ReportAhead
    <2>2. binding[u].mark = node[u].made
      BY <1>0, <2>1 DEF BindingOff, Marks
    <2>3. node[u].made - Len(node[u].queue) + 1 > node[u].made
      BY <2>2 DEF PastWatermark, Accounted
    <2> QED
      BY ONLY <1>0, <2>3
  <1>2. /\ usageLock = Nobody
        /\ sub' = [state |-> state, used |-> used]
        /\ ledger' = [ledger EXCEPT ![u] = @ + 1]
        /\ charged' = [charged EXCEPT ![u] = @ + 1]
        /\ binding' = DisableIn(stops)
        /\ node' = [v \in Users |-> IF v \in stops THEN Cut(v) ELSE drained[v]]
        /\ UNCHANGED <<provLock, usageLock, handler, deferred, epoch, budget>>
    BY <1>1 DEF IngestBatch
  <1>3. sub' \in SubRows /\ sub'.used = sub.used + 1
    <2>1. sub.used \in Nat /\ sub.state \in States
      BY DEF TrafficTyped, SubRows
    <2>2. state \in States
      BY <2>1 DEF ResolveState, States
    <2> HIDE DEF state
    <2> QED
      BY <1>2, <2>1, <2>2 DEF SubRows
  <1>4. /\ \A v \in Users : drained[v] \in Nodes
        /\ \A v \in Users \ {u} : drained[v] = node[v]
        /\ drained[u].queue = Tail(node[u].queue) /\ drained[u].made = node[u].made
        /\ drained[u].commands = node[u].commands /\ drained[u].results = node[u].results
        /\ drained[u].serving = node[u].serving
    <2>1. Tail(node[u].queue) \in Seq(Nat)
      BY <1>0
    <2>2. drained = [node EXCEPT ![u] = [node[u] EXCEPT !.queue = Tail(@)]]
      OBVIOUS
    <2>3. [node[u] EXCEPT !.queue = Tail(@)] \in Nodes
      BY <1>0, <2>1 DEF Nodes
    <2> HIDE DEF drained
    <2> QED
      BY <1>0, <2>2, <2>3 DEF TrafficTyped, Nodes
  <1> HIDE DEF drained
  <1>5. ASSUME NEW v \in Users
        PROVE  /\ Cut(v) \in Nodes /\ Cut(v).made = drained[v].made /\ Cut(v).queue = drained[v].queue
               /\ Cut(v).commands = Append(drained[v].commands, "DISABLE_USER")
               /\ Cut(v).results = drained[v].results
    <2>1. drained[v] \in Nodes
      BY <1>4
    <2>2. Append(drained[v].commands, "DISABLE_USER") \in Seq({"ENSURE_USER", "DISABLE_USER"})
      BY <2>1 DEF Nodes
    <2> QED
      BY <2>1, <2>2 DEF Nodes
  <1>6. /\ stops \in SUBSET Users /\ \A v \in stops : binding[v].status = "active"
        /\ ActiveIn(stops) = stops
    BY DEF ActiveIn
  <1> HIDE DEF Cut, stops, state, used
  <1>7. /\ \A v \in stops : binding'[v] = Off /\ node'[v] = Cut(v)
        /\ \A v \in Users \ stops : binding'[v] = binding[v] /\ node'[v] = drained[v]
        /\ binding' = [v \in Users |-> binding'[v]] /\ node' = [v \in Users |-> node'[v]]
    BY <1>2, <1>6 DEF DisableIn
  <1>8. Off \in Bindings /\ \A v \in Users : binding[v] \in Bindings
    BY DEF Bindings, TrafficTyped
  <1>9. binding' \in [Users -> Bindings] /\ node' \in [Users -> Nodes]
    BY <1>4, <1>5, <1>6, <1>7, <1>8
  <1>10. TrafficTyped'
    <2>1. ledger' \in [Users -> Nat] /\ charged' \in [Users -> Nat]
      BY <1>2 DEF TrafficTyped
    <2> QED
      BY <1>2, <1>3, <1>9, <2>1 DEF TrafficTyped
  <1>11. \A v \in Users :
           /\ node'[v].made = node[v].made /\ node'[v].results = node[v].results
           /\ v # u => node'[v].queue = node[v].queue
           /\ v = u => node'[v].queue = Tail(node[v].queue)
           /\ v \in stops => node'[v].commands = Append(node[v].commands, "DISABLE_USER")
           /\ v \notin stops => node'[v].commands = node[v].commands /\ node'[v].serving = node[v].serving
    <2> SUFFICES ASSUME NEW v \in Users
                 PROVE  /\ node'[v].made = node[v].made /\ node'[v].results = node[v].results
                        /\ v # u => node'[v].queue = node[v].queue
                        /\ v = u => node'[v].queue = Tail(node[v].queue)
                        /\ v \in stops => node'[v].commands = Append(node[v].commands, "DISABLE_USER")
                        /\ v \notin stops => /\ node'[v].commands = node[v].commands
                                            /\ node'[v].serving = node[v].serving
      OBVIOUS
    <2>1. /\ drained[v].made = node[v].made /\ drained[v].results = node[v].results
          /\ v # u => drained[v].queue = node[v].queue
          /\ v = u => drained[v].queue = Tail(node[v].queue)
          /\ drained[v].commands = node[v].commands /\ drained[v].serving = node[v].serving
      BY <1>4
    <2>2. CASE v \in stops
      BY <1>5, <1>7, <2>1, <2>2
    <2>3. CASE v \notin stops
      BY <1>7, <2>1, <2>3
    <2> QED
      BY <2>2, <2>3
  <1>12. Phases'
    <2> SUFFICES ASSUME NEW v \in Users PROVE Phase(v)'
      BY DEF Phases
    <2>1. CASE v \in stops
      BY <1>6, <1>7, <1>11, <2>1, CutOff DEF Phases
    <2>2. CASE v \notin stops /\ v # u
      BY <1>4, <1>7, <2>2, PhaseSame DEF Phases
    <2>3. CASE v \notin stops /\ v = u
      <3>1. /\ binding'[u] = binding[u] /\ node'[u].commands = node[u].commands
            /\ node'[u].results = node[u].results /\ node'[u].made = node[u].made
            /\ node'[u].serving = node[u].serving
        BY <1>7, <1>11, <2>3
      <3>2. \A m : Marks(u, m) => Marks(u, m)'
        BY <1>0, <3>1 DEF Marks
      <3> QED
        BY <2>3, <3>1, <3>2 DEF Phases, Phase, BindingOn, CutAhead, ReportAhead, BindingOff
    <2> QED
      BY <2>1, <2>2, <2>3
  <1>13. HandlersOk'
    <2>1. \A v \in Users : binding[v].status = "disabled" => binding'[v].status = "disabled"
      BY <1>7
    <2> QED
      BY <1>2, <2>1, HandlersUndisturbed
  <1>14. ResetsFit'
    BY <1>2, <1>10, ResetsSame
  <1>15. ResetBoundary'
    <2> DEFINE q == node[u].queue
    <2>1. q \in Seq(Nat) /\ q # <<>> /\ node'[u].queue = Tail(q) /\ epoch' = epoch
      BY <1>0, <1>2, <1>11
    <2>2. \A i \in DOMAIN node[u].queue : node[u].queue[i] = epoch[u]
      BY Zenon DEF ResetBoundary
    <2>3. \A i \in DOMAIN q : q[i] = epoch[u]
      BY <2>2
    <2> HIDE DEF q
    <2>4. \A i \in DOMAIN Tail(q) : Tail(q)[i] = epoch[u]
      BY ONLY <2>1, <2>3
    <2>5. \A v \in Users \ {u} : \A i \in DOMAIN node'[v].queue : node'[v].queue[i] = epoch[v]
      BY <1>11 DEF ResetBoundary
    <2> QED
      BY <2>1, <2>4, <2>5 DEF ResetBoundary
  <1>16. LedgerAgrees'
    BY <1>2, <1>3, SumLedgerAdd DEF LedgerAgrees, TrafficTyped
  <1>17. UnitsConserved'
    <2>1. Len(node'[u].queue) = Len(node[u].queue) - 1
      <3>1. node'[u].queue = Tail(node[u].queue)
        BY <1>11
      <3>2. Len(Tail(node[u].queue)) = Len(node[u].queue) - 1
        BY ONLY <1>0
      <3> QED
        BY <3>1, <3>2
    <2>2. charged[u] \in Nat /\ charged'[u] = charged[u] + 1 /\ \A v \in Users \ {u} : charged'[v] = charged[v]
      BY <1>2 DEF TrafficTyped
    <2>3. node[u].made = charged[u] + Len(node[u].queue) /\ node'[u].made = node[u].made
      BY <1>11 DEF UnitsConserved
    <2>4. node'[u].made = charged'[u] + Len(node'[u].queue)
      BY ONLY <1>0, <2>1, <2>2, <2>3
    <2>5. \A v \in Users \ {u} : node'[v].made = charged'[v] + Len(node'[v].queue)
      BY <1>11, <2>2 DEF UnitsConserved
    <2> QED
      BY <2>4, <2>5 DEF UnitsConserved
  <1> QED
    BY <1>10, <1>12, <1>13, <1>14, <1>15, <1>16, <1>17

(* The counter transaction: every binding of the target is off and settled *)
(* or the transaction aborts, so nothing of the target is queued.          *)
LEMMA ResetCountersKeeps ==
  ASSUME TrafficInv, NEW p \in ResetProcs, ResetCounters(p)
  PROVE  TrafficInv'
  <1> USE ResetAssumption, IdleTyped DEF TrafficInv
  <1> DEFINE target == handler[p].target
             kept   == [u \in Users |-> IF u \in target THEN 0 ELSE ledger[u]]
             prefer == IF handler[p].op = "renew" THEN "active"
                       ELSE IF sub.state = "paused" THEN "paused" ELSE "active"
  <1>1. /\ handler[p] \in ResetHandlers /\ target \in SUBSET Users /\ HandlerOk(p)
        /\ handler[p].step = "counters" /\ usageLock = Nobody
        /\ handler[p].op \in Resets /\ provLock = p /\ \A u \in target : binding[u].status = "disabled"
    BY DEF TrafficTyped, ResetHandlers, HandlersOk, HandlerOk, ResetCounters
  <1>2. /\ handler' = [handler EXCEPT ![p] = Idle] /\ provLock' = Nobody
        /\ UNCHANGED <<binding, node, usageLock, charged, budget>>
    BY <1>1 DEF ResetCounters, End, Release
  <1>3. /\ handler'[p] = Idle /\ \A q \in ResetProcs \ {p} : handler'[q] = handler[q]
        /\ handler' \in [ResetProcs -> ResetHandlers]
    BY <1>2 DEF TrafficTyped
  <1>4. Phases' /\ UnitsConserved'
    <2>1. Phases'
      BY <1>2, PhaseSame DEF Phases
    <2> QED
      BY <1>2, <2>1 DEF UnitsConserved
  <1>5. HandlersOk'
    <2> SUFFICES ASSUME NEW q \in ResetProcs PROVE HandlerOk(q)'
      BY DEF HandlersOk
    <2>1. CASE q = p
      BY <1>3, <2>1 DEF HandlerOk
    <2>2. CASE q # p
      <3>1. handler'[q] = handler[q] /\ HandlerOk(q)
        BY <1>3, <2>2 DEF HandlersOk
      <3>2. handler[q].step \notin {"quiesce", "settle", "counters", "plan", "chunk", "write"}
        BY <1>1, <2>2, <3>1 DEF HandlerOk
      <3> QED
        BY <3>1, <3>2 DEF HandlerOk
    <2> QED
      BY <2>1, <2>2
  <1>6. Resetting' = Resetting \ {p} /\ p \in Resetting
    BY <1>1, <1>3 DEF Resetting, Resets
  <1>7. Cardinality(Resetting') = Cardinality(Resetting) - 1
    BY <1>6, ResettingFinite, FS_RemoveElement
  <1>8. CASE Unsettled(target) # {}
    <2>1. UNCHANGED <<sub, ledger, epoch, deferred>>
      BY <1>8 DEF ResetCounters
    <2>2. TrafficTyped'
      BY <1>2, <1>3, <2>1 DEF TrafficTyped
    <2>3. ResetsFit'
      BY <1>2, <2>1, <2>2, <1>3, ResetsSame DEF Resets
    <2>4. ResetBoundary' /\ LedgerAgrees'
      BY <1>2, <2>1 DEF ResetBoundary, LedgerAgrees
    <2> QED
      BY <1>4, <1>5, <2>2, <2>3, <2>4
  <1>9. CASE Unsettled(target) = {}
    <2>1. /\ ledger' = kept /\ deferred' = deferred \cup {"sync"}
          /\ sub' = [state |-> ResolveState(prefer, SumLedger(kept)), used |-> SumLedger(kept)]
          /\ epoch' = [u \in Users |-> IF u \in target THEN epoch[u] + 1 ELSE epoch[u]]
      BY <1>9 DEF ResetCounters, UsedAfterReset
    <2>2. kept \in [Users -> Nat] /\ ResolveState(prefer, SumLedger(kept)) \in States
      BY DEF TrafficTyped, ResolveState, States
    <2> HIDE DEF kept
    <2>3. SumLedger(kept) \in Nat
      BY <2>2, UnitsFinite
    <2>4. sub' \in SubRows /\ sub'.used = SumLedger(kept)
      BY <2>1, <2>2, <2>3 DEF SubRows
    <2>5. /\ epoch' \in [Users -> Nat]
          /\ \A u \in target : u \in Users /\ epoch'[u] = epoch[u] + 1
          /\ \A u \in Users \ target : epoch'[u] = epoch[u]
      BY <1>1, <2>1 DEF TrafficTyped
    <2>6. TrafficTyped'
      BY <1>2, <1>3, <2>1, <2>2, <2>4, <2>5 DEF TrafficTyped
    <2>7. ResetsFit'
      <3> SUFFICES ASSUME NEW u \in Users
                   PROVE  epoch'[u] + budget'.resets + Cardinality(Resetting') <= MaxResets
        BY DEF ResetsFit
      <3>1. /\ epoch'[u] = epoch[u] \/ epoch'[u] = epoch[u] + 1
            /\ epoch[u] \in Nat /\ budget.resets \in Nat /\ budget' = budget
            /\ epoch[u] + budget.resets + Cardinality(Resetting) <= MaxResets
        BY <1>2, <2>5 DEF ResetsFit, TrafficTyped, Budgets
      <3> QED
        BY <1>7, <3>1, ResettingFinite
    <2>8. ResetBoundary'
      <3> SUFFICES ASSUME NEW u \in Users, NEW i \in DOMAIN node[u].queue
                   PROVE  node[u].queue[i] = epoch'[u]
        BY <1>2 DEF ResetBoundary
      <3>1. CASE u \in target
        <4>1. Settled(u)
          BY <1>1, <1>9, <3>1 DEF Unsettled
        <4>2. node[u].queue = <<>>
          BY <1>1, <3>1, <4>1, SettledIsDrained
        <4> QED
          BY <4>2
      <3>2. CASE u \notin target
        BY <2>5, <3>2 DEF ResetBoundary
      <3> QED
        BY <3>1, <3>2
    <2>9. LedgerAgrees'
      BY <2>1, <2>4 DEF LedgerAgrees
    <2> QED
      BY <1>4, <1>5, <2>6, <2>7, <2>8, <2>9
  <1> QED
    BY <1>8, <1>9

(* One chunk of a sync: a binding it restores was off until now. *)
LEMMA SyncChunkKeeps ==
  ASSUME TrafficInv, NEW p \in ResetProcs, SyncChunk(p)
  PROVE  TrafficInv'
  <1> USE ResetAssumption, IdleTyped DEF TrafficInv
  <1>1. PICK u \in handler[p].todo :
          /\ handler[p].step = "chunk" /\ usageLock = Nobody
          /\ \/ /\ handler' = [handler EXCEPT ![p].todo = @ \ {u}]
                /\ UNCHANGED <<binding, node, provLock>>
             \/ /\ EnsureBinding(u) /\ UNCHANGED provLock
                /\ handler' = [handler EXCEPT ![p].todo = @ \ {u}]
             \/ End(p) /\ Release(p) /\ UNCHANGED <<binding, node>>
          /\ UNCHANGED <<sub, ledger, usageLock, deferred, epoch, charged, budget>>
    BY Zenon DEF SyncChunk
  <1>2. /\ handler[p] \in ResetHandlers /\ HandlerOk(p) /\ u \in Users
        /\ handler[p].todo \in SUBSET Users /\ binding[u].status = "disabled"
        /\ provLock = p /\ handler[p].op = "sync"
    BY <1>1 DEF TrafficTyped, ResetHandlers, HandlersOk, HandlerOk
  <1> DEFINE h == [handler[p] EXCEPT !.todo = @ \ {u}]
  <1>3. /\ h \in ResetHandlers /\ h.op = handler[p].op /\ h.step = handler[p].step
        /\ h.todo = handler[p].todo \ {u}
    BY <1>2 DEF ResetHandlers
  <1>4. CASE handler' = [handler EXCEPT ![p].todo = @ \ {u}] /\ UNCHANGED provLock
             /\ (UNCHANGED <<binding, node>> \/ EnsureBinding(u))
    <2>1. handler' = [handler EXCEPT ![p] = h]
      BY <1>4
    <2> HIDE DEF h
    <2>2. handler'[p] = h /\ (\A q \in ResetProcs \ {p} : handler'[q] = handler[q])
          /\ handler' \in [ResetProcs -> ResetHandlers]
      BY <1>3, <2>1 DEF TrafficTyped
    <2>3. /\ binding' \in [Users -> Bindings] /\ node' \in [Users -> Nodes]
          /\ \A v \in Users \ {u} : binding'[v] = binding[v]
          /\ Phases' /\ ResetBoundary' /\ LedgerAgrees' /\ UnitsConserved'
      <3>1. CASE UNCHANGED <<binding, node>>
        BY <1>1, <3>1, QuietKeeps DEF TrafficTyped
      <3>2. CASE EnsureBinding(u)
        BY <1>1, <1>2, <3>2, EnsuringKeeps
      <3> QED
        BY <1>4, <3>1, <3>2
    <2>4. TrafficTyped'
      BY <1>1, <1>4, <2>2, <2>3 DEF TrafficTyped
    <2>5. HandlersOk'
      <3> SUFFICES ASSUME NEW q \in ResetProcs PROVE HandlerOk(q)'
        BY DEF HandlersOk
      <3>1. CASE q = p
        BY <1>1, <1>2, <1>3, <1>4, <2>2, <2>3, <3>1 DEF HandlerOk
      <3>2. CASE q # p
        <4>1. handler'[q] = handler[q] /\ HandlerOk(q)
          BY <2>2, <3>2 DEF HandlersOk
        <4>2. handler[q].step \notin {"quiesce", "settle", "counters", "plan", "chunk"}
          BY <1>2, <3>2, <4>1 DEF HandlerOk
        <4> QED
          BY <1>1, <4>1, <4>2 DEF HandlerOk
      <3> QED
        BY <3>1, <3>2
    <2>6. ResetsFit'
      BY <1>1, <1>3, <2>2, <2>4, ResetsSame
    <2> QED
      BY <2>3, <2>4, <2>5, <2>6
  <1>5. CASE End(p) /\ Release(p) /\ UNCHANGED <<binding, node>>
    <2>1. handler'[p] = Idle /\ (\A q \in ResetProcs \ {p} : handler'[q] = handler[q])
          /\ handler' \in [ResetProcs -> ResetHandlers] /\ provLock' = Nobody
      BY <1>2, <1>5 DEF TrafficTyped, End, Release
    <2>2. Phases' /\ ResetBoundary' /\ LedgerAgrees' /\ UnitsConserved'
      BY <1>1, <1>5, QuietKeeps
    <2>3. TrafficTyped'
      BY <1>1, <1>5, <2>1 DEF TrafficTyped
    <2>4. HandlersOk'
      <3> SUFFICES ASSUME NEW q \in ResetProcs PROVE HandlerOk(q)'
        BY DEF HandlersOk
      <3>1. CASE q = p
        BY <2>1, <3>1 DEF HandlerOk
      <3>2. CASE q # p
        <4>1. handler'[q] = handler[q] /\ HandlerOk(q)
          BY <2>1, <3>2 DEF HandlersOk
        <4>2. handler[q].step \notin {"quiesce", "settle", "counters", "plan", "chunk"}
          BY <1>2, <3>2, <4>1 DEF HandlerOk
        <4> QED
          BY <1>1, <4>1, <4>2 DEF HandlerOk
      <3> QED
        BY <3>1, <3>2
    <2>5. ResetsFit'
      BY <1>1, <2>1, <2>3, ResetsSame DEF Resets
    <2> QED
      BY <2>2, <2>3, <2>4, <2>5
  <1> QED
    BY <1>1, <1>4, <1>5

(* An adjustment writes back the counter it read under the usage lock. *)
LEMMA AdjustWriteKeeps ==
  ASSUME TrafficInv, NEW p \in ResetProcs, NEW s \in {"active", "paused"}, AdjustWrite(p, s)
  PROVE  TrafficInv'
  <1> USE ResetAssumption, IdleTyped DEF TrafficInv
  <1>1. handler[p].step = "write" /\ usageLock = p /\ handler[p].read = sub
    BY DEF AdjustWrite, HandlersOk, HandlerOk
  <1>2. PICK state \in States : sub' = [state |-> state, used |-> sub.used]
    <2>1. ResolveState(s, sub.used) \in States
      BY DEF ResolveState, States
    <2> QED
      BY <1>1, <2>1 DEF AdjustWrite
  <1>3. /\ usageLock' = Nobody /\ handler' = [handler EXCEPT ![p] = Idle]
        /\ deferred' \in SUBSET {"sync", "disconnect"}
        /\ UNCHANGED <<ledger, binding, node, provLock, epoch, charged, budget>>
    BY <1>1 DEF AdjustWrite, End, TrafficTyped
  <1>4. /\ handler'[p] = Idle /\ \A q \in ResetProcs \ {p} : handler'[q] = handler[q]
        /\ handler' \in [ResetProcs -> ResetHandlers]
    BY <1>3 DEF TrafficTyped
  <1>5. sub' \in SubRows /\ sub'.used = sub.used
    BY <1>2 DEF TrafficTyped, SubRows
  <1>6. TrafficTyped'
    BY <1>3, <1>4, <1>5 DEF TrafficTyped
  <1>7. Phases'
    BY <1>3, PhaseSame DEF Phases
  <1>8. ResetBoundary' /\ LedgerAgrees' /\ UnitsConserved'
    BY <1>3, <1>5 DEF ResetBoundary, LedgerAgrees, UnitsConserved
  <1>9. HandlersOk'
    <2> SUFFICES ASSUME NEW q \in ResetProcs PROVE HandlerOk(q)'
      BY DEF HandlersOk
    <2>1. CASE q = p
      BY <1>4, <2>1 DEF HandlerOk
    <2>2. CASE q # p
      <3>1. handler'[q] = handler[q] /\ HandlerOk(q)
        BY <1>4, <2>2 DEF HandlersOk
      <3>2. handler[q].step # "write"
        BY <1>1, <2>2, <3>1 DEF HandlerOk
      <3> QED
        BY <1>3, <3>1, <3>2 DEF HandlerOk
    <2> QED
      BY <2>1, <2>2
  <1>10. ResetsFit'
    BY <1>3, <1>4, <1>6, ResetsSame DEF Resets
  <1> QED
    BY <1>6, <1>7, <1>8, <1>9, <1>10

(* The API process dies: no handler is left, and no lock. *)
LEMMA CrashApiKeeps ==
  ASSUME TrafficInv, CrashApi
  PROVE  TrafficInv'
  <1> USE ResetAssumption, IdleTyped DEF TrafficInv, CrashApi
  <1>1. Phases' /\ ResetBoundary' /\ LedgerAgrees' /\ UnitsConserved'
    BY QuietKeeps
  <1>2. budget' \in Budgets /\ budget'.resets = budget.resets
    BY DEF TrafficTyped, Budgets
  <1>3. TrafficTyped'
    BY <1>2 DEF TrafficTyped
  <1>4. HandlersOk'
    BY DEF HandlersOk, HandlerOk
  <1>5. ResetsFit'
    BY <1>2, <1>3, ResetsSame DEF Resets
  <1> QED
    BY <1>1, <1>3, <1>4, <1>5

(* Every step keeps the invariant. *)
LEMMA TrafficStep ==
  ASSUME TrafficInv, [ResetNext]_resetVars
  PROVE  TrafficInv'
  <1>1. CASE UNCHANGED resetVars
    <2>1. Phases' /\ ResetBoundary' /\ LedgerAgrees' /\ UnitsConserved'
      BY <1>1, QuietKeeps DEF resetVars
    <2>2. TrafficTyped' /\ HandlersOk' /\ ResetsFit'
      BY <1>1 DEF resetVars, TrafficInv, TrafficTyped, HandlersOk, HandlerOk, ResetsFit, Resetting
    <2> QED
      BY <2>1, <2>2 DEF TrafficInv
  <1>2. ASSUME NEW u \in Users, Disconnect({u})
        PROVE  TrafficInv'
    <2>1. {u} \in SUBSET Users
      OBVIOUS
    <2> QED
      BY <1>2, <2>1, DisconnectKeeps
  <1>3. ASSUME Disconnect(Users)
        PROVE  TrafficInv'
    <2>1. Users \in SUBSET Users
      OBVIOUS
    <2> QED
      BY <1>3, <2>1, DisconnectKeeps
  <1>4. ASSUME NEW p \in ResetProcs, NEW u \in Users, StartReset(p, {u}, "reset")
        PROVE  TrafficInv'
    <2>1. {u} \in SUBSET Users /\ "reset" \in Resets
      BY DEF Resets
    <2> QED
      BY <1>4, <2>1, StartResetKeeps
  <1>5. ASSUME NEW p \in ResetProcs, StartReset(p, Users, "renew")
        PROVE  TrafficInv'
    <2>1. Users \in SUBSET Users /\ "renew" \in Resets
      BY DEF Resets
    <2> QED
      BY <1>5, <2>1, StartResetKeeps
  <1>6. CASE ResetNext
    BY <1>2, <1>3, <1>4, <1>5, <1>6, ProduceKeeps, AgentCommandKeeps, CompleteDisableKeeps, IngestBatchKeeps,
       ConnectClientKeeps, TakeProvisioningKeeps, GiveUpKeeps, QuiesceKeeps, AwaitSettledKeeps,
       ResetCountersKeeps, StartSyncKeeps, PlanSyncKeeps, SyncChunkKeeps, EndSyncKeeps, AdjustReadKeeps,
       AdjustWriteKeeps, CrashApiKeeps, Zenon DEF ResetNext
  <1> QED
    BY <1>1, <1>6

(* Bindings, commands, locks and counters stay in step while resets,       *)
(* syncs, adjustments, batches and crashes interleave.                     *)
THEOREM TrafficInvHolds == ResetSpec => []TrafficInv
  BY ResetInitInv, TrafficStep, PTL DEF ResetSpec

(* Once a reset has cleared a user's counters, no unit the user consumed   *)
(* before it is still on its way (resetSubscriptionTrafficCounters).       *)
THEOREM ResetBoundaryHolds == ResetSpec => []ResetBoundary
  <1>1. TrafficInv => ResetBoundary
    BY DEF TrafficInv
  <1> QED
    BY <1>1, TrafficInvHolds, PTL

(* The subscription's counter is the sum of its members' ledgers and no    *)
(* unit the nodes produced is lost.                                        *)
THEOREM TrafficInvariantHolds == ResetSpec => []TrafficInvariant
  <1>1. ASSUME TrafficInv
        PROVE  TrafficInvariant
    <2> USE <1>1, ResetAssumption DEF TrafficInv
    <2>1. \A u \in Users : /\ binding[u].status \in {"active", "disabled"}
                           /\ binding[u].mark \in Nat \cup {NoMark}
                           /\ node[u].made \in 0..MaxUnits
      BY DEF TrafficTyped, Bindings, Nodes
    <2>2. \A u \in Users : Len(node[u].queue) <= node[u].made
      <3> SUFFICES ASSUME NEW u \in Users PROVE Len(node[u].queue) <= node[u].made
        OBVIOUS
      <3>1. node[u].made = charged[u] + Len(node[u].queue)
        BY DEF UnitsConserved
      <3>2. charged[u] \in Nat /\ Len(node[u].queue) \in Nat
        BY DEF TrafficTyped, Nodes
      <3> QED
        BY ONLY <3>1, <3>2
    <2>3. epoch \in [Users -> 0..MaxResets]
      <3> SUFFICES ASSUME NEW u \in Users PROVE epoch[u] \in 0..MaxResets
        BY DEF TrafficTyped
      <3>1. epoch[u] + budget.resets + Cardinality(Resetting) <= MaxResets
        BY DEF ResetsFit
      <3>2. epoch[u] \in Nat /\ budget.resets \in Nat /\ MaxResets \in Nat
        BY DEF TrafficTyped, Budgets
      <3> QED
        BY <3>1, <3>2, ResettingFinite
    <2> QED
      BY <2>1, <2>2, <2>3 DEF TrafficInvariant, ResetTypeOK, TrafficTyped, SubRows
  <1> QED
    BY <1>1, TrafficInvHolds, PTL

(* A step that is not a chunk of a sync and not a connecting client turns  *)
(* no binding on, and those two look at the subscription first.            *)
LEMMA ActivationStep ==
  ASSUME TrafficInv, [ResetNext]_resetVars, NEW u \in Users,
         binding[u].status = "disabled", binding'[u].status = "active"
  PROVE  Eligible
  <1> SUFFICES ASSUME ~Eligible PROVE FALSE
    OBVIOUS
  <1>1. binding \in [Users -> Bindings]
    BY DEF TrafficInv, TrafficTyped
  <1>2. binding' # binding
    OBVIOUS
  <1>3. \A S \in SUBSET Users : binding' # DisableIn(S)
    BY DEF DisableIn
  <1>4. ~UNCHANGED resetVars
    BY <1>2 DEF resetVars
  <1>5. ASSUME NEW v \in Users
        PROVE  /\ ~Produce(v) /\ ~AgentCommand(v) /\ ~CompleteDisable(v) /\ ~IngestBatch(v)
               /\ ~ConnectClient(v) /\ ~Disconnect({v})
    <2>1. ~Produce(v) /\ ~AgentCommand(v) /\ ~ConnectClient(v)
      BY <1>2 DEF Produce, AgentCommand, ConnectClient
    <2>2. ~CompleteDisable(v)
      BY <1>1 DEF CompleteDisable, Bindings
    <2>3. ~IngestBatch(v)
      <3> SUFFICES ASSUME IngestBatch(v) PROVE FALSE
        OBVIOUS
      <3>1. \E S \in SUBSET Users : binding' = DisableIn(S)
        <4>1. ActiveIn(Users) \in SUBSET Users /\ {} \in SUBSET Users
          BY DEF ActiveIn
        <4> QED
          BY <4>1 DEF IngestBatch
      <3> QED
        BY <1>3, <3>1
    <2>4. ~Disconnect({v})
      BY <1>3 DEF Disconnect
    <2> QED
      BY <2>1, <2>2, <2>3, <2>4
  <1>6. ~Disconnect(Users) /\ ~CrashApi
    BY <1>2, <1>3 DEF Disconnect, CrashApi
  <1>7. ASSUME NEW p \in ResetProcs
        PROVE  /\ \A v \in Users : ~StartReset(p, {v}, "reset")
               /\ ~StartReset(p, Users, "renew")
               /\ ~TakeProvisioning(p) /\ ~GiveUp(p)
               /\ ~Quiesce(p) /\ ~AwaitSettled(p) /\ ~ResetCounters(p)
               /\ ~StartSync(p) /\ ~PlanSync(p) /\ ~SyncChunk(p) /\ ~EndSync(p)
               /\ ~AdjustRead(p) /\ \A s \in {"active", "paused"} : ~AdjustWrite(p, s)
    <2>1. /\ \A v \in Users : ~StartReset(p, {v}, "reset")
          /\ ~StartReset(p, Users, "renew")
          /\ ~TakeProvisioning(p) /\ ~GiveUp(p)
      BY <1>2 DEF StartReset, TakeProvisioning, GiveUp
    <2>2. /\ ~AwaitSettled(p) /\ ~ResetCounters(p) /\ ~StartSync(p) /\ ~PlanSync(p) /\ ~EndSync(p)
      BY <1>2 DEF AwaitSettled, ResetCounters, StartSync, PlanSync, EndSync
    <2>3. ~AdjustRead(p) /\ \A s \in {"active", "paused"} : ~AdjustWrite(p, s)
      BY <1>2 DEF AdjustRead, AdjustWrite
    <2>4. ~Quiesce(p)
      <3>1. handler[p].target \in SUBSET Users
        BY DEF TrafficInv, TrafficTyped, ResetHandlers
      <3> QED
        BY <1>3, <3>1 DEF Quiesce
    <2>5. ~SyncChunk(p)
      <3> SUFFICES ASSUME SyncChunk(p) PROVE FALSE
        OBVIOUS
      <3>1. UNCHANGED <<binding, node, provLock>>
        BY Zenon DEF SyncChunk
      <3> QED
        BY <1>2, <3>1
    <2> QED
      BY <2>1, <2>2, <2>3, <2>4, <2>5
  <1> QED
    BY <1>4, <1>5, <1>6, <1>7, Zenon DEF ResetNext

(* Provisioning never overwrites a fresh metering or administrator         *)
(* decision: a binding becomes active only under a subscription that is    *)
(* usable then (syncSubscriptionPanelAccess, connect).                     *)
THEOREM NoStaleActivationHolds == ResetSpec => NoStaleActivation
  <1>1. ASSUME TrafficInv, [ResetNext]_resetVars
        PROVE  [\A u \in Users : binding[u].status = "disabled" /\ binding'[u].status = "active"
                                   => Eligible]_resetVars
    BY <1>1, ActivationStep
  <1> QED
    BY <1>1, TrafficInvHolds, PTL DEF ResetSpec, NoStaleActivation
=============================================================================
