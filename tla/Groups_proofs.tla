----------------------------- MODULE Groups_proofs -----------------------------
(***************************************************************************)
(* Who owns, leaves and writes to a group, for any number of groups, users *)
(* and handlers.                                                           *)
(***************************************************************************)
EXTENDS Groups, FiniteSetTheorems, TLAPS

Owner(g, u) == Active(g, u) /\ Row(g, u).role = "Owner"
Owning      == [role |-> "Owner", status |-> "Active"]

\* What a handler that is to write knows of the rows, whatever others wrote since it looked.
Sound(t) ==
  /\ t.at = "own" => t.group \in groups /\ t.row = Owning
  /\ t.at = "add" => t.row # Owning
  /\ t.at = "created" => Owner(t.group, t.user)
  /\ t.at = "leave" => Has(t.group, t.user) /\ Row(t.group, t.user).role # "Owner"
TasksSound == \A c \in Callers : Sound(task[c])

\* A group has an active owner at most, which its creator becomes, and no other handler
\* is to insert one.
OwnersIn == \A g \in GroupIds, u \in Members : Owner(g, u) => g \in groups
OneOwner == \A g \in GroupIds, u, v \in Members : Owner(g, u) /\ Owner(g, v) => u = v
OwnFirst == \A c \in Callers, u \in Members : AtPoint(c, "own") => ~Owner(task[c].group, u)
OwnAlone == \A c, d \in Callers :
  AtPoint(c, "own") /\ AtPoint(d, "own") /\ task[c].group = task[d].group => c = d

\* CreatorOwns is not inductive: that an owner cannot leave needs the only other way to
\* be one, an invitation, to stay Pending.
GInv == /\ GroupsTypeOK /\ TasksSound /\ OwnersIn /\ OneOwner /\ OwnFirst /\ OwnAlone
        /\ CreatorOwns

(***************************************************************************)
(* Types.                                                                  *)
(***************************************************************************)

USE DEF Points

LEMMA NoTaskTyped == NoTask \in Task
<1>1. (CHOOSE u \in Members : TRUE) \in Members
  BY MemberAssumption
<1>2. (CHOOSE g \in GroupIds : TRUE) \in GroupIds
  BY MemberAssumption
<1> QED BY <1>1, <1>2 DEF NoTask, Task, Membership, AllRoles

LEMMA RowTyped ==
  ASSUME GroupsTypeOK, NEW g \in GroupIds, NEW u \in Members, Has(g, u)
  PROVE  Row(g, u) \in Membership
BY DEF GroupsTypeOK, Has, Row

LEMMA ForTyped ==
  ASSUME NEW point \in Points, NEW g \in GroupIds, NEW u \in Members, NEW row \in Membership
  PROVE  For(point, g, u, row) \in Task
BY NoTaskTyped DEF For, Task

\* Handlers that begin, go on and end.
LEMMA BeginTyped ==
  ASSUME GroupsTypeOK, NEW c \in Callers, NEW t \in Task, Begin(c, t)
  PROVE  task' \in [Callers -> Task]
BY DEF GroupsTypeOK, Begin

LEMMA GoTyped ==
  ASSUME GroupsTypeOK, NEW c \in Callers, NEW point \in Points, Go(c, point)
  PROVE  task' \in [Callers -> Task]
BY DEF GroupsTypeOK, Go, Task

LEMMA DoneTyped ==
  ASSUME GroupsTypeOK, NEW c \in Callers, Done(c)
  PROVE  task' \in [Callers -> Task]
BY NoTaskTyped DEF GroupsTypeOK, Done

\* What keeps the rows and the lists, and the group cache in its bounds.
LEMMA CachesTyped ==
  ASSUME GroupsTypeOK, UNCHANGED <<tables, listed, belongs, created>>,
         task' \in [Callers -> Task], known' \subseteq groups, public' \subseteq Public
  PROVE  GroupsTypeOK'
BY DEF GroupsTypeOK, tables

LEMMA CacheGroupTyped ==
  ASSUME GroupsTypeOK, NEW g \in GroupIds, GetGroup(g)
  PROVE  known' \subseteq groups /\ public' \subseteq Public
BY DEF GroupsTypeOK, GetGroup, CacheGroup

LEMMA InsertTyped ==
  ASSUME GroupsTypeOK, NEW c \in Callers, NEW point \in Points, Inserting(c, point)
  PROVE  /\ member' \in [GroupIds -> [Members -> Membership \cup {NoMember}]]
         /\ task' \in [Callers -> Task]
<1>1. task[c].group \in GroupIds /\ task[c].user \in Members /\ task[c].row \in Membership
  BY DEF GroupsTypeOK, Task
<1>2. CASE Insertable(task[c].group, task[c].user)
  <2>1. Go(c, point) /\ member' = [member EXCEPT ![task[c].group][task[c].user] = task[c].row]
    BY <1>2 DEF Inserting
  <2>2. task' \in [Callers -> Task]
    BY <2>1, GoTyped
  <2> QED BY <1>1, <2>1, <2>2 DEF GroupsTypeOK
<1>3. CASE ~Insertable(task[c].group, task[c].user)
  <2>1. Done(c) /\ member' = member
    BY <1>3 DEF Inserting
  <2> QED BY <2>1, DoneTyped DEF GroupsTypeOK
<1> QED BY <1>2, <1>3

LEMMA CreatingTyped ==
  ASSUME GroupsTypeOK, NEW c \in Callers, NEW u \in Members, NEW g \in GroupIds,
         CreateGroup(c, u, g)
  PROVE  GroupsTypeOK'
<1>1. [role |-> "Owner", status |-> "Active"] \in Membership
  BY DEF Membership, AllRoles
<1>2. task' \in [Callers -> Task]
  BY <1>1, ForTyped, BeginTyped DEF CreateGroup
<1> QED BY <1>2 DEF GroupsTypeOK, CreateGroup, InsertGroup, caches

LEMMA JoiningTyped ==
  ASSUME GroupsTypeOK, NEW c \in Callers, NEW u \in Members, NEW g \in GroupIds
  PROVE  /\ JoinGroup(c, u, g) => GroupsTypeOK'
         /\ LeaveGroup(c, u, g) => GroupsTypeOK'
         /\ SendGroupMessage(c, u, g) => GroupsTypeOK'
         /\ \A inviter \in Members, role \in Roles :
              InviteUser(c, inviter, u, g, role) => GroupsTypeOK'
<1>1. ASSUME JoinGroup(c, u, g) PROVE GroupsTypeOK'
  <2>1. [role |-> "Member", status |-> IF g \in Approving THEN "Pending" ELSE "Active"]
          \in Membership
    BY DEF Membership, AllRoles
  <2>2. task' \in [Callers -> Task]
    BY <1>1, <2>1, ForTyped, BeginTyped DEF JoinGroup
  <2> QED BY <1>1, <2>2, CacheGroupTyped, CachesTyped DEF JoinGroup
<1>2. ASSUME LeaveGroup(c, u, g) PROVE GroupsTypeOK'
  <2>1. Row(g, u) \in Membership
    BY <1>2, RowTyped DEF LeaveGroup
  <2>2. task' \in [Callers -> Task]
    BY <1>2, <2>1, ForTyped, BeginTyped DEF LeaveGroup
  <2> QED BY <1>2, <2>2 DEF GroupsTypeOK, LeaveGroup, caches, tables
<1>3. ASSUME SendGroupMessage(c, u, g) PROVE GroupsTypeOK'
  <2>1. Row(g, u) \in Membership
    BY <1>3, RowTyped DEF SendGroupMessage, MayPost, Active
  <2>2. task' \in [Callers -> Task]
    BY <1>3, <2>1, ForTyped, BeginTyped DEF SendGroupMessage
  <2> QED BY <1>3, <2>2, CacheGroupTyped, CachesTyped DEF SendGroupMessage
<1>4. ASSUME NEW inviter \in Members, NEW role \in Roles, InviteUser(c, inviter, u, g, role)
      PROVE  GroupsTypeOK'
  <2>1. [role |-> role, status |-> "Pending"] \in Membership
    BY RoleAssumption DEF Membership
  <2>2. task' \in [Callers -> Task]
    BY <1>4, <2>1, ForTyped, BeginTyped DEF InviteUser
  <2> QED BY <1>4, <2>2 DEF GroupsTypeOK, InviteUser, caches, tables
<1> QED BY <1>1, <1>2, <1>3, <1>4

LEMMA ListingTyped ==
  ASSUME GroupsTypeOK, Listing
  PROVE  GroupsTypeOK'
<1>1. ASSUME NEW c \in Callers, NEW g \in GroupIds, NEW users \in SUBSET Members,
             ListMembers(c, g, users)
      PROVE  GroupsTypeOK'
  <2>1. [NoTask EXCEPT !.at = "list", !.group = g, !.users = users] \in Task
    BY NoTaskTyped DEF Task
  <2> QED BY <1>1, <2>1, BeginTyped DEF GroupsTypeOK, ListMembers, caches, tables
<1>2. ASSUME NEW c \in Callers, NEW u \in Members, ListOwn(c, u) PROVE GroupsTypeOK'
  <2>1. Memberships(u) \subseteq GroupIds
    BY DEF Memberships
  <2>2. [NoTask EXCEPT !.at = "belong", !.user = u, !.groups = Memberships(u)] \in Task
    BY <2>1, NoTaskTyped DEF Task
  <2> QED BY <1>2, <2>2, BeginTyped DEF GroupsTypeOK, ListOwn, caches, tables
<1>3. ASSUME NEW g \in GroupIds, AgeMembers(g) PROVE GroupsTypeOK'
  BY <1>3 DEF GroupsTypeOK, AgeMembers, tables
<1>4. ASSUME NEW u \in Members, AgeOwn(u) PROVE GroupsTypeOK'
  BY <1>4 DEF GroupsTypeOK, AgeOwn, tables
<1> QED BY <1>1, <1>2, <1>3, <1>4 DEF Listing

LEMMA BrowsingTyped ==
  ASSUME GroupsTypeOK, Browsing
  PROVE  GroupsTypeOK'
<1>1. ASSUME NEW page \in SUBSET GroupIds, NEW named \in BOOLEAN, ListGroups(page, named)
      PROVE  GroupsTypeOK'
  <2>1. page \subseteq groups
    BY <1>1 DEF ListGroups, FilterGroups, LoadGroups
  <2> QED BY <1>1, <2>1 DEF GroupsTypeOK, ListGroups, CachePublicGroups, tables
<1>2. ASSUME NEW g \in GroupIds, FetchGroup(g) PROVE GroupsTypeOK'
  <2>1. task' \in [Callers -> Task]
    BY <1>2 DEF GroupsTypeOK, FetchGroup
  <2> QED BY <1>2, <2>1, CacheGroupTyped, CachesTyped DEF FetchGroup
<1>3. ASSUME NEW g \in GroupIds, AgeGroup(g) PROVE GroupsTypeOK'
  BY <1>3 DEF GroupsTypeOK, AgeGroup, tables
<1> QED BY <1>1, <1>2, <1>3 DEF Browsing

LEMMA ContinuingTyped ==
  ASSUME GroupsTypeOK, TasksSound, NEW c \in Callers
  PROVE  (Progress(c) \/ GroupDbError(c)) => GroupsTypeOK'
<1>t. /\ task[c].group \in GroupIds /\ task[c].user \in Members
      /\ task[c].users \subseteq Members /\ task[c].groups \subseteq GroupIds
  BY DEF GroupsTypeOK, Task
<1>1. ASSUME AddOwner(c) PROVE GroupsTypeOK'
  BY <1>1, InsertTyped DEF GroupsTypeOK, AddOwner, caches
<1>2. ASSUME EndCreate(c) PROVE GroupsTypeOK'
  <2>1. task' \in [Callers -> Task]
    BY <1>2, DoneTyped DEF EndCreate
  <2> QED BY <1>2, <1>t, <2>1 DEF GroupsTypeOK, EndCreate, InvalidateGroupCache, tables
<1>3. ASSUME AddMember(c) PROVE GroupsTypeOK'
  BY <1>3, InsertTyped DEF GroupsTypeOK, AddMember, caches
<1>4. ASSUME CountOwners(c) PROVE GroupsTypeOK'
  <2>1. task' \in [Callers -> Task]
    BY <1>4, GoTyped, DoneTyped DEF CountOwners
  <2> QED BY <1>4, <2>1 DEF GroupsTypeOK, CountOwners, caches, tables
<1>5. ASSUME SetLeft(c) PROVE GroupsTypeOK'
  <2>1. task' \in [Callers -> Task]
    BY <1>5, GoTyped DEF SetLeft
  <2>2. Row(task[c].group, task[c].user) \in Membership
    BY <1>t, <1>5, RowTyped DEF SetLeft, AtPoint, TasksSound, Sound
  <2>3. [Row(task[c].group, task[c].user) EXCEPT !.status = "Left"] \in Membership
    BY <2>2 DEF Membership
  <2> QED BY <1>5, <1>t, <2>1, <2>3 DEF GroupsTypeOK, SetLeft, caches, Row
<1>6. ASSUME Invalidate(c) PROVE GroupsTypeOK'
  <2>1. task' \in [Callers -> Task]
    BY <1>6, DoneTyped DEF Invalidate
  <2> QED BY <1>6, <1>t, <2>1 DEF GroupsTypeOK, Invalidate, tables
<1>7. ASSUME StoreMessage(c) PROVE GroupsTypeOK'
  <2>1. task' \in [Callers -> Task]
    BY <1>7, DoneTyped DEF StoreMessage
  <2> QED BY <1>7, <1>t, <2>1 DEF GroupsTypeOK, StoreMessage, caches
<1>8. ASSUME FillMembers(c) PROVE GroupsTypeOK'
  <2>1. task' \in [Callers -> Task]
    BY <1>8, DoneTyped DEF FillMembers
  <2> QED BY <1>8, <1>t, <2>1 DEF GroupsTypeOK, FillMembers, tables
<1>9. ASSUME FillOwn(c) PROVE GroupsTypeOK'
  <2>1. task' \in [Callers -> Task]
    BY <1>9, DoneTyped DEF FillOwn
  <2> QED BY <1>9, <1>t, <2>1 DEF GroupsTypeOK, FillOwn, tables
<1>10. ASSUME GroupDbError(c) PROVE GroupsTypeOK'
  <2>1. task' \in [Callers -> Task]
    BY <1>10, DoneTyped DEF GroupDbError
  <2> QED BY <1>10, <2>1 DEF GroupsTypeOK, GroupDbError, caches, tables
<1> QED BY <1>1, <1>2, <1>3, <1>4, <1>5, <1>6, <1>7, <1>8, <1>9, <1>10 DEF Progress

LEMMA InitTyped == GroupsInit => GroupsTypeOK
BY NoTaskTyped DEF GroupsInit, GroupsTypeOK, NoLists, NoneBelong

LEMMA TypeStep ==
  ASSUME GroupsTypeOK, TasksSound, [GroupsNext]_groupVars
  PROVE  GroupsTypeOK'
<1>1. CASE Creating
  BY <1>1, CreatingTyped DEF Creating
<1>2. CASE Joining
  BY <1>2, JoiningTyped DEF Joining
<1>3. CASE Listing
  BY <1>3, ListingTyped
<1>4. CASE Browsing
  BY <1>4, BrowsingTyped
<1>5. CASE Continuing
  BY <1>5, ContinuingTyped DEF Continuing
<1>6. CASE GroupRestart
  BY <1>6, NoTaskTyped DEF GroupsTypeOK, GroupRestart, NoLists, NoneBelong, tables
<1>7. CASE UNCHANGED groupVars
  BY <1>7 DEF GroupsTypeOK, groupVars
<1> QED BY <1>1, <1>2, <1>3, <1>4, <1>5, <1>6, <1>7 DEF GroupsNext

(***************************************************************************)
(* Steps that leave the rows alone.                                        *)
(***************************************************************************)

\* c takes up t, and t is not the insertion of an owner.
TakesUp(c, t) == /\ \A d \in Callers : task'[d] = IF d = c THEN t ELSE task[d]
                 /\ Sound(t) /\ t.at # "own"

LEMMA Resting == NoTask.at = "idle" /\ Sound(NoTask)
BY DEF NoTask, Sound

LEMMA DoneTakesUp ==
  ASSUME GroupsTypeOK, NEW c \in Callers, Done(c)
  PROVE  TakesUp(c, NoTask)
BY Resting DEF GroupsTypeOK, Done, TakesUp

LEMMA BeginTakesUp ==
  ASSUME GroupsTypeOK, NEW c \in Callers, NEW t, Begin(c, t), Sound(t), t.at # "own"
  PROVE  TakesUp(c, t)
BY DEF GroupsTypeOK, Begin, TakesUp

LEMMA ForFields ==
  ASSUME NEW point, NEW g, NEW u, NEW row
  PROVE  LET t == For(point, g, u, row) IN
         t.at = point /\ t.group = g /\ t.user = u /\ t.row = row
BY DEF For, NoTask

\* Owners and rows being the same, what is known of them stays.
LEMMA RowsSame ==
  ASSUME GInv, UNCHANGED <<groups, member>>
  PROVE  /\ \A g, u : (Has(g, u)' <=> Has(g, u)) /\ Row(g, u)' = Row(g, u)
         /\ \A g, u : Owner(g, u)' <=> Owner(g, u)
         /\ OwnersIn' /\ OneOwner'
<1>1. \A g, u : (Has(g, u)' <=> Has(g, u)) /\ Row(g, u)' = Row(g, u)
  BY DEF Has, Row
<1>2. \A g, u : Owner(g, u)' <=> Owner(g, u)
  BY <1>1 DEF Owner, Active
<1>3. OwnersIn' /\ OneOwner'
  BY <1>2 DEF GInv, OwnersIn, OneOwner
<1> QED BY <1>1, <1>2, <1>3

LEMMA Quiet ==
  ASSUME GInv, GroupsTypeOK', UNCHANGED tables, UNCHANGED created,
         NEW c \in Callers, NEW t, TakesUp(c, t)
  PROVE  GInv'
<1>1. UNCHANGED <<groups, member, posts>>
  BY DEF tables
<1>2. TasksSound'
  BY <1>1 DEF GInv, TasksSound, TakesUp, Sound, Owner, Active, Has, Row
<1>3. OwnFirst' /\ OwnAlone'
  BY <1>1 DEF GInv, OwnFirst, OwnAlone, TakesUp, AtPoint, Owner, Active, Has, Row
<1>4. OwnersIn' /\ OneOwner'
  BY <1>1, RowsSame
<1>5. CreatorOwns'
  BY <1>1 DEF GInv, CreatorOwns, Active, Has, Row
<1> QED BY <1>2, <1>3, <1>4, <1>5 DEF GInv

LEMMA NoHandler ==
  ASSUME GInv, GroupsTypeOK', UNCHANGED tables, UNCHANGED created,
         \A c \in Callers : task'[c] = task[c] \/ task'[c] = NoTask
  PROVE  GInv'
<1>1. UNCHANGED <<groups, member, posts>>
  BY DEF tables
<1>2. TasksSound'
  BY <1>1, Resting DEF GInv, TasksSound, Sound, Owner, Active, Has, Row
<1>3. OwnFirst' /\ OwnAlone'
  BY <1>1, Resting DEF GInv, OwnFirst, OwnAlone, AtPoint, Owner, Active, Has, Row
<1>4. OwnersIn' /\ OneOwner'
  BY <1>1, RowsSame
<1>5. CreatorOwns'
  BY <1>1 DEF GInv, CreatorOwns, Active, Has, Row
<1> QED BY <1>2, <1>3, <1>4, <1>5 DEF GInv

LEMMA JoiningStep ==
  ASSUME GInv, Joining
  PROVE  GInv'
<1>t. GroupsTypeOK'
  BY JoiningTyped DEF GInv, Joining
<1>1. ASSUME NEW c \in Callers, NEW u \in Members, NEW g \in GroupIds, JoinGroup(c, u, g)
      PROVE  GInv'
  <2> DEFINE row == [role |-> "Member", status |-> IF g \in Approving THEN "Pending" ELSE "Active"]
             t == For("add", g, u, row)
  <2>1. row # Owning
    BY DEF Owning
  <2>2. Sound(t) /\ t.at # "own"
    BY <2>1, ForFields DEF Sound
  <2>3. Begin(c, t)
    BY <1>1 DEF JoinGroup
  <2>4. TakesUp(c, t)
    BY <2>2, <2>3, BeginTakesUp DEF GInv
  <2>5. UNCHANGED tables /\ UNCHANGED created
    BY <1>1 DEF JoinGroup
  <2> QED BY <1>t, <2>4, <2>5, Quiet
<1>2. ASSUME NEW c \in Callers, NEW u \in Members, NEW g \in GroupIds, LeaveGroup(c, u, g)
      PROVE  GInv'
  <2> DEFINE t == For(IF Row(g, u).role = "Owner" THEN "count" ELSE "leave", g, u, Row(g, u))
  <2>1. Sound(t) /\ t.at # "own"
    BY <1>2, ForFields DEF Sound, LeaveGroup
  <2>2. Begin(c, t)
    BY <1>2 DEF LeaveGroup
  <2>3. TakesUp(c, t)
    BY <2>1, <2>2, BeginTakesUp DEF GInv
  <2>4. UNCHANGED tables /\ UNCHANGED created
    BY <1>2 DEF LeaveGroup
  <2> QED BY <1>t, <2>3, <2>4, Quiet
<1>3. ASSUME NEW c \in Callers, NEW u \in Members, NEW g \in GroupIds,
             SendGroupMessage(c, u, g)
      PROVE  GInv'
  <2> DEFINE t == For("post", g, u, Row(g, u))
  <2>1. Sound(t) /\ t.at # "own"
    BY <1>3, ForFields DEF Sound, SendGroupMessage, MayPost, Active
  <2>2. Begin(c, t)
    BY <1>3 DEF SendGroupMessage
  <2>3. TakesUp(c, t)
    BY <2>1, <2>2, BeginTakesUp DEF GInv
  <2>4. UNCHANGED tables /\ UNCHANGED created
    BY <1>3 DEF SendGroupMessage
  <2> QED BY <1>t, <2>3, <2>4, Quiet
<1>4. ASSUME NEW c \in Callers, NEW u \in Members, NEW g \in GroupIds,
             NEW inviter \in Members, NEW role \in Roles, InviteUser(c, inviter, u, g, role)
      PROVE  GInv'
  <2> DEFINE row == [role |-> role, status |-> "Pending"]
             t == For("add", g, u, row)
  <2>1. row # Owning
    BY DEF Owning
  <2>2. Sound(t) /\ t.at # "own"
    BY <2>1, ForFields DEF Sound
  <2>3. Begin(c, t)
    BY <1>4 DEF InviteUser
  <2>4. TakesUp(c, t)
    BY <2>2, <2>3, BeginTakesUp DEF GInv
  <2>5. UNCHANGED tables /\ UNCHANGED created
    BY <1>4 DEF InviteUser
  <2> QED BY <1>t, <2>4, <2>5, Quiet
<1> QED BY <1>1, <1>2, <1>3, <1>4 DEF Joining

LEMMA ListingStep ==
  ASSUME GInv, Listing
  PROVE  GInv'
<1>t. GroupsTypeOK'
  BY ListingTyped DEF GInv
<1>1. ASSUME NEW c \in Callers, NEW g \in GroupIds, NEW users \in SUBSET Members,
             ListMembers(c, g, users)
      PROVE  GInv'
  <2> DEFINE t == [NoTask EXCEPT !.at = "list", !.group = g, !.users = users]
  <2>1. t.at = "list"
    BY DEF NoTask
  <2>2. Begin(c, t) /\ UNCHANGED tables /\ UNCHANGED created
    BY <1>1 DEF ListMembers
  <2>3. TakesUp(c, t)
    BY <2>1, <2>2, BeginTakesUp DEF GInv, Sound
  <2> QED BY <1>t, <2>2, <2>3, Quiet
<1>2. ASSUME NEW c \in Callers, NEW u \in Members, ListOwn(c, u) PROVE GInv'
  <2> DEFINE t == [NoTask EXCEPT !.at = "belong", !.user = u, !.groups = Memberships(u)]
  <2>1. t.at = "belong"
    BY DEF NoTask
  <2>2. Begin(c, t) /\ UNCHANGED tables /\ UNCHANGED created
    BY <1>2 DEF ListOwn
  <2>3. TakesUp(c, t)
    BY <2>1, <2>2, BeginTakesUp DEF GInv, Sound
  <2> QED BY <1>t, <2>2, <2>3, Quiet
<1>3. ASSUME NEW g \in GroupIds, AgeMembers(g) PROVE GInv'
  BY <1>3, <1>t, NoHandler DEF AgeMembers
<1>4. ASSUME NEW u \in Members, AgeOwn(u) PROVE GInv'
  BY <1>4, <1>t, NoHandler DEF AgeOwn
<1> QED BY <1>1, <1>2, <1>3, <1>4 DEF Listing

LEMMA BrowsingStep ==
  ASSUME GInv, Browsing
  PROVE  GInv'
<1>t. GroupsTypeOK'
  BY BrowsingTyped DEF GInv
<1>1. UNCHANGED tables /\ UNCHANGED created /\ UNCHANGED task
  BY DEF Browsing, ListGroups, FetchGroup, AgeGroup
<1> QED BY <1>1, <1>t, NoHandler

LEMMA RestartStep ==
  ASSUME GInv, GroupRestart
  PROVE  GInv'
<1>1. GroupsTypeOK'
  BY TypeStep DEF GInv, GroupsNext
<1> QED BY <1>1, NoHandler DEF GroupRestart

(***************************************************************************)
(* Steps that write rows.                                                  *)
(***************************************************************************)

LEMMA CreatingStep ==
  ASSUME GInv, NEW c \in Callers, NEW u \in Members, NEW g \in GroupIds, CreateGroup(c, u, g)
  PROVE  GInv'
<1> DEFINE t == For("own", g, u, Owning)
<1>1. GroupsTypeOK'
  BY CreatingTyped DEF GInv
<1>2. g \notin groups /\ groups' = groups \cup {g} /\ UNCHANGED <<member, posts, created>>
  BY DEF CreateGroup, InsertGroup
<1>3. t.at = "own" /\ t.group = g /\ t.user = u /\ t.row = Owning
  BY ForFields
<1>4. \A d \in Callers : task'[d] = IF d = c THEN t ELSE task[d]
  BY DEF GInv, GroupsTypeOK, CreateGroup, Begin, Owning
<1> HIDE DEF t
<1>5. \A h, v : (Has(h, v)' <=> Has(h, v)) /\ Row(h, v)' = Row(h, v)
  BY <1>2 DEF Has, Row
<1>6. \A h, v : Owner(h, v)' <=> Owner(h, v)
  BY <1>5 DEF Owner, Active
<1>7. TasksSound'
  <2> SUFFICES ASSUME NEW d \in Callers PROVE Sound(task[d])'
    BY DEF TasksSound
  <2>1. CASE d = c
    BY <2>1, <1>2, <1>3, <1>4 DEF Sound
  <2>2. CASE d # c
    BY <2>2, <1>2, <1>4, <1>5, <1>6 DEF GInv, TasksSound, Sound
  <2> QED BY <2>1, <2>2
<1>8. OwnersIn' /\ OneOwner'
  BY <1>2, <1>6 DEF GInv, OwnersIn, OneOwner
<1>9. OwnFirst'
  BY <1>2, <1>3, <1>4, <1>6 DEF GInv, OwnersIn, OwnFirst, AtPoint
<1>10. OwnAlone'
  BY <1>2, <1>3, <1>4 DEF GInv, OwnAlone, TasksSound, Sound, AtPoint
<1>11. CreatorOwns'
  BY <1>2 DEF GInv, CreatorOwns, Active, Has, Row
<1> QED BY <1>1, <1>7, <1>8, <1>9, <1>10, <1>11 DEF GInv

\* An insertion adds a row where none was, or ends the handler.
Inserts(g, u, row) ==
  /\ ~Has(g, u) /\ member'[g][u] = row /\ row # NoMember
  /\ \A h \in GroupIds, v \in Members : <<h, v>> # <<g, u>> => member'[h][v] = member[h][v]

LEMMA InsertCases ==
  ASSUME GroupsTypeOK, NEW c \in Callers, NEW point \in Points, Inserting(c, point)
  PROVE  \/ Done(c) /\ UNCHANGED member
         \/ Go(c, point) /\ Inserts(task[c].group, task[c].user, task[c].row)
<1>1. task[c].group \in GroupIds /\ task[c].user \in Members /\ task[c].row \in Membership
  BY DEF GroupsTypeOK, Task
<1>2. CASE Insertable(task[c].group, task[c].user)
  <2>1. Go(c, point) /\ member' = [member EXCEPT ![task[c].group][task[c].user] = task[c].row]
    BY <1>2 DEF Inserting
  <2>2. task[c].row # NoMember
    BY <1>1, RowAssumption DEF Membership
  <2>3. member'[task[c].group][task[c].user] = task[c].row
    BY <1>1, <2>1 DEF GroupsTypeOK
  <2> QED BY <1>1, <1>2, <2>1, <2>2, <2>3 DEF GroupsTypeOK, Inserts, Insertable
<1>3. CASE ~Insertable(task[c].group, task[c].user)
  BY <1>3 DEF Inserting
<1> QED BY <1>2, <1>3

\* What an insertion leaves as it was.
LEMMA InsertKeeps ==
  ASSUME NEW g \in GroupIds, NEW u \in Members, NEW row \in Membership, Inserts(g, u, row)
  PROVE  /\ \A h \in GroupIds, v \in Members :
              Has(h, v) => Has(h, v)' /\ Row(h, v)' = Row(h, v)
         /\ \A h \in GroupIds, v \in Members :
              Owner(h, v)' <=> (Owner(h, v) \/ (h = g /\ v = u /\ row = Owning))
<1>1. \A h \in GroupIds, v \in Members :
        Has(h, v) => Has(h, v)' /\ Row(h, v)' = Row(h, v)
  BY DEF Inserts, Has, Row
<1>2. ASSUME NEW h \in GroupIds, NEW v \in Members
      PROVE  Owner(h, v)' <=> (Owner(h, v) \/ (h = g /\ v = u /\ row = Owning))
  <2>1. CASE h = g /\ v = u
    <3>1. ~Owner(g, u)
      BY DEF Inserts, Owner, Active
    <3>2. (row.role = "Owner" /\ row.status = "Active") <=> row = Owning
      BY DEF Owning, Membership
    <3> QED BY <2>1, <3>1, <3>2 DEF Inserts, Owner, Active, Has, Row
  <2>2. CASE <<h, v>> # <<g, u>>
    BY <2>2 DEF Inserts, Owner, Active, Has, Row
  <2> QED BY <2>1, <2>2
<1> QED BY <1>1, <1>2

LEMMA TaskFields ==
  ASSUME GroupsTypeOK, NEW c \in Callers
  PROVE  /\ task[c].group \in GroupIds /\ task[c].user \in Members
         /\ task[c].row \in Membership
BY DEF GroupsTypeOK, Task

\* c goes on to a point other than its insertion, by which it has become sound.
LEMMA GoFields ==
  ASSUME GroupsTypeOK, NEW c \in Callers, NEW point, Go(c, point)
  PROVE  /\ task'[c].at = point /\ task'[c].group = task[c].group
         /\ task'[c].user = task[c].user /\ task'[c].row = task[c].row
         /\ \A d \in Callers : d # c => task'[d] = task[d]
BY DEF GroupsTypeOK, Go, Task

\* What holds of other handlers after rows are added holds of c at a harmless point too.
LEMMA RowsAdded ==
  ASSUME GInv, GroupsTypeOK', UNCHANGED <<groups, posts, created>>,
         NEW c \in Callers, NEW point \in {"created", "changed"}, Go(c, point),
         Inserts(task[c].group, task[c].user, task[c].row),
         task[c].row = Owning <=> point = "created",
         point = "created" => AtPoint(c, "own")
  PROVE  GInv'
<1> DEFINE g == task[c].group
           u == task[c].user
<1>1. \A h \in GroupIds, v \in Members :
        /\ Has(h, v) => Has(h, v)' /\ Row(h, v)' = Row(h, v)
        /\ \A x, y : x = g /\ y = u =>
             (Owner(h, v)' <=> (Owner(h, v) \/ (h = x /\ v = y /\ point = "created")))
  BY TaskFields, InsertKeeps DEF GInv
<1>2. \A d \in Callers : /\ task'[d].group \in GroupIds /\ task'[d].user \in Members
                         /\ d # c => task'[d] = task[d]
  BY GoFields DEF GInv, GroupsTypeOK, Task
<1>3. TasksSound'
  <2> SUFFICES ASSUME NEW d \in Callers PROVE Sound(task[d])'
    BY DEF TasksSound
  <2>1. CASE d = c
    <3>1. task'[c].group = task[c].group /\ task'[c].user = task[c].user /\ task'[c].at = point
      BY GoFields DEF GInv
    <3>2. point = "created" => Owner(task[c].group, task[c].user)'
      <4>1. \A h \in GroupIds, v \in Members :
              h = task[c].group /\ v = task[c].user /\ point = "created" => Owner(h, v)'
        BY <1>1
      <4> QED BY <4>1, <1>2, <3>1 DEF GInv
    <3> QED BY <2>1, <3>1, <3>2 DEF Sound
  <2>2. CASE d # c
    BY <2>2, <1>1, <1>2 DEF GInv, TasksSound, Sound
  <2> QED BY <2>1, <2>2
<1>4. OwnersIn'
  BY <1>1, TaskFields DEF GInv, OwnersIn, TasksSound, Sound, AtPoint
<1>5. OneOwner'
  BY <1>1, TaskFields DEF GInv, OneOwner, OwnFirst
<1>6. \A d \in Callers : AtPoint(d, "own")' => d # c /\ AtPoint(d, "own")
  BY GoFields DEF GInv, AtPoint
<1>7. OwnFirst'
  <2> SUFFICES ASSUME NEW d \in Callers, NEW v \in Members, AtPoint(d, "own")'
               PROVE  ~Owner(task[d].group, v)'
    BY DEF OwnFirst
  <2>1. d # c /\ AtPoint(d, "own") /\ task'[d] = task[d] /\ task[d].group \in GroupIds
    BY <1>2, <1>6
  <2>2. ~Owner(task[d].group, v) /\ (point = "created" => task[d].group # g)
    BY <2>1 DEF GInv, OwnFirst, OwnAlone
  <2>3. \A h \in GroupIds : h = task[d].group => ~Owner(h, v)'
    BY <1>1, <2>2
  <2> QED BY <2>1, <2>3
<1>8. OwnAlone'
  BY <1>2, <1>6 DEF GInv, OwnAlone
<1>9. CreatorOwns'
  BY <1>1 DEF GInv, CreatorOwns, Owner
<1> QED BY <1>3, <1>4, <1>5, <1>7, <1>8, <1>9 DEF GInv

LEMMA AddOwnerStep ==
  ASSUME GInv, NEW c \in Callers, AddOwner(c)
  PROVE  GInv'
<1>1. GroupsTypeOK'
  BY ContinuingTyped DEF GInv, Progress
<1>2. UNCHANGED <<groups, posts, created>>
  BY DEF AddOwner
<1>3. task[c].row = Owning /\ AtPoint(c, "own")
  BY DEF GInv, AddOwner, TasksSound, Sound, AtPoint
<1>4. CASE Done(c) /\ UNCHANGED member
  BY <1>1, <1>2, <1>4, DoneTakesUp, Quiet DEF GInv, tables
<1>5. CASE Go(c, "created") /\ Inserts(task[c].group, task[c].user, task[c].row)
  BY <1>1, <1>2, <1>3, <1>5, RowsAdded
<1> QED BY <1>4, <1>5, InsertCases DEF AddOwner, GInv

LEMMA AddMemberStep ==
  ASSUME GInv, NEW c \in Callers, AddMember(c)
  PROVE  GInv'
<1>1. GroupsTypeOK'
  BY ContinuingTyped DEF GInv, Progress
<1>2. UNCHANGED <<groups, posts, created>>
  BY DEF AddMember
<1>3. task[c].row # Owning
  BY DEF GInv, AddMember, TasksSound, Sound, AtPoint
<1>4. CASE Done(c) /\ UNCHANGED member
  BY <1>1, <1>2, <1>4, DoneTakesUp, Quiet DEF GInv, tables
<1>5. CASE Go(c, "changed") /\ Inserts(task[c].group, task[c].user, task[c].row)
  BY <1>1, <1>2, <1>3, <1>5, RowsAdded
<1> QED BY <1>4, <1>5, InsertCases DEF AddMember, GInv

\* There is one active owner at most, and so no owner is ever let go.
LEMMA CountStep ==
  ASSUME GInv, NEW c \in Callers, CountOwners(c)
  PROVE  GInv'
<1> DEFINE S == Owners(task[c].group)
<1>1. \A u, v \in S : u = v
  BY TaskFields DEF GInv, OneOwner, Owner, Owners
<1>2. Cardinality(S) <= 1
  <2>1. CASE S = {}
    BY <2>1, FS_EmptySet
  <2>2. CASE S # {}
    <3>1. PICK u : u \in S
      BY <2>2
    <3>2. S = {u}
      BY <1>1, <3>1
    <3>3. Cardinality({u}) = 1
      BY FS_Singleton
    <3> QED BY <3>2, <3>3
  <2> QED BY <2>1, <2>2
<1>3. Done(c) /\ UNCHANGED tables /\ UNCHANGED created
  BY <1>2 DEF CountOwners
<1>4. GroupsTypeOK'
  BY ContinuingTyped DEF GInv, Progress
<1> QED BY <1>3, <1>4, DoneTakesUp, Quiet DEF GInv

\* Whoever leaves is no owner.
LEMMA LeftStep ==
  ASSUME GInv, NEW c \in Callers, SetLeft(c)
  PROVE  GInv'
<1>1. GroupsTypeOK'
  BY ContinuingTyped DEF GInv, Progress
<1>2. UNCHANGED <<groups, posts, created>> /\ Go(c, "changed")
  BY DEF SetLeft
<1>3. /\ Has(task[c].group, task[c].user)
      /\ Row(task[c].group, task[c].user) \in Membership
      /\ Row(task[c].group, task[c].user).role # "Owner"
  BY TaskFields, RowTyped DEF GInv, SetLeft, TasksSound, Sound, AtPoint
<1>4. \A h \in GroupIds, v \in Members :
        \/ member'[h][v] = member[h][v]
        \/ /\ Has(h, v) /\ member'[h][v] # NoMember /\ member'[h][v].status = "Left"
           /\ Row(h, v).role # "Owner" /\ member'[h][v].role = Row(h, v).role
  <2>1. [Row(task[c].group, task[c].user) EXCEPT !.status = "Left"] \in Membership
    BY <1>3 DEF Membership
  <2>2. [Row(task[c].group, task[c].user) EXCEPT !.status = "Left"] # NoMember
    BY <2>1, RowAssumption DEF Membership
  <2>3. member' = [member EXCEPT ![task[c].group][task[c].user] =
                     [Row(task[c].group, task[c].user) EXCEPT !.status = "Left"]]
    BY DEF SetLeft, Row
  <2>4. /\ [Row(task[c].group, task[c].user) EXCEPT !.status = "Left"].status = "Left"
        /\ [Row(task[c].group, task[c].user) EXCEPT !.status = "Left"].role
             = Row(task[c].group, task[c].user).role
    BY <1>3 DEF Membership
  <2> QED BY <1>3, <2>2, <2>3, <2>4 DEF GInv, GroupsTypeOK, Row
<1>5. \A h \in GroupIds, v \in Members :
        /\ Has(h, v)' <=> Has(h, v)
        /\ Has(h, v) => Row(h, v)'.role = Row(h, v).role
        /\ Owner(h, v)' <=> Owner(h, v)
  BY <1>4 DEF Has, Row, Owner, Active
<1>6. \A d \in Callers : /\ task'[d].group \in GroupIds /\ task'[d].user \in Members
                         /\ d # c => task'[d] = task[d]
  BY <1>2, GoFields DEF GInv, GroupsTypeOK, Task
<1>7. task'[c].at = "changed"
  BY <1>2, GoFields DEF GInv
<1>8. TasksSound'
  <2> SUFFICES ASSUME NEW d \in Callers PROVE Sound(task[d])'
    BY DEF TasksSound
  <2>1. CASE d = c
    BY <2>1, <1>7 DEF Sound
  <2>2. CASE d # c
    BY <2>2, <1>2, <1>5, <1>6 DEF GInv, TasksSound, Sound
  <2> QED BY <2>1, <2>2
<1>9. OwnersIn' /\ OneOwner' /\ CreatorOwns'
  BY <1>2, <1>5 DEF GInv, OwnersIn, OneOwner, CreatorOwns, Owner
<1>10. OwnFirst' /\ OwnAlone'
  BY <1>5, <1>6, <1>7 DEF GInv, OwnFirst, OwnAlone, AtPoint
<1> QED BY <1>1, <1>8, <1>9, <1>10 DEF GInv

\* EndCreate and StoreMessage write down what their handler knows.
LEMMA EndCreateStep ==
  ASSUME GInv, NEW c \in Callers, EndCreate(c)
  PROVE  GInv'
<1>1. GroupsTypeOK'
  BY ContinuingTyped DEF GInv, Progress
<1>2. UNCHANGED <<groups, member, posts>> /\ TakesUp(c, NoTask)
  BY DoneTakesUp DEF GInv, EndCreate, tables
<1>3. TasksSound' /\ OwnFirst' /\ OwnAlone'
  BY <1>2 DEF GInv, TasksSound, TakesUp, Sound, OwnFirst, OwnAlone, AtPoint, Owner, Active,
              Has, Row
<1>4. CreatorOwns'
  <2>1. Owner(task[c].group, task[c].user)
    BY DEF GInv, EndCreate, TasksSound, Sound, AtPoint
  <2>2. created' = created \cup {<<task[c].group, task[c].user>>}
    BY DEF EndCreate
  <2> QED BY <1>2, <2>1, <2>2 DEF GInv, CreatorOwns, Owner, Active, Has, Row
<1>5. OwnersIn' /\ OneOwner'
  BY <1>2, RowsSame DEF GInv
<1> QED BY <1>1, <1>3, <1>4, <1>5 DEF GInv

LEMMA StoreStep ==
  ASSUME GInv, NEW c \in Callers, StoreMessage(c)
  PROVE  GInv'
<1>1. GroupsTypeOK'
  BY ContinuingTyped DEF GInv, Progress
<1>2. UNCHANGED <<groups, member, created>> /\ TakesUp(c, NoTask)
  BY DoneTakesUp DEF GInv, StoreMessage
<1>3. TasksSound' /\ OwnFirst' /\ OwnAlone'
  BY <1>2 DEF GInv, TasksSound, TakesUp, Sound, OwnFirst, OwnAlone, AtPoint, Owner, Active,
              Has, Row
<1>4. OwnersIn' /\ OneOwner' /\ CreatorOwns'
  BY <1>2, RowsSame DEF GInv, CreatorOwns, Active, Has, Row
<1> QED BY <1>1, <1>3, <1>4 DEF GInv

LEMMA EndingStep ==
  ASSUME GInv, NEW c \in Callers,
         Invalidate(c) \/ FillMembers(c) \/ FillOwn(c) \/ GroupDbError(c)
  PROVE  GInv'
<1>1. GroupsTypeOK'
  BY ContinuingTyped DEF GInv, Progress
<1>2. Done(c) /\ UNCHANGED tables /\ UNCHANGED created
  BY DEF Invalidate, FillMembers, FillOwn, GroupDbError
<1> QED BY <1>1, <1>2, DoneTakesUp, Quiet DEF GInv

(***************************************************************************)
(* Theorems.                                                               *)
(***************************************************************************)

LEMMA GInit == GroupsInit => GInv
<1> SUFFICES ASSUME GroupsInit PROVE GInv
  OBVIOUS
<1>1. \A g \in GroupIds, u \in Members : ~Has(g, u)
  BY DEF GroupsInit, Has, Row
<1>2. \A c \in Callers : task[c] = NoTask
  BY DEF GroupsInit
<1>3. created = {}
  BY DEF GroupsInit
<1>4. TasksSound /\ OwnFirst /\ OwnAlone
  BY <1>2, Resting DEF TasksSound, OwnFirst, OwnAlone, AtPoint
<1>5. OwnersIn /\ OneOwner /\ CreatorOwns
  BY <1>1, <1>3 DEF OwnersIn, OneOwner, CreatorOwns, Owner, Active
<1> QED BY InitTyped, <1>4, <1>5 DEF GInv

LEMMA GNext == GInv /\ [GroupsNext]_groupVars => GInv'
<1> SUFFICES ASSUME GInv, [GroupsNext]_groupVars PROVE GInv'
  OBVIOUS
<1>1. CASE Creating
  BY <1>1, CreatingStep DEF Creating
<1>2. CASE Joining
  BY <1>2, JoiningStep
<1>3. CASE Listing
  BY <1>3, ListingStep
<1>4. CASE Browsing
  BY <1>4, BrowsingStep
<1>5. CASE Continuing
  BY <1>5, AddOwnerStep, AddMemberStep, CountStep, LeftStep, EndCreateStep, StoreStep, EndingStep
     DEF Continuing, Progress
<1>6. CASE GroupRestart
  BY <1>6, RestartStep
<1>7. CASE UNCHANGED groupVars
  <2>1. GroupsTypeOK'
    BY TypeStep DEF GInv
  <2>2. UNCHANGED tables /\ UNCHANGED created /\ UNCHANGED task
    BY <1>7 DEF groupVars, tables
  <2> QED BY <2>1, <2>2, NoHandler
<1> QED BY <1>1, <1>2, <1>3, <1>4, <1>5, <1>6, <1>7 DEF GroupsNext

LEMMA GroupsInvariant == GroupsSpec => []GInv
BY GInit, GNext, PTL DEF GroupsSpec

\* The tables, the lists and what handlers hold are of their types: no group is cached
\* that does not exist, and only public ones are among the public ones.
THEOREM GroupsTyped == GroupsSpec => []GroupsTypeOK
BY GroupsInvariant, PTL DEF GInv

\* However many join, are invited, leave and count at once, the creator of a group stays
\* its active owner.
THEOREM CreatorsOwn == GroupsSpec => []CreatorOwns
BY GroupsInvariant, PTL DEF GInv

\* A group never has two active owners, so leave_group turns down every owner.
THEOREM OneOwnerOnly == GroupsSpec => []OneOwner
BY GroupsInvariant, PTL DEF GInv

Leaves == \A g \in GroupIds, u \in Members :
  Has(g, u) => \/ member'[g][u] = Row(g, u)
               \/ member'[g][u] = [Row(g, u) EXCEPT !.status = "Left"]

LEMMA LeavingStep ==
  ASSUME GInv, [GroupsNext]_groupVars
  PROVE  Leaves
<1>1. member' = member => Leaves
  BY DEF Leaves, Row
<1>2. ASSUME NEW c \in Callers, NEW point \in Points, Inserting(c, point) PROVE Leaves
  <2>1. CASE UNCHANGED member
    BY <1>1, <2>1
  <2>2. CASE Inserts(task[c].group, task[c].user, task[c].row)
    BY <2>2, TaskFields DEF GInv, Leaves, Inserts, Row
  <2> QED BY <1>2, <2>1, <2>2, InsertCases DEF GInv
<1>3. ASSUME NEW c \in Callers, SetLeft(c) PROVE Leaves
  <2>1. member' = [member EXCEPT ![task[c].group][task[c].user] =
                     [Row(task[c].group, task[c].user) EXCEPT !.status = "Left"]]
    BY <1>3 DEF SetLeft, Row
  <2> QED BY <2>1, TaskFields DEF GInv, GroupsTypeOK, Leaves, Row
<1>4. ASSUME NEW c \in Callers, Progress(c) \/ GroupDbError(c) PROVE Leaves
  <2>1. CASE AddOwner(c) \/ AddMember(c)
    BY <2>1, <1>2 DEF AddOwner, AddMember
  <2>2. CASE SetLeft(c)
    BY <2>2, <1>3
  <2>3. CASE \/ EndCreate(c) \/ CountOwners(c) \/ Invalidate(c) \/ StoreMessage(c)
             \/ FillMembers(c) \/ FillOwn(c) \/ GroupDbError(c)
    BY <2>3, <1>1 DEF EndCreate, CountOwners, Invalidate, StoreMessage, FillMembers, FillOwn,
       GroupDbError, tables
  <2> QED BY <1>4, <2>1, <2>2, <2>3 DEF Progress
<1>5. CASE Creating \/ Joining \/ Listing \/ Browsing \/ GroupRestart \/ UNCHANGED groupVars
  <2>1. member' = member
    BY <1>5 DEF Creating, CreateGroup, Joining, JoinGroup, LeaveGroup, SendGroupMessage, InviteUser,
       Listing, ListMembers, ListOwn, AgeMembers, AgeOwn, Browsing, ListGroups, FetchGroup,
       AgeGroup, GroupRestart, groupVars, tables
  <2> QED BY <1>1, <2>1
<1> QED BY <1>4, <1>5 DEF GroupsNext, Continuing

\* A membership changes in one way, for good: it becomes Left.
THEOREM LeavingForGood == GroupsSpec => OnlyLeaving
<1>1. GInv /\ [GroupsNext]_groupVars =>
        [\A g \in GroupIds, u \in Members :
           Has(g, u) => \/ member'[g][u] = Row(g, u)
                        \/ member'[g][u] = [Row(g, u) EXCEPT !.status = "Left"]]_groupVars
  BY LeavingStep DEF Leaves
<1> QED BY <1>1, GroupsInvariant, PTL DEF GroupsSpec, OnlyLeaving

\* A message on its way was on its way before, or its sender has just been seen Active.
Underway ==
  /\ \A c \in Callers :
       task'[c].at = "post" => \/ task'[c] = task[c]
                              \/ Active(task'[c].group, task'[c].user)
  /\ \A post \in posts' :
       \/ post \in posts
       \/ \E c \in Callers : AtPoint(c, "post") /\ post = <<task[c].group, task[c].user>>

LEMMA UnderwayStep ==
  ASSUME GroupsTypeOK, [GroupsNext]_groupVars
  PROVE  Underway
<1>1. ASSUME NEW c \in Callers, NEW t, Begin(c, t), posts' = posts,
             t.at = "post" => Active(t.group, t.user)
      PROVE  Underway
  BY <1>1 DEF GroupsTypeOK, Begin, Underway
<1>2. ASSUME NEW c \in Callers, Done(c), posts' = posts PROVE Underway
  BY <1>2, Resting DEF GroupsTypeOK, Done, Underway
<1>3. ASSUME NEW c \in Callers, NEW point, Go(c, point), point # "post", posts' = posts
      PROVE  Underway
  BY <1>3, GoFields DEF Underway
<1>4. ASSUME task' = task, posts' = posts PROVE Underway
  BY <1>4 DEF Underway
<1>5. CASE Creating
  <2>1. PICK c \in Callers, u \in Members, g \in GroupIds : CreateGroup(c, u, g)
    BY <1>5 DEF Creating
  <2> QED BY <1>1, <2>1, ForFields DEF CreateGroup
<1>6. CASE Joining
  <2>1. PICK c \in Callers, u \in Members, g \in GroupIds :
          \/ JoinGroup(c, u, g) \/ LeaveGroup(c, u, g) \/ SendGroupMessage(c, u, g)
          \/ \E inviter \in Members, role \in Roles : InviteUser(c, inviter, u, g, role)
    BY <1>6 DEF Joining
  <2>2. CASE JoinGroup(c, u, g)
    BY <1>1, <2>2, ForFields DEF JoinGroup, tables
  <2>3. CASE LeaveGroup(c, u, g)
    BY <1>1, <2>3, ForFields DEF LeaveGroup, tables
  <2>4. CASE SendGroupMessage(c, u, g)
    BY <1>1, <2>4, ForFields DEF SendGroupMessage, MayPost, tables
  <2>5. CASE \E inviter \in Members, role \in Roles : InviteUser(c, inviter, u, g, role)
    BY <1>1, <2>5, ForFields DEF InviteUser, tables
  <2> QED BY <2>1, <2>2, <2>3, <2>4, <2>5
<1>7. CASE Listing
  <2>1. ASSUME NEW c \in Callers, NEW g \in GroupIds, NEW users \in SUBSET Members,
               ListMembers(c, g, users)
        PROVE  Underway
    BY <1>1, <2>1 DEF ListMembers, NoTask, tables
  <2>2. ASSUME NEW c \in Callers, NEW u \in Members, ListOwn(c, u) PROVE Underway
    BY <1>1, <2>2 DEF ListOwn, NoTask, tables
  <2> QED BY <1>4, <1>7, <2>1, <2>2 DEF Listing, AgeMembers, AgeOwn, tables
<1>8. CASE Browsing
  BY <1>4, <1>8 DEF Browsing, ListGroups, FetchGroup, AgeGroup, tables
<1>9. ASSUME NEW c \in Callers, Progress(c) \/ GroupDbError(c) PROVE Underway
  <2>1. CASE AddOwner(c) \/ AddMember(c)
    BY <1>2, <1>3, <2>1 DEF AddOwner, AddMember, Inserting
  <2>2. CASE SetLeft(c)
    BY <1>3, <2>2 DEF SetLeft
  <2>3. CASE StoreMessage(c)
    BY <2>3, Resting DEF GroupsTypeOK, StoreMessage, Done, Underway
  <2>4. CASE CountOwners(c)
    BY <1>2, <1>3, <2>4 DEF CountOwners, tables
  <2>5. CASE EndCreate(c) \/ Invalidate(c) \/ FillMembers(c) \/ FillOwn(c) \/ GroupDbError(c)
    BY <1>2, <2>5 DEF EndCreate, Invalidate, FillMembers, FillOwn, GroupDbError, tables
  <2> QED BY <1>9, <2>1, <2>2, <2>3, <2>4, <2>5 DEF Progress
<1>10. CASE GroupRestart
  BY <1>10, Resting DEF GroupRestart, Underway, tables
<1>11. CASE UNCHANGED groupVars
  BY <1>4, <1>11 DEF groupVars
<1> QED BY <1>5, <1>6, <1>7, <1>8, <1>9, <1>10, <1>11 DEF GroupsNext, Continuing

\* Who is no active member of a group and has no message on its way there, posts nothing in
\* it before he has become one.
THEOREM OnlyMembersPost == GroupsSpec => PostersBelong
<1>1. ASSUME GInv, [GroupsNext]_groupVars, NEW g \in GroupIds, NEW u \in Members, Outside(g, u)
      PROVE  /\ <<g, u>> \in posts' => <<g, u>> \in posts
             /\ Outside(g, u)' \/ Active(g, u)'
  <2>1. Underway
    BY <1>1, UnderwayStep DEF GInv
  <2>2. <<g, u>> \in posts' => <<g, u>> \in posts
    BY <1>1, <2>1 DEF Underway, Outside
  <2>3. ASSUME NEW c \in Callers, task'[c].at = "post"
        PROVE  <<task'[c].group, task'[c].user>> # <<g, u>>
    BY <1>1, <2>1, <2>3 DEF Underway, Outside, AtPoint
  <2> QED BY <2>2, <2>3 DEF Outside, AtPoint
<1>2. GInv /\ [GroupsNext]_groupVars =>
        [\A g \in GroupIds, u \in Members :
           Outside(g, u) => /\ <<g, u>> \in posts' => <<g, u>> \in posts
                            /\ Outside(g, u)' \/ Active(g, u)']_groupVars
  BY <1>1
<1> QED BY <1>2, GroupsInvariant, PTL DEF GroupsSpec, PostersBelong
=============================================================================
