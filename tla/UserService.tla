---------------------------- MODULE UserService ----------------------------
(***************************************************************************)
(* The users of the server and the three places that create them: the      *)
(* login of a peer (internal/service/auth_service.go), the console's own   *)
(* user (internal/service/admin_service.go), and the invitation of peers   *)
(* to a group (internal/service/group_service.go).                         *)
(*                                                                         *)
(* Login and console insert a user with a statement of its own, which      *)
(* commits at once.  An invitation does everything in one transaction: it  *)
(* locks the group row and then goes through its peers, and what it        *)
(* inserts is seen by others only after its commit, except by the unique   *)
(* indexes on peer_id and username: an INSERT that meets a key another     *)
(* transaction has inserted waits for that transaction to end.             *)
(*                                                                         *)
(* FailCall is an error of the database or of redis, a refusal (a wrong    *)
(* signature, a closed group, a banned peer), a cancelled context or the   *)
(* end of the process: the open transaction is rolled back.                *)
(***************************************************************************)
EXTENDS Naturals, Sequences

CONSTANTS
    Peers,          \* peer_ids; AdminPeer is "admin:" and the console's name
    AdminPeer,
    NameOf,         \* the username buildBootstrapUsername makes of a peer_id
    Groups,         \* groups peers are invited to
    Challenges,     \* the uuids challenges get
    Handlers,       \* goroutines serving requests
    Invitations,    \* requests to invite: a group and a list of peer_ids
    MaxUsers,       \* bound on the rows of "server_users"
    NoPeer, NoGroup, NoChallenge,
    Nobody          \* "no transaction": the row is committed, the lock is free

ASSUME UsersAssumption ==
    /\ AdminPeer \in Peers
    /\ NoPeer \notin Peers
    /\ NoGroup \notin Groups
    /\ NoChallenge \notin Challenges
    /\ Nobody \notin Handlers
    /\ Invitations \subseteq [group : Groups, peers : Seq(Peers) \ {<<>>}]
    /\ MaxUsers \in Nat

VARIABLES
    users,          \* rows of "server_users" by id, uncommitted ones included
    members,        \* committed rows of "group_members": user ids by group
    groupLock,      \* the transaction that holds the lock on a group row
    challenges,     \* redis: the peer of each live challenge key
    call            \* what each handler is doing and remembers

userVars == <<users, members, groupLock, challenges, call>>

Ids == 1..MaxUsers

\* A username that has been given its random suffix collides with no other.
Suffixed == "suffixed"

\* peer_id, username, what public_key starts with, and the transaction that
\* inserted the row while it is open.
User == [peer : Peers, name : {NameOf[p] : p \in Peers} \cup {Suffixed},
         key : {"login", "console", "invited"}, tx : Handlers \cup {Nobody}]

Unused == [peer |-> NoPeer, name |-> Suffixed, key |-> "login", tx |-> Nobody]

Row(id) == users[id].peer # NoPeer

\* What a SELECT of handler h finds: committed rows and its own.
Sees(h, id) == Row(id) /\ users[id].tx \in {Nobody, h}

\* bigserial gives every row a new id.  Ids are only ever compared, and nobody
\* remembers one that was rolled back, so any free one stands for it.
NextId == CHOOSE i \in Ids : ~Row(i)
-----------------------------------------------------------------------------
(***************************************************************************)
(* Calls.  pc is the next call to redis or to the database; todo is what   *)
(* is left of the list of peers (the peer itself for login and console),   *)
(* id the user found or created last, added the member rows written.       *)
(***************************************************************************)
Call == [pc : {"idle", "challenge", "lock", "select", "insert", "retry",
               "token", "member", "commit", "reply"},
         op : {"none", "login", "console", "invite"},
         todo : Seq(Peers), peers : Seq(Peers),
         challenge : Challenges \cup {NoChallenge},
         group : Groups \cup {NoGroup}, id : Ids \cup {0},
         added : SUBSET Ids]

Idle == [pc |-> "idle", op |-> "none", todo |-> <<>>, peers |-> <<>>,
         challenge |-> NoChallenge, group |-> NoGroup, id |-> 0, added |-> {}]

Peer(h) == Head(call[h].todo)

Key(h) == IF call[h].op = "invite" THEN "invited" ELSE call[h].op

\* Fault: the user of an invited peer is created outside its transaction.
Tx_Outside(h) == Nobody

\* The transaction a statement of h runs in: its own, or one statement long.
Tx(h) == IF call[h].op = "invite" THEN h ELSE Nobody

At(h, pc) == call[h].pc = pc

Goto(h, pc) == call' = [call EXCEPT ![h].pc = pc]

Done(h) == call' = [call EXCEPT ![h] = Idle]

UserInit ==
    /\ users = [i \in Ids |-> Unused]
    /\ members = [g \in Groups |-> {}]
    /\ groupLock = [g \in Groups |-> Nobody]
    /\ challenges = [c \in Challenges |-> NoPeer]
    /\ call = [h \in Handlers |-> Idle]
-----------------------------------------------------------------------------
(***************************************************************************)
(* Challenges                                                              *)
(***************************************************************************)
\* A console name is no peer_id, and so asks for no challenge.
RequestChallenge(p) ==
    /\ p # AdminPeer
    /\ \E c \in Challenges :
         /\ challenges[c] = NoPeer
         /\ challenges' = [challenges EXCEPT ![c] = p]
    /\ UNCHANGED <<users, members, groupLock, call>>

\* expires_at has passed, or redis has dropped the key: the answer is the same.
ExpireChallenge(c) ==
    /\ challenges[c] # NoPeer
    /\ challenges' = [challenges EXCEPT ![c] = NoPeer]
    /\ UNCHANGED <<users, members, groupLock, call>>
-----------------------------------------------------------------------------
(***************************************************************************)
(* Requests                                                                *)
(***************************************************************************)
Start(h, new) ==
    /\ At(h, "idle")
    /\ call' = [call EXCEPT ![h] = new]
    /\ UNCHANGED <<users, members, groupLock, challenges>>

\* A peer signs the challenge it got, which may expire before it is read.
Login(h, c) ==
    /\ challenges[c] # NoPeer
    /\ Start(h, [Idle EXCEPT !.pc = "challenge", !.op = "login",
                             !.todo = <<challenges[c]>>, !.challenge = c])

\* Login of the console and its CreateGroup: both start with ensureAdminUser.
ConsoleCall(h) ==
    Start(h, [Idle EXCEPT !.pc = "select", !.op = "console",
                          !.todo = <<AdminPeer>>])

\* GroupService models who may invite.
InviteMembersByPeerIDs(h, g, peers) ==
    Start(h, [Idle EXCEPT !.pc = "lock", !.op = "invite", !.group = g,
                          !.todo = peers, !.peers = peers])

\* GET of the challenge, then the checks of its peer, its age and the
\* signature: nothing keeps a second login from reading the same challenge.
ReadChallenge(h) ==
    /\ At(h, "challenge")
    /\ challenges[call[h].challenge] = Peer(h)
    /\ Goto(h, "select")
    /\ UNCHANGED <<users, members, groupLock, challenges>>

\* SELECT ... FOR UPDATE of the group starts the transaction of an invitation.
LockGroup(h) ==
    LET g == call[h].group IN
    /\ At(h, "lock")
    /\ groupLock[g] = Nobody
    /\ groupLock' = [groupLock EXCEPT ![g] = h]
    /\ Goto(h, "select")
    /\ UNCHANGED <<users, members, challenges>>

Found(h) == IF call[h].op = "invite" THEN "member" ELSE "token"

\* SELECT of the user by peer_id.
GetByPeerID(h) ==
    LET hits == {i \in Ids : Sees(h, i) /\ users[i].peer = Peer(h)} IN
    /\ At(h, "select")
    /\ \/ /\ hits = {}
          /\ Goto(h, "insert")
       \/ \E i \in hits :
             call' = [call EXCEPT ![h].pc = Found(h), ![h].id = i]
    /\ UNCHANGED <<users, members, groupLock, challenges>>
-----------------------------------------------------------------------------
(***************************************************************************)
(* INSERT into "server_users" under the unique indexes                     *)
(***************************************************************************)
\* Fault: username is unique, peer_id is not.
Clashes_NameOnly(p, name) ==
    {i \in Ids : Row(i) /\ name # Suffixed /\ users[i].name = name}

\* Rows an INSERT of this peer_id and username collides with.
Clashes(p, name) ==
    {i \in Ids : Row(i) /\ \/ users[i].peer = p
                           \/ name # Suffixed /\ users[i].name = name}

\* Those of them whose transaction has to end before the INSERT can.
InTheWay(h, clashes) == {i \in clashes : users[i].tx \notin {Nobody, Tx(h)}}

NewName(h) == IF At(h, "retry") THEN Suffixed ELSE NameOf[Peer(h)]

InsertUser(h, name) ==
    /\ \E i \in Ids : ~Row(i)
    /\ users' = [users EXCEPT ![NextId] =
                   [peer |-> Peer(h), name |-> name, key |-> Key(h),
                    tx |-> Tx(h)]]
    /\ call' = [call EXCEPT ![h].pc = Found(h), ![h].id = NextId]
    /\ UNCHANGED <<members, groupLock, challenges>>

\* The first INSERT, with the bootstrap name, and the second, with a suffix.
CreateUser(h) ==
    /\ call[h].pc \in {"insert", "retry"}
    /\ Clashes(Peer(h), NewName(h)) = {}
    /\ InsertUser(h, NewName(h))

\* Fault: the row that is in the way is taken for the user's own.
DuplicateUser_TakeRow(h) ==
    LET clashes == Clashes(Peer(h), NewName(h)) IN
    /\ At(h, "insert")
    /\ call[h].op # "invite"
    /\ clashes # {} /\ InTheWay(h, clashes) = {}
    /\ \E i \in clashes : call' = [call EXCEPT ![h].pc = "token", ![h].id = i]
    /\ UNCHANGED <<users, members, groupLock, challenges>>

\* A duplicate makes a handler try once more with another username.  Inside
\* a transaction PostgreSQL refuses that second statement, like any after a
\* failed one, so there GiveUp follows.
DuplicateUser(h) ==
    LET clashes == Clashes(Peer(h), NewName(h)) IN
    /\ At(h, "insert")
    /\ call[h].op # "invite"
    /\ clashes # {} /\ InTheWay(h, clashes) = {}
    /\ Goto(h, "retry")
    /\ UNCHANGED <<users, members, groupLock, challenges>>
-----------------------------------------------------------------------------
(***************************************************************************)
(* End of login and console call                                           *)
(***************************************************************************)
\* IssueToken, DEL of the challenge (whose failure is ignored) and the answer.
\* The console's token names no user, but its CreateGroup makes one owner.
AnswerUser(h) ==
    LET c == call[h].challenge IN
    /\ At(h, "token")
    /\ \/ challenges' = challenges
       \/ /\ c # NoChallenge
          /\ challenges' = [challenges EXCEPT ![c] = NoPeer]
    /\ Done(h)
    /\ UNCHANGED <<users, members, groupLock>>
-----------------------------------------------------------------------------
(***************************************************************************)
(* The rest of an invitation                                               *)
(***************************************************************************)
\* The member row of the peer is inserted or reactivated; on to the next one.
AddMember(h) ==
    LET rest == Tail(call[h].todo) IN
    /\ At(h, "member")
    /\ call' = [call EXCEPT ![h].added = @ \cup {call[h].id}, ![h].todo = rest,
                            ![h].id = 0,
                            ![h].pc = IF rest = <<>> THEN "commit" ELSE "select"]
    /\ UNCHANGED <<users, members, groupLock, challenges>>

CommitInvitation(h) ==
    LET g == call[h].group IN
    /\ At(h, "commit")
    /\ users' = [i \in Ids |-> IF users[i].tx = h
                               THEN [users[i] EXCEPT !.tx = Nobody]
                               ELSE users[i]]
    /\ members' = [members EXCEPT ![g] = @ \cup call[h].added]
    /\ groupLock' = [groupLock EXCEPT ![g] = Nobody]
    /\ call' = [call EXCEPT ![h].pc = "reply", ![h].added = {}]
    /\ UNCHANGED challenges

\* The members are read again and returned, in the order of the list.
ReplyInvitation(h) ==
    /\ At(h, "reply")
    /\ Done(h)
    /\ UNCHANGED <<users, members, groupLock, challenges>>
-----------------------------------------------------------------------------
(***************************************************************************)
(* Errors                                                                  *)
(***************************************************************************)
\* Fault: the transaction is left open.
Rollback_KeepLock(h) ==
    /\ users' = [i \in Ids |-> IF users[i].tx = h THEN Unused ELSE users[i]]
    /\ Done(h)
    /\ UNCHANGED <<members, groupLock, challenges>>

Rollback(h) ==
    /\ users' = [i \in Ids |-> IF users[i].tx = h THEN Unused ELSE users[i]]
    /\ groupLock' = [g \in Groups |-> IF groupLock[g] = h THEN Nobody
                                      ELSE groupLock[g]]
    /\ Done(h)
    /\ UNCHANGED <<members, challenges>>

\* Fault: an invitation leaves out the peer it cannot create.
GiveUp_SkipPeer(h) ==
    LET clashes == Clashes(Peer(h), NewName(h))
        rest == Tail(call[h].todo) IN
    /\ \/ At(h, "retry")
       \/ At(h, "insert") /\ call[h].op = "invite"
    /\ clashes # {} /\ InTheWay(h, clashes) = {}
    /\ \/ At(h, "retry") /\ Rollback(h)
       \/ /\ At(h, "insert")
          /\ call' = [call EXCEPT ![h].todo = rest,
                        ![h].pc = IF rest = <<>> THEN "commit" ELSE "select"]
          /\ UNCHANGED <<users, members, groupLock, challenges>>

\* The second duplicate of a login or console call, the first of an invitation.
GiveUp(h) ==
    LET clashes == Clashes(Peer(h), NewName(h)) IN
    /\ \/ At(h, "retry")
       \/ At(h, "insert") /\ call[h].op = "invite"
    /\ clashes # {} /\ InTheWay(h, clashes) = {}
    /\ Rollback(h)

\* The challenge is gone or another peer's.
RefuseLogin(h) ==
    /\ At(h, "challenge")
    /\ challenges[call[h].challenge] # Peer(h)
    /\ Rollback(h)

FailCall(h) ==
    /\ ~At(h, "idle")
    /\ Rollback(h)

\* h waits for the end of k's transaction.
WaitsFor(h, k) ==
    \/ At(h, "lock") /\ groupLock[call[h].group] = k
    \/ /\ call[h].pc \in {"insert", "retry"}
       /\ \E i \in InTheWay(h, Clashes(Peer(h), NewName(h))) : users[i].tx = k

\* PostgreSQL breaks a cycle of waiting transactions by failing one of them.
DeadlockDetected(h) ==
    /\ \E S \in SUBSET Handlers :
         /\ h \in S
         /\ \A x \in S : /\ \E y \in S : WaitsFor(x, y)
                         /\ \E y \in S : WaitsFor(y, x)
    /\ Rollback(h)
-----------------------------------------------------------------------------
Request(h) ==
    \/ \E c \in Challenges : Login(h, c)
    \/ ConsoleCall(h)
    \/ \E x \in Invitations : InviteMembersByPeerIDs(h, x.group, x.peers)

\* What a handler does once it has its request.
Progress(h) ==
    \/ ReadChallenge(h)
    \/ RefuseLogin(h)
    \/ LockGroup(h)
    \/ GetByPeerID(h)
    \/ CreateUser(h)
    \/ DuplicateUser(h)
    \/ GiveUp(h)
    \/ AnswerUser(h)
    \/ AddMember(h)
    \/ CommitInvitation(h)
    \/ ReplyInvitation(h)
    \/ DeadlockDetected(h)

UserNext ==
    \/ \E p \in Peers : RequestChallenge(p)
    \/ \E c \in Challenges : ExpireChallenge(c)
    \/ \E h \in Handlers : Request(h) \/ Progress(h) \/ FailCall(h)

UserSpec == UserInit /\ [][UserNext]_userVars

\* A goroutine is scheduled and its statements return.  Those who wait for a
\* row or a key are served by PostgreSQL in turn, hence the strong fairness.
\* Nobody has to call, and nothing has to fail.
UserFairSpec ==
    UserSpec /\ \A h \in Handlers : SF_userVars(Progress(h))
-----------------------------------------------------------------------------
(***************************************************************************)
(* Properties                                                              *)
(***************************************************************************)
\* Rows, keys and handlers have the shape their Go types give them.
UserTypeOK ==
    /\ users \in [Ids -> User \cup {Unused}]
    /\ members \in [Groups -> SUBSET Ids]
    /\ groupLock \in [Groups -> Handlers \cup {Nobody}]
    /\ challenges \in [Challenges -> Peers \cup {NoPeer}]
    /\ call \in [Handlers -> Call]

\* However logins, console calls and invitations of one peer overlap, the
\* server never has two users for it, nor two users of one name.
PeerHasOneUser ==
    /\ UserTypeOK
    /\ \A i, j \in Ids :
          Row(i) /\ Row(j) /\ i # j =>
              /\ users[i].peer # users[j].peer
              /\ users[i].name = users[j].name => users[i].name = Suffixed

\* The user a token is issued for, or who owns a group the console creates, is
\* a committed row of the peer that logged in: no answer rests on a row that
\* another transaction may still roll back.
IdentitiesHold ==
    \A h \in Handlers :
        At(h, "token") => /\ users[call[h].id].peer = Peer(h)
                          /\ users[call[h].id].tx = Nobody

\* An invitation is all or nothing: a peer whose user it created is a member
\* of a group, and no member row names a user that is not there.
InvitationsAtomic ==
    /\ \A i \in Ids :
          Row(i) /\ users[i].key = "invited" /\ users[i].tx = Nobody =>
              \E g \in Groups : i \in members[g]
    /\ \A g \in Groups : \A i \in members[g] : Row(i) /\ users[i].tx = Nobody

\* Every peer of an invitation that was answered with success has a user, and
\* that user is a member of the group.
InvitationsKept ==
    \A h \in Handlers : At(h, "reply") =>
        \A k \in DOMAIN call[h].peers :
            \E i \in members[call[h].group] : users[i].peer = call[h].peers[k]

\* Every call is answered: nobody waits for ever for a group lock or a key
\* another invitation has inserted, in whatever order invitations name peers.
CallsReturn == \A h \in Handlers : ~At(h, "idle") ~> At(h, "idle")
=============================================================================
