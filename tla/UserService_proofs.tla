------------------------ MODULE UserService_proofs ------------------------
(***************************************************************************)
(* Proofs about UserService, for any peers, groups, handlers, lists of     *)
(* invited peers and bounds: one user per peer, answers that rest on       *)
(* committed rows, and invitations that are all or nothing.                *)
(***************************************************************************)
EXTENDS UserService, TLAPS

\* Which calls can be where, and that there is a peer to work on.
ShapeOK(h) ==
    /\ call[h].pc \notin {"idle", "commit", "reply"} => call[h].todo # <<>>
    /\ ~At(h, "idle") => call[h].op # "none"
    /\ call[h].pc \in {"lock", "member", "commit", "reply"} =>
         call[h].op = "invite"
    /\ call[h].pc \in {"challenge", "retry", "token"} => call[h].op # "invite"
    /\ call[h].op = "invite" => call[h].group \in Groups

\* What a call has found, or added, is a row that nobody else can roll back.
FoundOK(h) ==
    /\ call[h].pc \in {"token", "member"} =>
         /\ call[h].id \in Ids
         /\ Sees(h, call[h].id)
         /\ users[call[h].id].peer = Peer(h)
    /\ \A i \in call[h].added : Sees(h, i)

\* How far an invitation has come: todo is the rest of its list, and a user of
\* every peer before it has been added.
InviteOK(h) ==
    LET peers == call[h].peers
        todo == call[h].todo
        done == Len(peers) - Len(todo) IN
    call[h].op = "invite" =>
      /\ Len(todo) <= Len(peers)
      /\ \A k \in 1..Len(todo) : todo[k] = peers[done + k]
      /\ At(h, "commit") => todo = <<>>
      /\ ~At(h, "reply") =>
           \A k \in 1..done : \E i \in call[h].added : users[i].peer = peers[k]
      /\ At(h, "reply") =>
           \A k \in 1..Len(peers) :
               \E i \in members[call[h].group] : users[i].peer = peers[k]

\* An uncommitted row belongs to an invitation that has added it or is about to.
OwnedOK(i) ==
    \A h \in Handlers : users[i].tx = h =>
      /\ call[h].op = "invite"
      /\ call[h].pc \in {"select", "insert", "member", "commit"}
      /\ i \in call[h].added \/ (At(h, "member") /\ call[h].id = i)

\* A committed row that an invitation inserted is that of a member.
InvitedOK(i) ==
    Row(i) /\ users[i].key = "invited" /\ users[i].tx = Nobody =>
        \E g \in Groups : i \in members[g]

MembersOK(g) == \A i \in members[g] : Row(i) /\ users[i].tx = Nobody

UserInv ==
    /\ PeerHasOneUser
    /\ \A h \in Handlers : ShapeOK(h) /\ FoundOK(h) /\ InviteOK(h)
    /\ \A i \in Ids : OwnedOK(i) /\ InvitedOK(i)
    /\ \A g \in Groups : MembersOK(g)

\* The step changes the call of h alone.
OnlyCall(h) == \A k \in Handlers \ {h} : call'[k] = call[k]
-----------------------------------------------------------------------------
\* There are no rows and no calls at first.
LEMMA InitUser == UserInit => UserInv
  BY UsersAssumption
     DEF UserInit, UserInv, PeerHasOneUser, UserTypeOK, ShapeOK, FoundOK,
         InviteOK, OwnedOK, InvitedOK, MembersOK, Row, Sees, At, Unused, Idle,
         User, Call, Suffixed

\* Other calls are not disturbed if the rows they see stay and no member goes.
LEMMA OtherCalls ==
    ASSUME UserInv, NEW h \in Handlers, OnlyCall(h),
           \A i \in Ids : Row(i) /\ users[i].tx # h => users'[i] = users[i],
           \A g \in Groups : members[g] \subseteq members'[g]
    PROVE  \A k \in Handlers \ {h} : ShapeOK(k)' /\ FoundOK(k)' /\ InviteOK(k)'
<1> SUFFICES ASSUME NEW k \in Handlers \ {h}
             PROVE  ShapeOK(k)' /\ FoundOK(k)' /\ InviteOK(k)'
  OBVIOUS
<1>1. call'[k] = call[k] /\ ShapeOK(k) /\ FoundOK(k) /\ InviteOK(k)
  BY DEF OnlyCall, UserInv
<1>2. \A i \in Ids : Sees(k, i) => users'[i] = users[i]
  BY UsersAssumption DEF Sees
<1>3. call[k].added \subseteq Ids
  BY DEF UserInv, PeerHasOneUser, UserTypeOK, Call
<1>4. ShapeOK(k)'
  BY <1>1 DEF ShapeOK, At
<1>5. FoundOK(k)'
  BY <1>1, <1>2, <1>3 DEF FoundOK, At, Sees, Row, Peer
<1>6. InviteOK(k)'
  <2> SUFFICES ASSUME call[k].op = "invite"
               PROVE  InviteOK(k)'
    BY <1>1 DEF InviteOK
  <2>1. \A i \in call[k].added : users'[i] = users[i]
    BY <1>1, <1>2, <1>3 DEF FoundOK
  <2>2. call[k].group \in Groups
    BY <1>1 DEF ShapeOK
  <2>3. \A i \in members[call[k].group] :
          i \in members'[call[k].group] /\ users'[i] = users[i]
    <3>1. members[call[k].group] \subseteq Ids
      BY <2>2 DEF UserInv, PeerHasOneUser, UserTypeOK
    <3>2. \A i \in members[call[k].group] : Row(i) /\ users[i].tx # h
      BY <2>2, UsersAssumption DEF UserInv, MembersOK
    <3>3. QED
      BY <2>2, <3>1, <3>2
  <2>4. QED
    BY <1>1, <2>1, <2>3 DEF InviteOK, At
<1>7. QED
  BY <1>4, <1>5, <1>6

\* Rows, members and everybody else stay: what is left to show is the call.
LEMMA CallMoves ==
    ASSUME UserInv, NEW h \in Handlers, OnlyCall(h),
           UNCHANGED <<users, members>>, UserTypeOK',
           \A i \in Ids : users[i].tx = h =>
              /\ call'[h].op = "invite"
              /\ call'[h].pc \in {"select", "insert", "member", "commit"}
              /\ i \in call'[h].added \/ (At(h, "member")' /\ call'[h].id = i),
           ShapeOK(h)', FoundOK(h)', InviteOK(h)'
    PROVE  UserInv'
<1>1. PeerHasOneUser'
  BY DEF UserInv, PeerHasOneUser, Row
<1>2. \A k \in Handlers : ShapeOK(k)' /\ FoundOK(k)' /\ InviteOK(k)'
  BY OtherCalls
<1>3. \A i \in Ids : OwnedOK(i)'
  BY DEF UserInv, OwnedOK, OnlyCall, At
<1>4. \A i \in Ids : InvitedOK(i)'
  BY DEF UserInv, InvitedOK, Row
<1>5. \A g \in Groups : MembersOK(g)'
  BY DEF UserInv, MembersOK, Row
<1>6. QED
  BY <1>1, <1>2, <1>3, <1>4, <1>5 DEF UserInv
-----------------------------------------------------------------------------
\* A handler with nothing to do has added nothing.
LEMMA IdleOK == Idle \in Call /\ Idle.added = {}
  BY DEF Idle, Call

\* A new request remembers nothing yet.
LEMMA Requests ==
    ASSUME UserInv, NEW h \in Handlers, Request(h)
    PROVE  UserInv'
<1> USE UsersAssumption
<1>0. \A i \in Ids : users[i].tx # h
  BY DEF UserInv, OwnedOK, Request, Login, ConsoleCall, InviteMembersByPeerIDs,
         Start, At
\* A login or console call starts with a list of one peer and nothing else.
<1>1. ASSUME NEW new \in Call, Start(h, new),
             new.pc \in {"challenge", "select"}, new.op \in {"login", "console"},
             new.todo # <<>>, new.added = {}
      PROVE  UserInv'
  <2>1. call'[h] = new /\ UserTypeOK' /\ OnlyCall(h)
    BY <1>1 DEF Start, UserInv, PeerHasOneUser, UserTypeOK, OnlyCall
  <2>2. ShapeOK(h)' /\ FoundOK(h)' /\ InviteOK(h)'
    BY <1>1, <2>1 DEF ShapeOK, FoundOK, InviteOK, At
  <2>3. QED
    BY <1>0, <1>1, <2>1, <2>2, CallMoves DEF Start
<1>2. ASSUME NEW c \in Challenges, Login(h, c)
      PROVE  UserInv'
  <2> DEFINE new == [Idle EXCEPT !.pc = "challenge", !.op = "login",
                                 !.todo = <<challenges[c]>>, !.challenge = c]
  <2>1. challenges[c] \in Peers
    BY <1>2 DEF Login, UserInv, PeerHasOneUser, UserTypeOK
  <2>2. new \in Call /\ new.added = {}
    <3>1. <<challenges[c]>> \in Seq(Peers)
      BY <2>1
    <3>2. QED
      BY <3>1, IdleOK DEF Call
  <2>2a. new.pc = "challenge" /\ new.op = "login" /\ new.todo = <<challenges[c]>>
    BY IdleOK DEF Call
  <2>3. Start(h, new)
    BY <1>2 DEF Login
  <2> HIDE DEF new
  <2>4. QED
    BY <1>1, <2>2, <2>2a, <2>3
<1>3. ASSUME ConsoleCall(h)
      PROVE  UserInv'
  <2> DEFINE new == [Idle EXCEPT !.pc = "select", !.op = "console",
                                 !.todo = <<AdminPeer>>]
  <2>1. new \in Call /\ new.added = {}
    <3>1. <<AdminPeer>> \in Seq(Peers)
      OBVIOUS
    <3>2. QED
      BY <3>1, IdleOK DEF Call
  <2>1a. new.pc = "select" /\ new.op = "console" /\ new.todo = <<AdminPeer>>
    BY IdleOK DEF Call
  <2>2. Start(h, new)
    BY <1>3 DEF ConsoleCall
  <2> HIDE DEF new
  <2>3. QED
    BY <1>1, <2>1, <2>1a, <2>2
<1>4. ASSUME NEW x \in Invitations, InviteMembersByPeerIDs(h, x.group, x.peers)
      PROVE  UserInv'
  <2>0. x.group \in Groups /\ x.peers \in Seq(Peers) /\ x.peers # <<>>
    OBVIOUS
  <2> DEFINE new == [Idle EXCEPT !.pc = "lock", !.op = "invite",
                                 !.group = x.group, !.todo = x.peers,
                                 !.peers = x.peers]
  <2>1. new \in Call
    BY IdleOK, <2>0 DEF Call
  <2>1b. /\ new.pc = "lock" /\ new.op = "invite"
         /\ new.todo = x.peers /\ new.peers = x.peers
         /\ new.group = x.group /\ new.added = {}
    BY IdleOK DEF Call
  <2>1a. Start(h, new)
    BY <1>4 DEF InviteMembersByPeerIDs
  <2> HIDE DEF new
  <2>2. /\ call'[h] = new /\ UserTypeOK' /\ OnlyCall(h)
        /\ UNCHANGED <<users, members>>
    BY <2>1, <2>1a DEF Start, UserInv, PeerHasOneUser, UserTypeOK, OnlyCall
  <2>3. ShapeOK(h)' /\ FoundOK(h)'
    BY <2>0, <2>1b, <2>2 DEF ShapeOK, FoundOK, At
  <2>4. InviteOK(h)'
    <3>1. Len(x.peers) \in Nat
      BY <2>0
    <3>2. Len(x.peers) - Len(x.peers) = 0 /\ 1..0 = {}
          /\ \A k \in 1..Len(x.peers) : 0 + k = k
      BY <3>1
    <3>3. call'[h].todo = x.peers /\ call'[h].peers = x.peers /\ ~At(h, "reply")'
          /\ ~At(h, "commit")'
      BY <2>1b, <2>2 DEF At
    <3>4. QED
      BY <3>1, <3>2, <3>3 DEF InviteOK
  <2>5. QED
    BY <1>0, <2>1, <2>2, <2>3, <2>4, CallMoves
<1>5. QED
  BY <1>2, <1>3, <1>4 DEF Request

\* Nothing happens to rows, members or calls.
LEMMA StaysOK ==
    ASSUME UserInv, users' = users, members' = members, call' = call,
           PeerHasOneUser'
    PROVE  UserInv'
<1>1. users' = users /\ members' = members /\ call' = call
  OBVIOUS
<1>2. ASSUME NEW h \in Handlers
      PROVE  ShapeOK(h)' /\ FoundOK(h)' /\ InviteOK(h)'
  <2>1. ShapeOK(h) /\ FoundOK(h) /\ InviteOK(h)
    BY DEF UserInv
  <2>2. ShapeOK(h)'
    BY <1>1, <2>1 DEF ShapeOK, At
  <2>3. FoundOK(h)'
    BY <1>1, <2>1 DEF FoundOK, Sees, Row, Peer
  <2>4. InviteOK(h)'
    <3>1. /\ At(h, "commit")' <=> At(h, "commit")
          /\ At(h, "reply")' <=> At(h, "reply")
      BY <1>1 DEF At
    <3>2. QED
      BY <1>1, <2>1, <3>1 DEF InviteOK
  <2>5. QED
    BY <2>2, <2>3, <2>4
<1>3. \A i \in Ids : OwnedOK(i)' /\ InvitedOK(i)'
  BY <1>1 DEF UserInv, OwnedOK, InvitedOK, At, Row
<1>4. \A g \in Groups : MembersOK(g)'
  BY <1>1 DEF UserInv, MembersOK, Row
<1>5. QED
  BY <1>2, <1>3, <1>4 DEF UserInv

\* Challenges come and go beside the calls.
LEMMA ChallengeSteps ==
    ASSUME UserInv,
           (\E p \in Peers : RequestChallenge(p))
             \/ (\E c \in Challenges : ExpireChallenge(c))
    PROVE  UserInv'
<1>1. UNCHANGED <<users, members, groupLock, call>>
  BY DEF RequestChallenge, ExpireChallenge
<1>2. challenges' \in [Challenges -> Peers \cup {NoPeer}]
  BY DEF RequestChallenge, ExpireChallenge, UserInv, PeerHasOneUser, UserTypeOK
<1>3. PeerHasOneUser'
  BY <1>1, <1>2 DEF UserInv, PeerHasOneUser, UserTypeOK, Row
<1>4. QED
  BY <1>1, <1>3, StaysOK

\* Steps that read, and remember at most the row they found.
LEMMA Reads ==
    ASSUME UserInv, NEW h \in Handlers,
           ReadChallenge(h) \/ LockGroup(h) \/ GetByPeerID(h) \/ DuplicateUser(h)
    PROVE  UserInv'
<1> USE UsersAssumption
<1>1. call[h] \in Call
  BY DEF UserInv, PeerHasOneUser, UserTypeOK
\* The pc moves on within the calls of its kind, and id names what was found.
<1>2. ASSUME NEW pc \in {"select", "insert", "retry", "token", "member"},
             NEW id \in Ids \cup {0},
             call[h].pc \in {"challenge", "lock", "select", "insert"},
             call' = [call EXCEPT ![h].pc = pc, ![h].id = id],
             call[h].pc = "lock" => pc = "select",
             pc \in {"retry", "token"} => call[h].op # "invite",
             pc = "member" => call[h].op = "invite",
             pc \in {"token", "member"} =>
               id \in Ids /\ Sees(h, id) /\ users[id].peer = Peer(h),
             pc \in {"retry", "token"} \/ call[h].pc # "challenge" \/ pc = "select",
             UNCHANGED <<users, members>>,
             groupLock' \in [Groups -> Handlers \cup {Nobody}],
             UNCHANGED challenges
      PROVE  UserInv'
  <2>1. /\ call'[h].pc = pc /\ call'[h].id = id
        /\ call'[h].op = call[h].op /\ call'[h].todo = call[h].todo
        /\ call'[h].peers = call[h].peers /\ call'[h].group = call[h].group
        /\ call'[h].added = call[h].added
        /\ OnlyCall(h)
    BY <1>1, <1>2 DEF UserInv, PeerHasOneUser, UserTypeOK, Call, OnlyCall
  <2>2. call' \in [Handlers -> Call]
    BY <1>1, <1>2 DEF UserInv, PeerHasOneUser, UserTypeOK, Call
  <2>3. UserTypeOK'
    BY <1>2, <2>2 DEF UserInv, PeerHasOneUser, UserTypeOK
  <2>4. \A i \in Ids : users[i].tx = h =>
          /\ call'[h].op = "invite"
          /\ call'[h].pc \in {"select", "insert", "member", "commit"}
          /\ i \in call'[h].added \/ (At(h, "member")' /\ call'[h].id = i)
    BY <1>2, <2>1 DEF UserInv, OwnedOK, At
  <2>5. ShapeOK(h)'
    BY <1>2, <2>1 DEF UserInv, ShapeOK, At
  <2>6. FoundOK(h)'
    BY <1>2, <2>1 DEF UserInv, FoundOK, Sees, Row, Peer
  <2>7. InviteOK(h)'
    <3>1. InviteOK(h) /\ ~At(h, "reply") /\ ~At(h, "reply")' /\ ~At(h, "commit")'
      BY <1>2, <2>1 DEF UserInv, At
    <3>2. users' = users /\ members' = members
      BY <1>2
    <3>3. QED
      BY <2>1, <3>1, <3>2 DEF InviteOK
  <2>8. QED
    BY <1>2, <2>1, <2>3, <2>4, <2>5, <2>6, <2>7, CallMoves
<1>3. call[h].id \in Ids \cup {0}
  BY <1>1 DEF Call
<1>4. \A pc : [call EXCEPT ![h].pc = pc] =
               [call EXCEPT ![h].pc = pc, ![h].id = call[h].id]
  BY <1>1 DEF UserInv, PeerHasOneUser, UserTypeOK, Call
<1>5. CASE ReadChallenge(h)
  BY <1>2, <1>3, <1>4, <1>5
     DEF ReadChallenge, Goto, At, UserInv, PeerHasOneUser, UserTypeOK
<1>6. CASE LockGroup(h)
  BY <1>2, <1>3, <1>4, <1>6
     DEF LockGroup, Goto, At, UserInv, PeerHasOneUser, UserTypeOK
<1>7. CASE DuplicateUser(h)
  BY <1>2, <1>3, <1>4, <1>7
     DEF DuplicateUser, Goto, At, UserInv, PeerHasOneUser, UserTypeOK
<1>8. CASE GetByPeerID(h)
  BY <1>2, <1>3, <1>4, <1>8
     DEF GetByPeerID, Found, Goto, At, UserInv, PeerHasOneUser, UserTypeOK
<1>9. QED
  BY <1>5, <1>6, <1>7, <1>8

\* The answers, which end a call that has nothing uncommitted.
LEMMA Answers ==
    ASSUME UserInv, NEW h \in Handlers, AnswerUser(h) \/ ReplyInvitation(h)
    PROVE  UserInv'
<1> USE UsersAssumption
<1>1. /\ call' = [call EXCEPT ![h] = Idle]
      /\ UNCHANGED <<users, members, groupLock>>
      /\ call[h].pc \in {"token", "reply"}
  BY DEF AnswerUser, ReplyInvitation, Done, At
<1>2. challenges' \in [Challenges -> Peers \cup {NoPeer}]
  BY DEF AnswerUser, ReplyInvitation, UserInv, PeerHasOneUser, UserTypeOK
<1>3. call'[h] = Idle /\ UserTypeOK' /\ OnlyCall(h)
  BY <1>1, <1>2, IdleOK DEF UserInv, PeerHasOneUser, UserTypeOK, OnlyCall
<1>4. \A i \in Ids : users[i].tx # h
  BY <1>1 DEF UserInv, OwnedOK
<1>5. ShapeOK(h)' /\ FoundOK(h)' /\ InviteOK(h)'
  BY <1>3 DEF ShapeOK, FoundOK, InviteOK, At, Idle
<1>6. QED
  BY <1>1, <1>3, <1>4, <1>5, CallMoves

\* The peer at the head of the list is done: its user is added.
LEMMA AddMemberStep ==
    ASSUME UserInv, NEW h \in Handlers, AddMember(h)
    PROVE  UserInv'
<1> USE UsersAssumption
<1> DEFINE c == call[h]
           peers == c.peers
           todo == c.todo
<1>1. /\ c \in Call /\ c.pc = "member" /\ c.op = "invite" /\ todo # <<>>
      /\ c.id \in Ids /\ Sees(h, c.id) /\ users[c.id].peer = Head(todo)
      /\ ShapeOK(h) /\ FoundOK(h) /\ InviteOK(h)
  <2>1. c \in Call /\ c.pc = "member" /\ ShapeOK(h) /\ FoundOK(h) /\ InviteOK(h)
    BY DEF AddMember, At, UserInv, PeerHasOneUser, UserTypeOK
  <2>2. QED
    BY <2>1 DEF ShapeOK, FoundOK, Peer
<1>2. /\ call'[h].pc = (IF Tail(todo) = <<>> THEN "commit" ELSE "select")
      /\ call'[h].id = 0 /\ call'[h].todo = Tail(todo)
      /\ call'[h].added = c.added \cup {c.id}
      /\ call'[h].op = c.op /\ call'[h].peers = peers /\ call'[h].group = c.group
      /\ OnlyCall(h) /\ users' = users /\ members' = members
  BY <1>1 DEF AddMember, UserInv, PeerHasOneUser, UserTypeOK, Call, OnlyCall
<1>3. UserTypeOK'
  <2>1. Tail(todo) \in Seq(Peers)
    BY <1>1 DEF Call
  <2>2. /\ (IF Tail(todo) = <<>> THEN "commit" ELSE "select") \in {"commit", "select"}
        /\ c.added \cup {c.id} \in SUBSET Ids
    BY <1>1 DEF Call
  <2>3. /\ call'[h] \in Call
        /\ DOMAIN call' = Handlers /\ call' = [call EXCEPT ![h] = call'[h]]
    BY <1>1, <2>1, <2>2 DEF AddMember, UserInv, PeerHasOneUser, UserTypeOK, Call
  <2>4. call' \in [Handlers -> Call]
    BY <2>3 DEF UserInv, PeerHasOneUser, UserTypeOK
  <2>5. QED
    BY <2>4 DEF AddMember, UserInv, PeerHasOneUser, UserTypeOK
<1>4. \A i \in Ids : users[i].tx = h =>
        /\ call'[h].op = "invite"
        /\ call'[h].pc \in {"select", "insert", "member", "commit"}
        /\ i \in call'[h].added \/ (At(h, "member")' /\ call'[h].id = i)
  BY <1>1, <1>2 DEF UserInv, OwnedOK
<1>5. ShapeOK(h)'
  BY <1>1, <1>2 DEF ShapeOK, At
<1>6. FoundOK(h)'
  BY <1>1, <1>2 DEF FoundOK, Sees, Row
<1>7. InviteOK(h)'
  <2> DEFINE lp == Len(peers)
             lt == Len(todo)
  <2>1. /\ lp \in Nat /\ lt \in Nat /\ lt # 0
        /\ Len(Tail(todo)) = lt - 1
        /\ Head(todo) = todo[1]
        /\ \A k \in 1..(lt - 1) : Tail(todo)[k] = todo[k + 1]
    BY <1>1 DEF Call
  <2>2. /\ lt <= lp
        /\ \A k \in 1..lt : todo[k] = peers[(lp - lt) + k]
        /\ \A k \in 1..(lp - lt) : \E i \in c.added : users[i].peer = peers[k]
    BY <1>1 DEF InviteOK, At
  <2>3. call'[h].pc # "reply" /\ (Tail(todo) # <<>> => call'[h].pc # "commit")
    BY <1>2
  <2> HIDE DEF c, peers, todo, lp, lt
  <2>4. lp - (lt - 1) = (lp - lt) + 1
    BY <2>1
  <2>5. \A k \in 1..(lt - 1) : Tail(todo)[k] = peers[((lp - lt) + 1) + k]
    <3> SUFFICES ASSUME NEW k \in 1..(lt - 1)
                 PROVE  Tail(todo)[k] = peers[((lp - lt) + 1) + k]
      OBVIOUS
    <3>1. k + 1 \in 1..lt /\ (lp - lt) + (k + 1) = ((lp - lt) + 1) + k
      BY <2>1
    <3>2. QED
      BY <2>1, <2>2, <3>1
  <2>6. \A k \in 1..((lp - lt) + 1) :
          \E i \in c.added \cup {c.id} : users[i].peer = peers[k]
    <3> SUFFICES ASSUME NEW k \in 1..((lp - lt) + 1)
                 PROVE  \E i \in c.added \cup {c.id} : users[i].peer = peers[k]
      OBVIOUS
    <3>1. CASE k \in 1..(lp - lt)
      BY <2>2, <3>1
    <3>2. CASE k = (lp - lt) + 1
      <4>1. 1 \in 1..lt
        BY <2>1
      <4>2. peers[k] = Head(todo)
        BY <2>1, <2>2, <3>2, <4>1
      <4>3. QED
        BY <1>1, <4>2 DEF todo
    <3>3. QED
      BY <2>1, <2>2, <3>1, <3>2
  <2>7. Len(Tail(todo)) = lt - 1 /\ Len(peers) = lp /\ lt - 1 <= lp
    BY <2>1, <2>2 DEF lp
  <2>8. /\ Len(call'[h].todo) <= Len(call'[h].peers)
        /\ Len(call'[h].peers) - Len(call'[h].todo) = (lp - lt) + 1
        /\ \A k \in 1..Len(call'[h].todo) :
              call'[h].todo[k] = call'[h].peers[((lp - lt) + 1) + k]
    BY <1>2, <2>4, <2>5, <2>7
  <2>9. \A k \in 1..((lp - lt) + 1) :
          \E i \in call'[h].added : users'[i].peer = call'[h].peers[k]
    BY <1>2, <2>6
  <2>10. (At(h, "commit")' => call'[h].todo = <<>>) /\ ~At(h, "reply")'
    BY <1>2, <2>3 DEF At
  <2>11. QED
    BY <2>8, <2>9, <2>10 DEF InviteOK
<1>8. QED
  BY <1>2, <1>3, <1>4, <1>5, <1>6, <1>7, CallMoves

\* The INSERT takes an unused row, and no row that is there has its peer or,
\* unless it is suffixed, its name.
LEMMA CreateStep ==
    ASSUME UserInv, NEW h \in Handlers, CreateUser(h)
    PROVE  UserInv'
<1> USE UsersAssumption
<1> DEFINE c == call[h]
           n == NextId
           row == [peer |-> Peer(h), name |-> NewName(h), key |-> Key(h),
                   tx |-> Tx(h)]
<1>1. /\ c \in Call /\ c.pc \in {"insert", "retry"} /\ c.todo # <<>>
      /\ c.op \in {"login", "console", "invite"}
      /\ c.op = "invite" => c.pc = "insert"
      /\ ShapeOK(h) /\ FoundOK(h) /\ InviteOK(h)
  <2>1. c \in Call /\ c.pc \in {"insert", "retry"}
        /\ ShapeOK(h) /\ FoundOK(h) /\ InviteOK(h)
    BY DEF CreateUser, UserInv, PeerHasOneUser, UserTypeOK
  <2>2. QED
    BY <2>1 DEF ShapeOK, At, Call
<1>2. n \in Ids /\ ~Row(n)
  BY DEF CreateUser, InsertUser, NextId
<1>3. row \in User
  <2>1. Peer(h) \in Peers
    BY <1>1 DEF Peer, Call
  <2>2. NewName(h) \in {NameOf[p] : p \in Peers} \cup {Suffixed}
    BY <2>1 DEF NewName
  <2>3. Key(h) \in {"login", "console", "invited"}
    BY <1>1 DEF Key
  <2>4. Tx(h) \in Handlers \cup {Nobody}
    BY DEF Tx
  <2>5. QED
    BY <2>1, <2>2, <2>3, <2>4 DEF User
<1>4. /\ users' = [users EXCEPT ![n] = row]
      /\ call' = [call EXCEPT ![h].pc = Found(h), ![h].id = n]
      /\ UNCHANGED <<members, groupLock, challenges>>
      /\ Clashes(Peer(h), NewName(h)) = {}
  BY DEF CreateUser, InsertUser
<1> HIDE DEF row, n
<1>5. users'[n] = row /\ \A i \in Ids \ {n} : users'[i] = users[i]
  BY <1>2, <1>4 DEF UserInv, PeerHasOneUser, UserTypeOK
<1>6. /\ call'[h].pc = Found(h) /\ call'[h].id = n
      /\ call'[h].op = c.op /\ call'[h].todo = c.todo /\ call'[h].peers = c.peers
      /\ call'[h].group = c.group /\ call'[h].added = c.added
      /\ OnlyCall(h)
  BY <1>1, <1>4 DEF UserInv, PeerHasOneUser, UserTypeOK, Call, OnlyCall
<1>7. /\ row.peer = Peer(h) /\ row.name = NewName(h) /\ row.tx = Tx(h)
      /\ row.key = Key(h) /\ row.peer # NoPeer
  BY <1>3 DEF row, User
<1>8. UserTypeOK'
  <2>1. Found(h) \in {"token", "member"}
    BY DEF Found
  <2>2. call' \in [Handlers -> Call]
    BY <1>1, <1>2, <1>4, <2>1 DEF UserInv, PeerHasOneUser, UserTypeOK, Call
  <2>3. users' \in [Ids -> User \cup {Unused}]
    BY <1>2, <1>3, <1>4 DEF UserInv, PeerHasOneUser, UserTypeOK
  <2>4. QED
    BY <1>4, <2>2, <2>3 DEF UserInv, PeerHasOneUser, UserTypeOK
<1>9. PeerHasOneUser'
  <2> SUFFICES ASSUME NEW i \in Ids, NEW j \in Ids, Row(i)', Row(j)', i # j
               PROVE  /\ users'[i].peer # users'[j].peer
                      /\ users'[i].name = users'[j].name =>
                           users'[i].name = Suffixed
    BY <1>8 DEF PeerHasOneUser
  <2>1. \A k \in Ids : Row(k) => /\ users[k].peer # row.peer
                                 /\ users[k].name = row.name => row.name = Suffixed
    BY <1>4, <1>7 DEF Clashes
  <2>2. CASE i # n /\ j # n
    BY <1>5, <2>2 DEF UserInv, PeerHasOneUser, Row
  <2>3. CASE i = n
    BY <1>5, <2>1, <2>3 DEF Row
  <2>4. CASE j = n
    BY <1>5, <2>1, <2>4 DEF Row
  <2>5. QED
    BY <2>2, <2>3, <2>4
<1>10. \A k \in Handlers : ShapeOK(k)' /\ FoundOK(k)' /\ InviteOK(k)'
  <2>1. \A k \in Handlers \ {h} : ShapeOK(k)' /\ FoundOK(k)' /\ InviteOK(k)'
    BY <1>2, <1>4, <1>5, <1>6, OtherCalls
  <2>2. ShapeOK(h)'
    BY <1>1, <1>6 DEF ShapeOK, Found, At
  <2>3. \A i \in c.added : i \in Ids /\ i # n /\ Row(i) /\ Sees(h, i)
    BY <1>1, <1>2 DEF FoundOK, Sees, Call
  <2>4. FoundOK(h)'
    BY <1>2, <1>5, <1>6, <1>7, <2>3 DEF FoundOK, Sees, Row, Peer, Tx
  <2>5. InviteOK(h)'
    <3>1. ~At(h, "reply") /\ ~At(h, "reply")' /\ ~At(h, "commit")'
      BY <1>1, <1>6 DEF At, Found
    <3>2. \A i \in c.added : users'[i] = users[i]
      BY <1>5, <2>3
    <3>3. QED
      BY <1>1, <1>6, <3>1, <3>2 DEF InviteOK
  <2>6. QED
    BY <2>1, <2>2, <2>4, <2>5
<1>11. \A i \in Ids : OwnedOK(i)'
  <2> SUFFICES ASSUME NEW i \in Ids, NEW k \in Handlers, users'[i].tx = k
               PROVE  /\ call'[k].op = "invite"
                      /\ call'[k].pc \in {"select", "insert", "member", "commit"}
                      /\ \/ i \in call'[k].added
                         \/ At(k, "member")' /\ call'[k].id = i
    BY DEF OwnedOK
  <2>1. CASE i = n
    BY <1>5, <1>6, <1>7, <2>1 DEF Tx, Found, At
  <2>2. CASE i # n
    <3>1. /\ call[k].op = "invite"
          /\ call[k].pc \in {"select", "insert", "member", "commit"}
          /\ i \in call[k].added \/ (At(k, "member") /\ call[k].id = i)
      BY <1>5, <2>2 DEF UserInv, OwnedOK
    <3>2. CASE k = h
      BY <1>1, <1>6, <3>1, <3>2 DEF Found, At
    <3>3. CASE k # h
      BY <1>6, <3>1, <3>3 DEF OnlyCall, At
    <3>4. QED
      BY <3>2, <3>3
  <2>3. QED
    BY <2>1, <2>2
<1>12. \A i \in Ids : InvitedOK(i)'
  <2> SUFFICES ASSUME NEW i \in Ids, Row(i)', users'[i].key = "invited",
                      users'[i].tx = Nobody
               PROVE  \E g \in Groups : i \in members'[g]
    BY DEF InvitedOK
  <2>1. i # n
    BY <1>1, <1>5, <1>7 DEF Key, Tx
  <2>2. QED
    BY <1>4, <1>5, <2>1 DEF UserInv, InvitedOK, Row
<1>13. \A g \in Groups : MembersOK(g)'
  <2>1. \A g \in Groups : members[g] \subseteq Ids
    BY DEF UserInv, PeerHasOneUser, UserTypeOK
  <2>2. QED
    BY <1>2, <1>4, <1>5, <2>1 DEF UserInv, MembersOK, Row
<1>14. QED
  BY <1>9, <1>10, <1>11, <1>12, <1>13 DEF UserInv

\* The commit makes its rows everybody's, and their users members.
LEMMA CommitStep ==
    ASSUME UserInv, NEW h \in Handlers, CommitInvitation(h)
    PROVE  UserInv'
<1> USE UsersAssumption
<1> DEFINE c == call[h]
           g == c.group
<1>1. /\ c \in Call /\ c.pc = "commit" /\ c.op = "invite" /\ g \in Groups
      /\ ShapeOK(h) /\ FoundOK(h) /\ InviteOK(h)
  <2>1. c \in Call /\ c.pc = "commit" /\ ShapeOK(h) /\ FoundOK(h) /\ InviteOK(h)
    BY DEF CommitInvitation, At, UserInv, PeerHasOneUser, UserTypeOK
  <2>2. QED
    BY <2>1 DEF ShapeOK
<1>2. /\ call' = [call EXCEPT ![h].pc = "reply", ![h].added = {}]
      /\ members' = [members EXCEPT ![g] = @ \cup c.added]
      /\ users' = [i \in Ids |-> IF users[i].tx = h
                                 THEN [users[i] EXCEPT !.tx = Nobody]
                                 ELSE users[i]]
  BY DEF CommitInvitation
<1>3. /\ call'[h].pc = "reply" /\ call'[h].added = {}
      /\ call'[h].op = c.op /\ call'[h].todo = c.todo
      /\ call'[h].peers = c.peers /\ call'[h].group = g
      /\ OnlyCall(h)
  BY <1>1, <1>2 DEF UserInv, PeerHasOneUser, UserTypeOK, Call, OnlyCall
\* Rows keep their peer, name and key, and those of h are h's no more.
<1>4. ASSUME NEW i \in Ids
      PROVE  /\ users'[i] \in User \cup {Unused}
             /\ users'[i].peer = users[i].peer /\ users'[i].name = users[i].name
             /\ users'[i].key = users[i].key
             /\ users[i].tx = h => users'[i].tx = Nobody
             /\ users[i].tx # h => users'[i] = users[i]
  <2>1. users[i] \in User \cup {Unused}
    BY DEF UserInv, PeerHasOneUser, UserTypeOK
  <2>2. CASE users[i].tx = h
    <3>1. users[i] \in User
      BY <2>1, <2>2 DEF Unused
    <3>2. users'[i] = [users[i] EXCEPT !.tx = Nobody]
      BY <1>2, <2>2
    <3>3. QED
      BY <3>1, <3>2, <2>2 DEF User
  <2>3. CASE users[i].tx # h
    BY <1>2, <2>1, <2>3
  <2>4. QED
    BY <2>2, <2>3
<1>5. \A i \in c.added : i \in Ids /\ Row(i) /\ users[i].tx \in {Nobody, h}
  BY <1>1 DEF FoundOK, Sees, Call
<1>6. /\ members'[g] = members[g] \cup c.added
      /\ \A f \in Groups \ {g} : members'[f] = members[f]
  BY <1>1, <1>2 DEF UserInv, PeerHasOneUser, UserTypeOK
<1>7. UserTypeOK'
  <2>1. call' \in [Handlers -> Call]
    BY <1>1, <1>2 DEF UserInv, PeerHasOneUser, UserTypeOK, Call
  <2>2. members' \in [Groups -> SUBSET Ids]
    BY <1>1, <1>2, <1>5 DEF UserInv, PeerHasOneUser, UserTypeOK
  <2>3. users' \in [Ids -> User \cup {Unused}]
    BY <1>2, <1>4
  <2>4. QED
    BY <2>1, <2>2, <2>3 DEF CommitInvitation, UserInv, PeerHasOneUser, UserTypeOK
<1>8. PeerHasOneUser'
  BY <1>4, <1>7 DEF UserInv, PeerHasOneUser, Row
<1>9. \A k \in Handlers : ShapeOK(k)' /\ FoundOK(k)' /\ InviteOK(k)'
  <2>1. \A k \in Handlers \ {h} : ShapeOK(k)' /\ FoundOK(k)' /\ InviteOK(k)'
    BY <1>3, <1>4, <1>6, OtherCalls
  <2>2. ShapeOK(h)' /\ FoundOK(h)'
    BY <1>1, <1>3 DEF ShapeOK, FoundOK, At
  <2>3. InviteOK(h)'
    <3>1. c.todo = <<>> /\ Len(c.peers) \in Nat
      BY <1>1 DEF InviteOK, At, Call
    <3>2. Len(c.todo) = 0 /\ Len(c.peers) - Len(c.todo) = Len(c.peers)
      BY <3>1
    <3>3. \A k \in 1..Len(c.peers) : \E i \in c.added : users[i].peer = c.peers[k]
      BY <1>1, <3>2 DEF InviteOK, At
    <3>4. \A k \in 1..Len(c.peers) :
            \E i \in members'[g] : users'[i].peer = c.peers[k]
      BY <1>4, <1>5, <1>6, <3>3
    <3>5. Len(call'[h].todo) = 0 /\ 0 <= Len(call'[h].peers) /\ 1..0 = {}
      BY <1>3, <3>1, <3>2
    <3>6. /\ At(h, "reply")' /\ ~At(h, "commit")'
          /\ \A k \in 1..Len(call'[h].peers) :
               \E i \in members'[call'[h].group] : users'[i].peer = call'[h].peers[k]
      BY <1>3, <3>4 DEF At
    <3>7. QED
      BY <3>5, <3>6 DEF InviteOK
  <2>4. QED
    BY <2>1, <2>2, <2>3
<1>10. \A i \in Ids : OwnedOK(i)'
  <2> SUFFICES ASSUME NEW i \in Ids, NEW k \in Handlers, users'[i].tx = k
               PROVE  /\ call'[k].op = "invite"
                      /\ call'[k].pc \in {"select", "insert", "member", "commit"}
                      /\ \/ i \in call'[k].added
                         \/ At(k, "member")' /\ call'[k].id = i
    BY DEF OwnedOK
  <2>1. k # h /\ users[i].tx = k
    BY <1>4
  <2>2. QED
    BY <1>3, <2>1 DEF UserInv, OwnedOK, OnlyCall, At
<1>11. \A i \in Ids : InvitedOK(i)'
  <2> SUFFICES ASSUME NEW i \in Ids, Row(i)', users'[i].key = "invited",
                      users'[i].tx = Nobody
               PROVE  \E f \in Groups : i \in members'[f]
    BY DEF InvitedOK
  <2>1. Row(i) /\ users[i].key = "invited"
    BY <1>4 DEF Row
  <2>2. CASE users[i].tx = h
    <3>1. i \in c.added
      BY <1>1, <2>2 DEF UserInv, OwnedOK, At
    <3>2. QED
      BY <1>1, <1>6, <3>1
  <2>3. CASE users[i].tx # h
    <3>1. PICK f \in Groups : i \in members[f]
      BY <1>4, <2>1, <2>3 DEF UserInv, InvitedOK
    <3>2. i \in members'[f]
      BY <1>6, <3>1
    <3>3. QED
      BY <3>2
  <2>4. QED
    BY <2>2, <2>3
<1>12. \A f \in Groups : MembersOK(f)'
  <2> SUFFICES ASSUME NEW f \in Groups, NEW i \in members'[f]
               PROVE  Row(i)' /\ users'[i].tx = Nobody
    BY DEF MembersOK
  <2>1. i \in Ids /\ Row(i) /\ users[i].tx \in {Nobody, h}
    <3>1. CASE i \in members[f]
      BY <3>1 DEF UserInv, MembersOK, PeerHasOneUser, UserTypeOK
    <3>2. CASE i \in c.added
      BY <1>5, <3>2
    <3>3. QED
      BY <1>6, <3>1, <3>2
  <2>2. QED
    BY <1>4, <2>1 DEF Row
<1>13. QED
  BY <1>8, <1>9, <1>10, <1>11, <1>12 DEF UserInv

\* A rollback takes back rows of its own transaction, which nobody else saw.
LEMMA RollbackStep ==
    ASSUME UserInv, NEW h \in Handlers, Rollback(h)
    PROVE  UserInv'
<1> USE UsersAssumption
<1>1. /\ users' = [i \in Ids |-> IF users[i].tx = h THEN Unused ELSE users[i]]
      /\ call' = [call EXCEPT ![h] = Idle]
      /\ UNCHANGED <<members, challenges>>
  BY DEF Rollback, Done
<1>2. call'[h] = Idle /\ OnlyCall(h)
  BY <1>1 DEF UserInv, PeerHasOneUser, UserTypeOK, OnlyCall
<1>3. ASSUME NEW i \in Ids
      PROVE  /\ users[i].tx # h => users'[i] = users[i]
             /\ Row(i)' => users[i].tx # h
             /\ users'[i].tx # h
  BY <1>1 DEF Row, Unused
<1>4. UserTypeOK'
  <2>1. call' \in [Handlers -> Call]
    BY <1>1, IdleOK DEF UserInv, PeerHasOneUser, UserTypeOK
  <2>2. users' \in [Ids -> User \cup {Unused}]
    BY <1>1 DEF UserInv, PeerHasOneUser, UserTypeOK
  <2>3. groupLock' \in [Groups -> Handlers \cup {Nobody}]
    BY DEF Rollback, UserInv, PeerHasOneUser, UserTypeOK
  <2>4. QED
    BY <1>1, <2>1, <2>2, <2>3 DEF UserInv, PeerHasOneUser, UserTypeOK
<1>5. PeerHasOneUser'
  BY <1>3, <1>4 DEF UserInv, PeerHasOneUser, Row
<1>6. \A k \in Handlers : ShapeOK(k)' /\ FoundOK(k)' /\ InviteOK(k)'
  <2>1. \A k \in Handlers \ {h} : ShapeOK(k)' /\ FoundOK(k)' /\ InviteOK(k)'
    BY <1>1, <1>2, <1>3, OtherCalls
  <2>2. ShapeOK(h)' /\ FoundOK(h)' /\ InviteOK(h)'
    BY <1>2 DEF ShapeOK, FoundOK, InviteOK, At, Idle
  <2>3. QED
    BY <2>1, <2>2
<1>7. \A i \in Ids : OwnedOK(i)' /\ InvitedOK(i)'
  <2> SUFFICES ASSUME NEW i \in Ids
               PROVE  OwnedOK(i)' /\ InvitedOK(i)'
    OBVIOUS
  <2>1. CASE users[i].tx = h
    <3>1. users'[i] = Unused
      BY <1>1, <2>1
    <3>2. QED
      BY <3>1 DEF OwnedOK, InvitedOK, Row, Unused
  <2>2. CASE users[i].tx # h
    <3>1. users'[i] = users[i] /\ OwnedOK(i) /\ InvitedOK(i)
      BY <1>3, <2>2 DEF UserInv
    <3>2. OwnedOK(i)'
      BY <1>2, <2>2, <3>1 DEF OwnedOK, OnlyCall, At
    <3>3. InvitedOK(i)'
      BY <1>1, <3>1 DEF InvitedOK, Row
    <3>4. QED
      BY <3>2, <3>3
  <2>3. QED
    BY <2>1, <2>2
<1>8. \A g \in Groups : MembersOK(g)'
  <2>1. \A g \in Groups : members[g] \subseteq Ids
    BY DEF UserInv, PeerHasOneUser, UserTypeOK
  <2>2. QED
    BY <1>1, <1>3, <2>1 DEF UserInv, MembersOK, Row
<1>9. QED
  BY <1>5, <1>6, <1>7, <1>8 DEF UserInv
-----------------------------------------------------------------------------
\* Every step of every handler keeps the invariant.
LEMMA UserStep == UserInv /\ [UserNext]_userVars => UserInv'
<1> SUFFICES ASSUME UserInv, [UserNext]_userVars
             PROVE  UserInv'
  OBVIOUS
<1>1. CASE UNCHANGED userVars
  <2>1. UNCHANGED <<users, members, groupLock, challenges, call>>
    BY <1>1 DEF userVars
  <2>2. PeerHasOneUser'
    BY <2>1 DEF UserInv, PeerHasOneUser, UserTypeOK, Row
  <2>3. UserInv'
    BY <2>1, <2>2, StaysOK
  <2>4. QED
    BY <2>3
<1>2. ASSUME NEW h \in Handlers, Progress(h)
      PROVE  UserInv'
  <2>1. CASE ReadChallenge(h) \/ LockGroup(h) \/ GetByPeerID(h) \/ DuplicateUser(h)
    BY <2>1, Reads
  <2>2. CASE AnswerUser(h) \/ ReplyInvitation(h)
    BY <2>2, Answers
  <2>3. CASE AddMember(h)
    BY <2>3, AddMemberStep
  <2>4. CASE CreateUser(h)
    BY <2>4, CreateStep
  <2>5. CASE CommitInvitation(h)
    BY <2>5, CommitStep
  <2>6. CASE RefuseLogin(h) \/ GiveUp(h) \/ DeadlockDetected(h)
    BY <2>6, RollbackStep DEF RefuseLogin, GiveUp, DeadlockDetected
  <2>7. QED
    BY <1>2, <2>1, <2>2, <2>3, <2>4, <2>5, <2>6 DEF Progress
<1>3. ASSUME NEW h \in Handlers, FailCall(h)
      PROVE  UserInv'
  BY <1>3, RollbackStep DEF FailCall
<1>4. QED
  BY <1>1, <1>2, <1>3, Requests, ChallengeSteps DEF UserNext

\* UserInv holds of every behaviour.
THEOREM UsersInvariant == UserSpec => []UserInv
<1>1. QED
  BY InitUser, UserStep, PTL DEF UserSpec

\* However logins, console calls and invitations overlap, a peer has one user.
THEOREM OneUserPerPeer == UserSpec => []PeerHasOneUser
<1>1. UserInv => PeerHasOneUser
  BY DEF UserInv
<1>2. QED
  BY <1>1, UsersInvariant, PTL

\* A token, or a group of the console, is for a committed row of the peer.
THEOREM Identities == UserSpec => []IdentitiesHold
<1>1. UserInv => IdentitiesHold
  <2> SUFFICES ASSUME UserInv, NEW h \in Handlers, At(h, "token")
               PROVE  /\ users[call[h].id].peer = Peer(h)
                      /\ users[call[h].id].tx = Nobody
    BY DEF IdentitiesHold
  <2>1. /\ call[h].id \in Ids /\ Sees(h, call[h].id)
        /\ users[call[h].id].peer = Peer(h) /\ call[h].op # "invite"
    BY DEF UserInv, FoundOK, ShapeOK, At
  <2>2. users[call[h].id].tx # h
    BY <2>1 DEF UserInv, OwnedOK
  <2>3. QED
    BY <2>1, <2>2 DEF Sees
<1>2. QED
  BY <1>1, UsersInvariant, PTL

\* What an invitation inserts is there with its members, or not at all.
THEOREM InvitationsAllOrNothing == UserSpec => []InvitationsAtomic
<1>1. UserInv => InvitationsAtomic
  BY DEF UserInv, InvitationsAtomic, InvitedOK, MembersOK
<1>2. QED
  BY <1>1, UsersInvariant, PTL

\* An invitation that is answered with success has left out no peer.
THEOREM InvitationsComplete == UserSpec => []InvitationsKept
<1>1. UserInv => InvitationsKept
  <2> SUFFICES ASSUME UserInv, NEW h \in Handlers, At(h, "reply"),
                      NEW k \in DOMAIN call[h].peers
               PROVE  \E i \in members[call[h].group] :
                        users[i].peer = call[h].peers[k]
    BY DEF InvitationsKept
  <2>1. call[h].op = "invite" /\ InviteOK(h) /\ call[h].peers \in Seq(Peers)
    BY DEF UserInv, ShapeOK, At, PeerHasOneUser, UserTypeOK, Call
  <2>2. k \in 1..Len(call[h].peers)
    BY <2>1
  <2>3. QED
    BY <2>1, <2>2 DEF InviteOK
<1>2. QED
  BY <1>1, UsersInvariant, PTL
=============================================================================
