--------------------------- MODULE FriendMailbox ---------------------------
(***************************************************************************)
(* The friend-request mailbox (internal/service/friend_mailbox_service.go, *)
(* internal/repo/friend_mailbox_repo.go): requests are created pending and *)
(* accepted or rejected by their recipient.  The decision is a transaction *)
(* of two steps, with the row locked in between.                           *)
(***************************************************************************)
EXTENDS Naturals

CONSTANTS
    Peers,          \* peer_ids registered on the server
    RequestIDs,     \* the uuids requests get
    Handlers,       \* goroutines serving requests
    Nobody,         \* "no handler holds the lock"
    None            \* "no peer", "no request"

ASSUME MailboxAssumption ==
    /\ Nobody \notin Handlers
    /\ None \notin Peers \cup RequestIDs

VARIABLES
    mailbox,        \* rows of "friend_mailbox_requests", by request_id
    lock,           \* row locks
    mreq,           \* what each handler is doing and remembers
    answers         \* decisions callers were told have been made

mailVars == <<mailbox, lock, mreq, answers>>

Decisions == {"accepted", "rejected"}

\* A request_id that is not in use has state "none".
Row == [state : {"none", "pending"} \cup Decisions,
        from : Peers \cup {None}, to : Peers \cup {None}]

NoRow == [state |-> "none", from |-> None, to |-> None]

Request == [pc : {"idle", "insert", "lock", "save", "answer"},
            peer : Peers \cup {None}, to : Peers \cup {None},
            id : RequestIDs \cup {None}, decision : Decisions \cup {"none"},
            copy : Row]

Idle == [pc |-> "idle", peer |-> None, to |-> None, id |-> None,
         decision |-> "none", copy |-> NoRow]

Become(h, r) == mreq' = [mreq EXCEPT ![h] = r]

MailInit ==
    /\ mailbox = [id \in RequestIDs |-> NoRow]
    /\ lock = [id \in RequestIDs |-> Nobody]
    /\ mreq = [h \in Handlers |-> Idle]
    /\ answers = {}
-----------------------------------------------------------------------------
\* Both peers are looked up; nobody writes to himself.
Create(h, p, q) ==
    /\ mreq[h].pc = "idle"
    /\ p # q
    /\ Become(h, [Idle EXCEPT !.pc = "insert", !.peer = p, !.to = q])
    /\ UNCHANGED <<mailbox, lock, answers>>

Pending(p, q) ==
    {id \in RequestIDs : mailbox[id] = [state |-> "pending", from |-> p, to |-> q]}

\* Fault: no partial unique index.
InsertRequest_NoIndex(h) ==
    LET r == mreq[h] IN
    /\ r.pc = "insert"
    /\ \E id \in RequestIDs :
         /\ mailbox[id].state = "none"
         /\ mailbox' = [mailbox EXCEPT
                          ![id] = [state |-> "pending", from |-> r.peer, to |-> r.to]]
    /\ Become(h, Idle)
    /\ UNCHANGED <<lock, answers>>

\* INSERT; idx_friend_mailbox_pending_pair refuses a second pending request.
InsertRequest(h) ==
    LET r == mreq[h] IN
    /\ r.pc = "insert"
    /\ Pending(r.peer, r.to) = {}
    /\ \E id \in RequestIDs :
         /\ mailbox[id].state = "none"
         /\ mailbox' = [mailbox EXCEPT
                          ![id] = [state |-> "pending", from |-> r.peer, to |-> r.to]]
    /\ Become(h, Idle)
    /\ UNCHANGED <<lock, answers>>

Accept(h, p, id) ==
    /\ mreq[h].pc = "idle"
    /\ Become(h, [Idle EXCEPT !.pc = "lock", !.peer = p, !.id = id,
                              !.decision = "accepted"])
    /\ UNCHANGED <<mailbox, lock, answers>>

Reject(h, p, id) ==
    /\ mreq[h].pc = "idle"
    /\ Become(h, [Idle EXCEPT !.pc = "lock", !.peer = p, !.id = id,
                              !.decision = "rejected"])
    /\ UNCHANGED <<mailbox, lock, answers>>

\* Fault: a plain SELECT instead of SELECT ... FOR UPDATE.
LockRequest_NoLock(h) ==
    LET r == mreq[h] IN
    /\ r.pc = "lock"
    /\ mailbox[r.id].state = "pending"
    /\ mailbox[r.id].to = r.peer
    /\ mreq' = [mreq EXCEPT ![h].pc = "save",
                  ![h].copy = [mailbox[r.id] EXCEPT !.state = r.decision]]
    /\ UNCHANGED <<mailbox, lock, answers>>

\* First half of UpdateStateIfToPeer: SELECT ... FOR UPDATE and the checks.
LockRequest(h) ==
    LET r == mreq[h] IN
    /\ r.pc = "lock"
    /\ lock[r.id] = Nobody
    /\ mailbox[r.id].state = "pending"
    /\ mailbox[r.id].to = r.peer
    /\ lock' = [lock EXCEPT ![r.id] = h]
    /\ mreq' = [mreq EXCEPT ![h].pc = "save",
                  ![h].copy = [mailbox[r.id] EXCEPT !.state = r.decision]]
    /\ UNCHANGED <<mailbox, answers>>

\* Second half: Save writes the whole row, and the transaction commits.
SaveRequest(h) ==
    LET r == mreq[h] IN
    /\ mreq[h].pc = "save"
    /\ mailbox' = [mailbox EXCEPT ![r.id] = r.copy]
    /\ lock' = [lock EXCEPT ![r.id] = Nobody]
    /\ mreq' = [mreq EXCEPT ![h].pc = "answer", ![h].copy = NoRow]
    /\ UNCHANGED answers

Answer(h) ==
    /\ mreq[h].pc = "answer"
    /\ answers' = answers \cup {[id |-> mreq[h].id, by |-> mreq[h].peer,
                                 decision |-> mreq[h].decision]}
    /\ Become(h, Idle)
    /\ UNCHANGED <<mailbox, lock>>

\* An error return, a cancelled context or a crash: the transaction rolls back.
FailMail(h) ==
    /\ mreq[h].pc # "idle"
    /\ Become(h, Idle)
    /\ lock' = [id \in RequestIDs |-> IF lock[id] = h THEN Nobody ELSE lock[id]]
    /\ UNCHANGED <<mailbox, answers>>

MailNext ==
    \E h \in Handlers :
       \/ \E p, q \in Peers : Create(h, p, q)
       \/ \E p \in Peers, id \in RequestIDs : Accept(h, p, id) \/ Reject(h, p, id)
       \/ InsertRequest(h)
       \/ LockRequest(h)
       \/ SaveRequest(h)
       \/ Answer(h)
       \/ FailMail(h)

MailSpec == MailInit /\ [][MailNext]_mailVars
-----------------------------------------------------------------------------
\* Rows, locks and handlers have the shape their Go types give them.
MailTypeOK ==
    /\ mailbox \in [RequestIDs -> Row]
    /\ lock \in [RequestIDs -> Handlers \cup {Nobody}]
    /\ mreq \in [Handlers -> Request]

\* A peer has at most one pending request to another: the index refuses the
\* second one, and a decision never turns a row back to pending.
OnePendingPerPair ==
    /\ MailTypeOK
    /\ \A i, j \in RequestIDs :
          /\ mailbox[i].state = "pending" /\ mailbox[j] = mailbox[i]
          => i = j

\* A decision is final: an accept and a reject that overlap do not overwrite
\* each other.
DecisionIsFinal ==
    [][\A id \in RequestIDs :
         mailbox[id].state \in Decisions => mailbox'[id] = mailbox[id]]_mailVars

\* Whoever was told that a request has been accepted or rejected is its
\* recipient, and the request is in that state for good.
AnswersHold ==
    \A a \in answers : /\ mailbox[a.id].state = a.decision
                       /\ mailbox[a.id].to = a.by
=============================================================================
