----------------------- MODULE FriendMailbox_proofs -----------------------
(***************************************************************************)
(* Proofs about FriendMailbox, for any peers, request ids and handlers:    *)
(* one pending request per pair, final decisions and answers that hold.    *)
(***************************************************************************)
EXTENDS FriendMailbox, TLAPS

\* What a handler that decides a request knows of its row: between the lock and
\* the save it holds the row, which is still pending and addressed to its
\* caller; after the save the row has the state it is about to answer with.
DecidingOK(h) ==
    LET r == mreq[h] IN
    /\ r.pc \in {"lock", "save", "answer"} =>
         r.id \in RequestIDs /\ r.decision \in Decisions
    /\ r.pc = "save" =>
         /\ lock[r.id] = h
         /\ mailbox[r.id].state = "pending"
         /\ mailbox[r.id].to = r.peer
         /\ r.copy = [mailbox[r.id] EXCEPT !.state = r.decision]
    /\ r.pc = "answer" =>
         /\ mailbox[r.id].state = r.decision
         /\ mailbox[r.id].to = r.peer

AnswersOK ==
    \A a \in answers :
        /\ a.id \in RequestIDs /\ a.decision \in Decisions
        /\ mailbox[a.id].state = a.decision
        /\ mailbox[a.id].to = a.by

MailInv ==
    /\ OnePendingPerPair
    /\ \A h \in Handlers : DecidingOK(h)
    /\ AnswersOK

\* Decided rows stay as they are.
FinalStep ==
    \A id \in RequestIDs :
        mailbox[id].state \in Decisions => mailbox'[id] = mailbox[id]
-----------------------------------------------------------------------------
\* No requests, no handlers at work, nobody answered.
LEMMA InitMail == MailInit => MailInv
  BY MailboxAssumption
     DEF MailInit, MailInv, OnePendingPerPair, MailTypeOK, DecidingOK, AnswersOK,
         Idle, Request, Row, NoRow, Decisions

\* Handlers other than h, and what callers were told, are not disturbed by a
\* step of h that keeps decided rows, changes a pending row only under its lock
\* and frees nobody else's locks.
LEMMA OthersDeciding ==
    ASSUME MailInv, NEW h \in Handlers, FinalStep,
           \A k \in Handlers \ {h} : mreq'[k] = mreq[k],
           \A id \in RequestIDs : mailbox[id].state = "pending" =>
              mailbox'[id] = mailbox[id] \/ lock[id] = h,
           \A id \in RequestIDs : lock[id] \in Handlers \ {h} =>
              lock'[id] = lock[id]
    PROVE  \A k \in Handlers \ {h} : DecidingOK(k)'
<1> SUFFICES ASSUME NEW k \in Handlers \ {h}
             PROVE  DecidingOK(k)'
  OBVIOUS
<1>1. mreq'[k] = mreq[k] /\ DecidingOK(k)
  BY DEF MailInv
<1>2. CASE mreq[k].pc = "save"
  <2>1. mreq[k].id \in RequestIDs /\ lock[mreq[k].id] = k
    BY <1>1, <1>2 DEF DecidingOK
  <2>2. mailbox'[mreq[k].id] = mailbox[mreq[k].id] /\ lock'[mreq[k].id] = k
    BY <1>1, <1>2, <2>1 DEF DecidingOK
  <2>3. QED
    BY <1>1, <1>2, <2>2 DEF DecidingOK
<1>3. CASE mreq[k].pc = "answer"
  BY <1>1, <1>3 DEF DecidingOK, FinalStep
<1>4. CASE mreq[k].pc \notin {"save", "answer"}
  BY <1>1, <1>4 DEF DecidingOK
<1>5. QED
  BY <1>2, <1>3, <1>4

\* What was answered stays true of rows that are decided.
LEMMA AnswersStay ==
    ASSUME AnswersOK, FinalStep
    PROVE  \A a \in answers :
              /\ a.id \in RequestIDs /\ a.decision \in Decisions
              /\ mailbox'[a.id].state = a.decision
              /\ mailbox'[a.id].to = a.by
  BY DEF AnswersOK, FinalStep

\* A handler with nothing to do, and a row that does not exist.
LEMMA IdleOK == Idle \in Request /\ Idle.pc = "idle" /\ NoRow \in Row
  BY DEF Idle, Request, Row, NoRow

\* A step that writes no row and takes no lock, and remembers nothing of a row.
LEMMA Memory ==
    ASSUME MailInv, NEW h \in Handlers, NEW new \in Request, Become(h, new),
           new.pc \in {"idle", "insert", "lock"},
           new.pc = "lock" => new.id \in RequestIDs /\ new.decision \in Decisions,
           UNCHANGED <<mailbox, answers>>,
           lock' \in [RequestIDs -> Handlers \cup {Nobody}],
           \A id \in RequestIDs : lock[id] \in Handlers \ {h} =>
              lock'[id] = lock[id]
    PROVE  MailInv' /\ FinalStep
<1>1. FinalStep
  BY DEF FinalStep
<1>2. MailTypeOK' /\ mreq'[h] = new /\ \A k \in Handlers \ {h} : mreq'[k] = mreq[k]
  BY DEF Become, MailInv, OnePendingPerPair, MailTypeOK
<1>3. OnePendingPerPair'
  BY <1>2 DEF MailInv, OnePendingPerPair
<1>4. \A k \in Handlers \ {h} : DecidingOK(k)'
  BY <1>1, <1>2, OthersDeciding
<1>5. DecidingOK(h)'
  BY <1>2 DEF DecidingOK
<1>6. AnswersOK'
  BY DEF MailInv, AnswersOK
<1>7. QED
  BY <1>1, <1>3, <1>4, <1>5, <1>6 DEF MailInv
-----------------------------------------------------------------------------
\* A peer asks another one.
LEMMA Creating ==
    ASSUME MailInv, NEW h \in Handlers, NEW p \in Peers, NEW q \in Peers,
           Create(h, p, q)
    PROVE  MailInv' /\ FinalStep
<1> DEFINE new == [Idle EXCEPT !.pc = "insert", !.peer = p, !.to = q]
<1>1. new \in Request /\ new.pc = "insert"
  BY IdleOK DEF Request
<1>2. Become(h, new) /\ UNCHANGED <<mailbox, answers, lock>>
  BY DEF Create
<1>3. lock \in [RequestIDs -> Handlers \cup {Nobody}]
  BY DEF MailInv, OnePendingPerPair, MailTypeOK
<1> HIDE DEF new
<1>4. QED
  BY <1>1, <1>2, <1>3, Memory

\* A peer decides, or tries to decide, a request.
LEMMA Deciding ==
    ASSUME MailInv, NEW h \in Handlers, NEW p \in Peers, NEW id \in RequestIDs,
           Accept(h, p, id) \/ Reject(h, p, id)
    PROVE  MailInv' /\ FinalStep
<1>1. PICK d \in Decisions :
         Become(h, [Idle EXCEPT !.pc = "lock", !.peer = p, !.id = id,
                                !.decision = d])
  BY DEF Accept, Reject, Decisions
<1> DEFINE new == [Idle EXCEPT !.pc = "lock", !.peer = p, !.id = id,
                               !.decision = d]
<1>2. new \in Request
  BY IdleOK DEF Request
<1>3. new.pc = "lock" /\ new.id = id /\ new.decision = d
  BY IdleOK DEF Request
<1>4. Become(h, new) /\ UNCHANGED <<mailbox, answers, lock>>
  BY <1>1 DEF Accept, Reject
<1>5. lock \in [RequestIDs -> Handlers \cup {Nobody}]
  BY DEF MailInv, OnePendingPerPair, MailTypeOK
<1> HIDE DEF new
<1>6. QED
  BY <1>2, <1>3, <1>4, <1>5, Memory

\* The new row is the only pending one of its pair.
LEMMA Inserting ==
    ASSUME MailInv, NEW h \in Handlers, InsertRequest(h)
    PROVE  MailInv' /\ FinalStep
<1> DEFINE row == [state |-> "pending", from |-> mreq[h].peer, to |-> mreq[h].to]
<1>1. PICK id \in RequestIDs : /\ mailbox[id].state = "none"
                               /\ mailbox' = [mailbox EXCEPT ![id] = row]
  BY DEF InsertRequest
<1>2. /\ MailTypeOK
      /\ mreq[h] \in Request
  BY DEF MailInv, OnePendingPerPair, MailTypeOK
<1>3. row \in Row /\ row.state = "pending"
  BY <1>2 DEF Request, Row
<1>4. \A i \in RequestIDs : mailbox[i] # row
  BY DEF InsertRequest, Pending
<1> HIDE DEF row
<1>5. mailbox'[id] = row /\ \A i \in RequestIDs \ {id} : mailbox'[i] = mailbox[i]
  BY <1>1, <1>2 DEF MailTypeOK
<1>6. FinalStep
  BY <1>1, <1>5 DEF FinalStep, Decisions
<1>7. MailTypeOK' /\ mreq'[h] = Idle /\ \A k \in Handlers \ {h} : mreq'[k] = mreq[k]
  BY <1>1, <1>2, <1>3, IdleOK DEF MailTypeOK, InsertRequest, Become
<1>8. OnePendingPerPair'
  BY <1>4, <1>5, <1>7 DEF MailInv, OnePendingPerPair
<1>9. \A k \in Handlers \ {h} : DecidingOK(k)'
  BY <1>1, <1>5, <1>6, <1>7, OthersDeciding DEF InsertRequest
<1>10. DecidingOK(h)'
  BY <1>7, IdleOK DEF DecidingOK
<1>11. AnswersOK'
  BY <1>6, AnswersStay DEF MailInv, AnswersOK, InsertRequest
<1>12. QED
  BY <1>6, <1>8, <1>9, <1>10, <1>11 DEF MailInv

\* The lock freezes what the checks have found.
LEMMA Locking ==
    ASSUME MailInv, NEW h \in Handlers, LockRequest(h)
    PROVE  MailInv' /\ FinalStep
<1> DEFINE r == mreq[h]
           copy == [mailbox[r.id] EXCEPT !.state = r.decision]
<1>1. r.id \in RequestIDs /\ r.decision \in Decisions /\ r \in Request
  BY DEF MailInv, DecidingOK, LockRequest, OnePendingPerPair, MailTypeOK
<1>2. MailTypeOK /\ UNCHANGED <<mailbox, answers>>
  BY DEF MailInv, OnePendingPerPair, LockRequest
<1>3. copy \in Row
  BY <1>1, <1>2 DEF MailTypeOK, Row
<1>4. mreq' = [mreq EXCEPT ![h] = [r EXCEPT !.pc = "save", !.copy = copy]]
  BY DEF LockRequest
<1>5. /\ mreq'[h].pc = "save" /\ mreq'[h].copy = copy /\ mreq'[h].id = r.id
      /\ mreq'[h].peer = r.peer /\ mreq'[h].decision = r.decision
      /\ mreq'[h] \in Request
      /\ \A k \in Handlers \ {h} : mreq'[k] = mreq[k]
  BY <1>1, <1>2, <1>3, <1>4 DEF MailTypeOK, Request
<1>6. /\ lock[r.id] = Nobody /\ lock'[r.id] = h
      /\ \A id \in RequestIDs \ {r.id} : lock'[id] = lock[id]
  BY <1>1, <1>2 DEF LockRequest, MailTypeOK
<1>7. MailTypeOK'
  BY <1>1, <1>2, <1>4, <1>5 DEF LockRequest, MailTypeOK
<1>8. OnePendingPerPair'
  BY <1>2, <1>7 DEF MailInv, OnePendingPerPair
<1>9. FinalStep
  BY <1>2 DEF FinalStep
<1>10. \A k \in Handlers \ {h} : DecidingOK(k)'
  BY <1>2, <1>5, <1>6, <1>9, OthersDeciding, MailboxAssumption
<1>11. DecidingOK(h)'
  BY <1>1, <1>2, <1>5, <1>6 DEF DecidingOK, LockRequest
<1>12. AnswersOK'
  BY <1>2 DEF MailInv, AnswersOK
<1>13. QED
  BY <1>8, <1>9, <1>10, <1>11, <1>12 DEF MailInv

\* The save changes a row that nobody else could change since it was read.
LEMMA Saving ==
    ASSUME MailInv, NEW h \in Handlers, SaveRequest(h)
    PROVE  MailInv' /\ FinalStep
<1> DEFINE r == mreq[h]
<1>1. /\ r.id \in RequestIDs /\ r.decision \in Decisions /\ r \in Request
      /\ lock[r.id] = h /\ mailbox[r.id].state = "pending"
      /\ mailbox[r.id].to = r.peer
      /\ r.copy = [mailbox[r.id] EXCEPT !.state = r.decision]
  BY DEF MailInv, DecidingOK, SaveRequest, OnePendingPerPair, MailTypeOK
<1>2. MailTypeOK
  BY DEF MailInv, OnePendingPerPair
<1>3. r.copy.state = r.decision /\ r.copy.to = r.peer /\ r.copy \in Row
  BY <1>1, <1>2 DEF MailTypeOK, Row, Request
<1>4. /\ mailbox'[r.id] = r.copy
      /\ \A id \in RequestIDs \ {r.id} :
            mailbox'[id] = mailbox[id] /\ lock'[id] = lock[id]
  BY <1>1, <1>2 DEF MailTypeOK, SaveRequest
<1>5. mreq' = [mreq EXCEPT ![h] = [r EXCEPT !.pc = "answer", !.copy = NoRow]]
  BY DEF SaveRequest
<1>6. /\ mreq'[h].pc = "answer" /\ mreq'[h].id = r.id
      /\ mreq'[h].peer = r.peer /\ mreq'[h].decision = r.decision
      /\ mreq'[h] \in Request
      /\ \A k \in Handlers \ {h} : mreq'[k] = mreq[k]
  BY <1>1, <1>2, <1>5, IdleOK DEF MailTypeOK, Request
<1>7. MailTypeOK'
  BY <1>1, <1>2, <1>3, <1>5, <1>6 DEF SaveRequest, MailTypeOK
<1>8. OnePendingPerPair'
  <2>1. mailbox'[r.id].state # "pending"
    BY <1>1, <1>3, <1>4 DEF Decisions
  <2> HIDE DEF r
  <2>2. QED
    BY <1>4, <1>7, <2>1 DEF MailInv, OnePendingPerPair
<1>9. FinalStep
  BY <1>1, <1>4 DEF FinalStep, Decisions
<1>10. \A k \in Handlers \ {h} : DecidingOK(k)'
  BY <1>1, <1>4, <1>6, <1>9, OthersDeciding
<1>11. DecidingOK(h)'
  BY <1>1, <1>3, <1>4, <1>6 DEF DecidingOK
<1>12. AnswersOK'
  BY <1>9, AnswersStay DEF MailInv, AnswersOK, SaveRequest
<1>13. QED
  BY <1>8, <1>9, <1>10, <1>11, <1>12 DEF MailInv

\* The caller is told what the row says.
LEMMA Answering ==
    ASSUME MailInv, NEW h \in Handlers, Answer(h)
    PROVE  MailInv' /\ FinalStep
<1>1. /\ mreq[h].id \in RequestIDs /\ mreq[h].decision \in Decisions
      /\ mailbox[mreq[h].id].state = mreq[h].decision
      /\ mailbox[mreq[h].id].to = mreq[h].peer
  BY DEF MailInv, DecidingOK, Answer
<1>2. UNCHANGED <<mailbox, lock>> /\ Become(h, Idle)
  BY DEF Answer
<1>3. MailTypeOK' /\ mreq'[h] = Idle /\ \A k \in Handlers \ {h} : mreq'[k] = mreq[k]
  BY <1>2, IdleOK DEF Become, MailInv, OnePendingPerPair, MailTypeOK
<1>4. OnePendingPerPair'
  BY <1>2, <1>3 DEF MailInv, OnePendingPerPair
<1>5. FinalStep
  BY <1>2 DEF FinalStep
<1>6. \A k \in Handlers \ {h} : DecidingOK(k)'
  BY <1>2, <1>3, <1>5, OthersDeciding
<1>7. DecidingOK(h)'
  BY <1>3, IdleOK DEF DecidingOK
<1>8. AnswersOK'
  BY <1>1, <1>2 DEF MailInv, AnswersOK, Answer
<1>9. QED
  BY <1>4, <1>5, <1>6, <1>7, <1>8 DEF MailInv

\* A rollback writes nothing and frees only the locks of its own handler.
LEMMA Failing ==
    ASSUME MailInv, NEW h \in Handlers, FailMail(h)
    PROVE  MailInv' /\ FinalStep
<1>1. /\ lock' \in [RequestIDs -> Handlers \cup {Nobody}]
      /\ \A id \in RequestIDs : lock[id] \in Handlers \ {h} => lock'[id] = lock[id]
  BY DEF FailMail, MailInv, OnePendingPerPair, MailTypeOK
<1>2. QED
  BY <1>1, Memory, IdleOK DEF FailMail

\* A step of any handler keeps the invariant and every decided row.
LEMMA StepMail ==
    ASSUME MailInv, [MailNext]_mailVars
    PROVE  MailInv' /\ FinalStep
<1>1. CASE UNCHANGED mailVars
  BY <1>1 DEF mailVars, MailInv, OnePendingPerPair, MailTypeOK, DecidingOK,
              AnswersOK, FinalStep
<1>2. ASSUME NEW h \in Handlers,
             \/ \E p, q \in Peers : Create(h, p, q)
             \/ \E p \in Peers, id \in RequestIDs : Accept(h, p, id) \/ Reject(h, p, id)
             \/ InsertRequest(h)
             \/ LockRequest(h)
             \/ SaveRequest(h)
             \/ Answer(h)
             \/ FailMail(h)
      PROVE  MailInv' /\ FinalStep
  BY <1>2, Creating, Deciding, Inserting, Locking, Saving, Answering, Failing
<1>3. QED
  BY <1>1, <1>2 DEF MailNext
-----------------------------------------------------------------------------
\* In every reachable state a pair has at most one pending request, a handler
\* that decides one holds its row (UpdateStateIfToPeer), and every
\* answer is what the row says.
THEOREM MailSafe == MailSpec => []MailInv
<1>1. MailInv /\ [MailNext]_mailVars => MailInv'
  BY StepMail
<1>2. QED
  BY InitMail, <1>1, PTL DEF MailSpec

\* However many peers, requests and handlers there are, a pair has at most one
\* pending request, and rows, locks and handlers keep their types.
THEOREM OnePending == MailSpec => []OnePendingPerPair
<1>1. MailInv => OnePendingPerPair
  BY DEF MailInv
<1>2. QED
  BY <1>1, MailSafe, PTL

\* Every answered decision was made by the recipient and stays in force.
THEOREM AnswersStand == MailSpec => []AnswersHold
<1>1. MailInv => AnswersHold
  BY DEF MailInv, AnswersOK, AnswersHold
<1>2. QED
  BY <1>1, MailSafe, PTL

\* No later accept, reject or rollback changes a request that is decided.
THEOREM DecisionsAreFinal == MailSpec => DecisionIsFinal
<1>1. MailInv /\ [MailNext]_mailVars =>
        [\A id \in RequestIDs :
           mailbox[id].state \in Decisions => mailbox'[id] = mailbox[id]]_mailVars
  BY StepMail DEF FinalStep
<1>2. QED
  BY <1>1, MailSafe, PTL DEF MailSpec, DecisionIsFinal
=============================================================================
