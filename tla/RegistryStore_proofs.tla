------------------------ MODULE RegistryStore_proofs ------------------------
(***************************************************************************)
(* Proofs about RegistryStore, for every number of connections, revisions, *)
(* profiles and payloads.                                                  *)
(***************************************************************************)
EXTENDS RegistryStore, RegistryHistory_proofs, TLAPS

(* The invariant of one client, as one formula.                            *)
ClientInv(c) == HoldsLocks(c) /\ ReadsStayCurrent(c) /\ WritesPlanned(c)

LEMMA InvInit == Init => IInv
  <1> SUFFICES ASSUME Init PROVE IInv
    OBVIOUS
  <1>1. TypeOK
    BY HistoryConstants, StoreConstants DEF Init, TypeOK, HistoryInit, HistoryTypeOK, Revisions, Row, NoRow,
       Steps, CandidateSteps, ProfileSteps, Txn, IdleTxn, Replies, Statuses
  <1>2. NumbersFresh /\ OneActivePerProfile /\ ActivatedMeansValidated
    BY DEF Init, HistoryInit, NoRow, NumbersFresh, Exists, OneActivePerProfile,
       ActivatedMeansValidated
  <1>3. ASSUME NEW c \in Clients PROVE HoldsLocks(c) /\ ReadsStayCurrent(c) /\ WritesPlanned(c)
    BY DEF Init, HoldsLocks, ReadsStayCurrent, WritesPlanned, DecidedSteps, CandidateSteps,
       ProfileSteps, IdleTxn
  <1> QED
    BY <1>1, <1>2, <1>3 DEF IInv

(* An answer leaves the local variables well-typed.                        *)
LEMMA AnswerType ==
  ASSUME TypeOK, NEW c \in Clients, NEW a \in Replies, Answer(c, a)
  PROVE  /\ pc' \in [Clients -> Steps]
         /\ txn' \in [Clients -> Txn]
         /\ reply' \in [Clients -> Replies]
  BY HistoryConstants, StoreConstants DEF TypeOK, Answer, Goto, Steps, Txn, IdleTxn

(* A client whose call has been answered satisfies its part.               *)
LEMMA AnswerClient ==
  ASSUME TypeOK, NEW c \in Clients, NEW a, Answer(c, a)
  PROVE  ClientInv(c)'
  <1>1. pc'[c] = "idle" /\ txn'[c] = IdleTxn
    BY DEF TypeOK, Answer, Goto
  <1> QED
    BY <1>1 DEF ClientInv, HoldsLocks, ReadsStayCurrent, WritesPlanned, DecidedSteps,
       CandidateSteps, ProfileSteps, IdleTxn

(* From its first lock on, the candidate of a call is a committed row.     *)
LEMMA CandidateRow ==
  ASSUME TypeOK, NEW c \in Clients, HoldsLocks(c), pc[c] \in CandidateSteps
  PROVE  /\ Candidate(c) \in Revisions /\ Exists(Candidate(c))
         /\ rows[Candidate(c)] \in Row
         /\ ProfileOf(c) \in Profiles
  <1>1. Candidate(c) \in Revisions /\ Exists(Candidate(c))
    BY DEF HoldsLocks
  <1>2. rows[Candidate(c)] \in Row
    BY <1>1 DEF Exists, TypeOK, HistoryTypeOK
  <1> QED
    BY <1>1, <1>2 DEF ProfileOf, Row

(* A step that writes no row and takes no lock away from d keeps d's part  *)
(* of the invariant.                                                       *)
LEMMA Frame ==
  ASSUME NEW d \in Clients, ClientInv(d),
         pc'[d] = pc[d], txn'[d] = txn[d], rows' = rows,
         \A r \in Revisions : rowLock[r] = d => rowLock'[r] = d,
         \A p \in Profiles : profLock[p] = d => profLock'[p] = d,
         TypeOK
  PROVE  ClientInv(d)'
  <1>1. HoldsLocks(d)'
    <2>1. pc[d] \in ProfileSteps => ProfileOf(d) \in Profiles
      BY DEF ClientInv, HoldsLocks, ProfileOf, Candidate, CandidateSteps, Exists, TypeOK,
         HistoryTypeOK, Row
    <2> QED
      BY <2>1 DEF ClientInv, HoldsLocks, ProfileOf, Candidate, CandidateSteps, Exists
  <1>2. ReadsStayCurrent(d)'
    <2>1. txn[d].base \in 0..MaxRev
      BY DEF TypeOK, Txn
    <2>2. txn[d].base # 0 => txn[d].base \in Revisions
      BY <2>1, HistoryConstants, StoreConstants DEF Revisions
    <2> QED
      BY <2>2 DEF ClientInv, ReadsStayCurrent, ProfileOf, Candidate, ActiveSnapshot, ActiveRows
  <1>3. WritesPlanned(d)'
    BY DEF ClientInv, WritesPlanned, Candidate, BaseAsExpected, AlreadyActive
  <1> QED
    BY <1>1, <1>2, <1>3 DEF ClientInv

(* The global parts speak of rows and nextRev only.                        *)
LEMMA GlobalFrame ==
  ASSUME IInv, rows' = rows, nextRev' = nextRev
  PROVE  NumbersFresh' /\ OneActivePerProfile' /\ ActivatedMeansValidated' /\ HistoryTypeOK'
  BY DEF IInv, TypeOK, HistoryTypeOK, NumbersFresh, OneActivePerProfile,
     ActivatedMeansValidated, Exists

LEMMA RollbackInv ==
  ASSUME IInv, NEW c \in Clients, NEW a \in Replies, Rollback(c, a)
  PROVE  IInv'
  <1> USE DEF Rollback
  <1>1. TypeOK'
    <2>1. /\ pc' \in [Clients -> Steps]
          /\ txn' \in [Clients -> Txn]
          /\ reply' \in [Clients -> Replies]
      BY AnswerType DEF IInv
    <2> QED
      BY <2>1 DEF IInv, TypeOK, ReleaseLocks, HistoryTypeOK
  <1>2. NumbersFresh' /\ OneActivePerProfile' /\ ActivatedMeansValidated'
    BY GlobalFrame
  <1>3. ASSUME NEW d \in Clients PROVE ClientInv(d)'
    <2>1. CASE d = c
      BY <2>1, AnswerClient DEF IInv
    <2>2. CASE d # c
      BY <2>2, Frame DEF IInv, ClientInv, Answer, Goto, TypeOK, ReleaseLocks
    <2> QED
      BY <2>1, <2>2
  <1> QED
    BY <1>1, <1>2, <1>3 DEF IInv, ClientInv

(* A step of c that changes neither rows nor the sequence and gives c a    *)
(* correct local state keeps the invariant.                                *)
LEMMA LocalStep ==
  ASSUME IInv, NEW c \in Clients, TypeOK', ClientInv(c)',
         rows' = rows, nextRev' = nextRev,
         \A d \in Clients \ {c} : pc'[d] = pc[d] /\ txn'[d] = txn[d],
         \A r \in Revisions, d \in Clients \ {c} : rowLock[r] = d => rowLock'[r] = d,
         \A p \in Profiles, d \in Clients \ {c} : profLock[p] = d => profLock'[p] = d
  PROVE  IInv'
  <1>1. NumbersFresh' /\ OneActivePerProfile' /\ ActivatedMeansValidated'
    BY GlobalFrame
  <1>2. ASSUME NEW d \in Clients PROVE ClientInv(d)'
    <2>1. CASE d = c
      BY <2>1
    <2>2. CASE d # c
      BY <2>2, Frame DEF IInv, ClientInv
    <2> QED
      BY <2>1, <2>2
  <1> QED
    BY <1>1, <1>2 DEF IInv, ClientInv

LEMMA CreateInv ==
  ASSUME IInv, NEW c \in Clients, NEW p \in Profiles, NEW d \in Payloads,
         CreateRevision(c, p, d)
  PROVE  IInv'
  <1> USE DEF CreateRevision
  <1>1. nextRev \in Revisions /\ ~Exists(nextRev) /\ nextRev \in Nat
    BY HistoryConstants, StoreConstants DEF IInv, TypeOK, NumbersFresh, Revisions
  <1>2. rows' = rows \/ rows' = [rows EXCEPT ![nextRev] = DraftRow(p, d)]
    OBVIOUS
  <1>3. \A r \in Revisions : Exists(r) => rows'[r] = rows[r] /\ r # nextRev
    BY <1>1, <1>2 DEF IInv, TypeOK, HistoryTypeOK, Exists
  <1>4. \A r \in Revisions : rows'[r] = rows[r] \/ rows'[r] = DraftRow(p, d)
    BY <1>1, <1>2 DEF IInv, TypeOK, HistoryTypeOK
  <1>5. TypeOK'
    <2>1. DraftRow(p, d) \in Row
      BY DEF DraftRow, Row, Statuses
    <2>2. rows' \in [Revisions -> Row \cup {NoRow}]
      BY <1>1, <1>2, <2>1 DEF IInv, TypeOK, HistoryTypeOK
    <2>3. nextRev' \in 1..(MaxRev + 1)
      BY <1>1, HistoryConstants, StoreConstants DEF Revisions
    <2>4. reply' \in [Clients -> Replies]
      BY DEF IInv, TypeOK, Replies
    <2> QED
      BY <2>2, <2>3, <2>4 DEF IInv, TypeOK, HistoryTypeOK
  <1>6. NumbersFresh'
    <2> SUFFICES ASSUME NEW r \in Revisions, r >= nextRev' PROVE ~Exists(r)'
      BY DEF NumbersFresh
    <2>1. r # nextRev /\ r >= nextRev
      BY <1>1 DEF Revisions
    <2> QED
      BY <2>1, <1>1, <1>2 DEF IInv, TypeOK, HistoryTypeOK, NumbersFresh, Exists
  <1>7. OneActivePerProfile' /\ ActivatedMeansValidated'
    <2>1. DraftRow(p, d).status = "draft" /\ ~DraftRow(p, d).activated
      BY DEF DraftRow
    <2>2. \A r \in Revisions : rows'[r].status = "active" => rows'[r] = rows[r]
      BY <1>4, <2>1
    <2>3. OneActivePerProfile'
      BY <2>2 DEF IInv, OneActivePerProfile
    <2>4. ActivatedMeansValidated'
      BY <2>1, <1>4 DEF IInv, ActivatedMeansValidated, Exists
    <2> QED
      BY <2>3, <2>4
  <1>8. \A q \in Profiles : ActiveRows(q)' = ActiveRows(q)
    <2>1. \A r \in Revisions : rows'[r].status = "active" => rows'[r] = rows[r]
      BY <1>4 DEF DraftRow
    <2>2. \A r \in Revisions : rows[r].status = "active" => rows'[r] = rows[r]
      BY <1>3 DEF Exists, NoRow
    <2> QED
      BY <2>1, <2>2 DEF ActiveRows
  <1>9. ASSUME NEW e \in Clients PROVE ClientInv(e)'
    <2>1. ClientInv(e) /\ pc' = pc /\ txn' = txn /\ rowLock' = rowLock /\ profLock' = profLock
      BY DEF IInv, ClientInv
    <2>2. pc[e] \in CandidateSteps =>
            rows'[Candidate(e)] = rows[Candidate(e)] /\ ProfileOf(e) \in Profiles
      BY <1>3, <2>1, CandidateRow DEF ClientInv, IInv
    <2>3. HoldsLocks(e)'
      BY <2>1, <2>2 DEF ClientInv, HoldsLocks, ProfileOf, Candidate, Exists, CandidateSteps
    <2>4. ReadsStayCurrent(e)'
      BY <2>1, <2>2, <1>8 DEF ClientInv, ReadsStayCurrent, ProfileOf, Candidate, ActiveSnapshot,
         CandidateSteps, ProfileSteps, DecidedSteps
    <2>5. WritesPlanned(e)'
      <3>1. (pc[e] \in {"reject", "supersede", "activate", "commit"})
              => rows'[Candidate(e)].payload = rows[Candidate(e)].payload
        BY <2>2 DEF CandidateSteps, ProfileSteps
      <3> QED
        BY <2>1, <3>1 DEF ClientInv, WritesPlanned, Candidate, BaseAsExpected, AlreadyActive
    <2> QED
      BY <2>3, <2>4, <2>5 DEF ClientInv
  <1> QED
    BY <1>5, <1>6, <1>7, <1>9 DEF IInv, ClientInv

-----------------------------------------------------------------------------
(* COMMIT *)

(* What a client knows from its decision to its COMMIT: its locks and the  *)
(* state they protect.                                                     *)
LEMMA DecidedContext ==
  ASSUME IInv, NEW c \in Clients, pc[c] \in DecidedSteps
  PROVE  /\ Candidate(c) \in Revisions /\ Exists(Candidate(c))
         /\ rows[Candidate(c)] \in Row
         /\ ProfileOf(c) \in Profiles
         /\ rows[Candidate(c)].status = txn[c].seen
         /\ rowLock[Candidate(c)] = c
         /\ profLock[ProfileOf(c)] = c
         /\ txn[c].base \in 0..MaxRev
         /\ txn[c].base = 0 => ActiveRows(ProfileOf(c)) = {}
         /\ txn[c].base # 0 => /\ txn[c].base \in Revisions
                               /\ rowLock[txn[c].base] = c
                               /\ ActiveRows(ProfileOf(c)) = {txn[c].base}
  <1>1. HoldsLocks(c) /\ ReadsStayCurrent(c) /\ TypeOK /\ OneActivePerProfile
    BY DEF IInv
  <1>2. pc[c] \in CandidateSteps /\ pc[c] \in ProfileSteps /\ pc[c] \in DecidedSteps
    BY DEF CandidateSteps, ProfileSteps, DecidedSteps
  <1>3. /\ Candidate(c) \in Revisions /\ Exists(Candidate(c))
        /\ rows[Candidate(c)] \in Row
        /\ ProfileOf(c) \in Profiles
    BY <1>1, <1>2, CandidateRow
  <1>4. /\ rows[Candidate(c)].status = txn[c].seen
        /\ rowLock[Candidate(c)] = c
        /\ profLock[ProfileOf(c)] = c
        /\ ActiveSnapshot(ProfileOf(c), txn[c].base)
        /\ txn[c].base # 0 => rowLock[txn[c].base] = c
    BY <1>1, <1>2 DEF HoldsLocks, ReadsStayCurrent
  <1>5. txn[c].base \in 0..MaxRev
    BY <1>1 DEF TypeOK, Txn
  <1>6. 0 \notin Revisions
    BY DEF Revisions
  <1>7. txn[c].base = 0 => ActiveRows(ProfileOf(c)) = {}
    BY <1>4, <1>6 DEF ActiveSnapshot, ActiveRows
  <1>8. txn[c].base # 0 => txn[c].base \in ActiveRows(ProfileOf(c))
    BY <1>4 DEF ActiveSnapshot
  <1>9. \A r, q \in ActiveRows(ProfileOf(c)) : r = q
    BY <1>1 DEF OneActivePerProfile, ActiveRows
  <1>10. txn[c].base # 0 => ActiveRows(ProfileOf(c)) = {txn[c].base}
    BY <1>8, <1>9
  <1>11. txn[c].base # 0 => txn[c].base \in Revisions
    BY <1>8 DEF ActiveRows
  <1> QED
    BY <1>3, <1>4, <1>5, <1>7, <1>10, <1>11

(* The three transactions activate_revision can commit: it wrote nothing,  *)
(* it rejected a draft, or it replaced the active revision.                *)
LEMMA CommitCases ==
  ASSUME IInv, NEW c \in Clients, Commit(c)
  PROVE  \/ rows' = rows /\ (AlreadyActive(c) \/ txn[c].seen = "superseded")
            /\ txn[c].candidateStatus = "none"
         \/ Reject(Candidate(c)) /\ txn[c].candidateStatus = "rejected" /\ txn[c].seen = "draft"
         \/ Activate(Candidate(c)) /\ txn[c].candidateStatus = "active"
  <1> DEFINE k == Candidate(c)
             b == txn[c].base
  <1>1. pc[c] = "commit"
    BY DEF Commit
  <1>2. /\ k \in Revisions /\ Exists(k) /\ rows[k] \in Row
        /\ rows[k].status = txn[c].seen
        /\ b = 0 => ActiveRows(ProfileOf(c)) = {}
        /\ b # 0 => ActiveRows(ProfileOf(c)) = {b}
    BY <1>1, DecidedContext DEF DecidedSteps
  <1>3. 0 \notin Revisions
    BY DEF Revisions
  <1>4. rows \in [Revisions -> Row \cup {NoRow}]
    BY DEF IInv, TypeOK, HistoryTypeOK
  <1>5. WritesPlanned(c)
    BY DEF IInv
  <1>6. CASE txn[c].candidateStatus = "none"
    <2>1. txn[c].superseded = 0 /\ (AlreadyActive(c) \/ txn[c].seen = "superseded")
      BY <1>1, <1>5, <1>6 DEF WritesPlanned
    <2>2. rows' = [r \in Revisions |-> rows[r]]
      BY <1>6, <2>1, <1>3 DEF Commit
    <2> QED
      BY <1>4, <1>6, <2>1, <2>2
  <1>7. CASE txn[c].candidateStatus = "rejected"
    <2>1. txn[c].superseded = 0 /\ txn[c].seen = "draft" /\ rows[k].payload \notin Accepted
      BY <1>1, <1>5, <1>7 DEF WritesPlanned
    <2>2. rows' = [rows EXCEPT ![k].status = "rejected"]
      BY <1>7, <2>1, <1>3, <1>4 DEF Commit
    <2> QED
      BY <1>2, <1>7, <2>1, <2>2 DEF Reject
  <1>8. CASE txn[c].candidateStatus = "active"
    <2>1. /\ txn[c].superseded = b /\ txn[c].seen \in {"draft", "superseded"}
          /\ rows[k].payload \in Accepted
      BY <1>1, <1>5, <1>8 DEF WritesPlanned
    <2>2. \A r \in Revisions : r = b <=> r \in ActiveRows(rows[k].profile)
      BY <1>2, <1>3 DEF ProfileOf
    <2>3. rows' = [r \in Revisions |->
             IF r = k
               THEN [rows[r] EXCEPT !.status = "active", !.activated = TRUE]
             ELSE IF r \in ActiveRows(rows[k].profile)
               THEN [rows[r] EXCEPT !.status = "superseded"]
             ELSE rows[r]]
      BY <1>8, <2>1, <2>2 DEF Commit
    <2> QED
      BY <1>2, <1>8, <2>1, <2>3 DEF Activate
  <1>9. txn[c].candidateStatus \in {"none", "active", "rejected"}
    BY DEF IInv, TypeOK, Txn
  <1> QED
    BY <1>6, <1>7, <1>8, <1>9

(* Another client's commit leaves alone the rows d has locked and the      *)
(* active revision of the profile d has locked: d's part is kept.          *)
LEMMA OtherCommitFrame ==
  ASSUME NEW d \in Clients, ClientInv(d), TypeOK,
         pc'[d] = pc[d], txn'[d] = txn[d],
         \A r \in Revisions : rowLock[r] = d => rowLock'[r] = d /\ rows'[r] = rows[r],
         \A p \in Profiles : profLock[p] = d =>
           profLock'[p] = d /\ ActiveRows(p)' = ActiveRows(p)
  PROVE  ClientInv(d)'
  <1>1. pc[d] \in CandidateSteps =>
          /\ Candidate(d) \in Revisions /\ Exists(Candidate(d))
          /\ ProfileOf(d) \in Profiles
          /\ rowLock[Candidate(d)] = d
          /\ rows'[Candidate(d)] = rows[Candidate(d)]
    BY CandidateRow DEF ClientInv, HoldsLocks
  <1>2. pc[d] \in ProfileSteps =>
          /\ pc[d] \in CandidateSteps /\ profLock[ProfileOf(d)] = d
          /\ profLock'[ProfileOf(d)] = d
          /\ ActiveRows(ProfileOf(d))' = ActiveRows(ProfileOf(d))
    <2>1. ASSUME pc[d] \in ProfileSteps
          PROVE  /\ pc[d] \in CandidateSteps /\ profLock[ProfileOf(d)] = d
                 /\ profLock'[ProfileOf(d)] = d
      BY <1>1, <2>1 DEF ClientInv, HoldsLocks, CandidateSteps
    <2>2. ASSUME pc[d] \in ProfileSteps
          PROVE  ActiveRows(ProfileOf(d))' = ActiveRows(ProfileOf(d))
      <3>1. PICK p \in Profiles : p = rows[txn[d].candidate].profile
        BY <1>1, <2>1, <2>2 DEF ProfileOf, Candidate
      <3>2. rows'[txn'[d].candidate].profile = p
        BY <1>1, <2>1, <2>2, <3>1 DEF Candidate
      <3>3. ActiveRows(p)' = ActiveRows(p)
        BY <2>1, <2>2, <3>1 DEF ProfileOf, Candidate
      <3> QED
        BY <3>1, <3>2, <3>3 DEF ActiveRows, ProfileOf, Candidate
    <2> QED
      BY <2>1, <2>2
  <1>3. HoldsLocks(d)'
    BY <1>1, <1>2 DEF ClientInv, HoldsLocks, ProfileOf, Candidate, Exists
  <1>4. ReadsStayCurrent(d)'
    <2>1. txn[d].base # 0 => txn[d].base \in Revisions
      BY HistoryConstants DEF TypeOK, Txn, Revisions
    <2>2. \A t : pc[d] \in ProfileSteps /\ ActiveSnapshot(ProfileOf(d), t)
                   => ActiveSnapshot(ProfileOf(d), t)'
      BY <1>1, <1>2 DEF ActiveSnapshot, ProfileOf, Candidate
    <2> QED
      BY <1>1, <2>1, <2>2 DEF ClientInv, ReadsStayCurrent, ProfileOf, Candidate,
         CandidateSteps, ProfileSteps, DecidedSteps
  <1>5. WritesPlanned(d)'
    <2>1. pc[d] \in {"reject", "supersede", "activate", "commit"}
            => rows'[Candidate(d)].payload = rows[Candidate(d)].payload
      BY <1>1 DEF CandidateSteps, ProfileSteps
    <2> QED
      BY <2>1 DEF ClientInv, WritesPlanned, Candidate, BaseAsExpected, AlreadyActive
  <1> QED
    BY <1>3, <1>4, <1>5 DEF ClientInv

(* What one COMMIT does to the table.                                      *)
LEMMA CommitEffect ==
  ASSUME IInv, NEW c \in Clients, Commit(c)
  PROVE  /\ HistoryInv'
         /\ \A q \in Revisions : Exists(q)' => Exists(q)
         /\ \A q \in Revisions : rows'[q] # rows[q] => rowLock[q] = c
         /\ \A p \in Profiles : p # ProfileOf(c) => ActiveRows(p)' = ActiveRows(p)
  <1> DEFINE k == Candidate(c)
  <1>1. pc[c] = "commit" /\ HistoryInv
    BY DEF Commit, IInv, TypeOK, HistoryInv
  <1>2. /\ k \in Revisions /\ rowLock[k] = c /\ Exists(k) /\ ProfileOf(c) = rows[k].profile
        /\ \A q \in ActiveRows(ProfileOf(c)) : rowLock[q] = c
        /\ \A q \in Revisions : Exists(q) \/ rows[q] = NoRow
    BY <1>1, DecidedContext DEF ProfileOf, Exists, DecidedSteps
  <1>3. CASE rows' = rows
    BY <1>1, <1>3 DEF HistoryInv, HistoryTypeOK, OneActivePerProfile, ActivatedMeansValidated,
       Exists, ActiveRows
  <1>4. CASE Reject(k)
    <2>1. \A q \in Revisions : q # k => rows'[q] = rows[q]
      BY <1>1, <1>4 DEF Reject, HistoryInv, HistoryTypeOK
    <2> QED
      BY <1>1, <1>2, <1>4, <2>1, RejectHistory
  <1>5. CASE Activate(k)
    <2>1. \A q \in Revisions : q # k /\ q \notin ActiveRows(rows[k].profile) => rows'[q] = rows[q]
      BY <1>5, Zenon DEF Activate
    <2> QED
      BY <1>1, <1>2, <1>5, <2>1, ActivateHistory
  <1> QED
    BY <1>3, <1>4, <1>5, CommitCases

LEMMA CommitInv ==
  ASSUME IInv, NEW c \in Clients, Commit(c)
  PROVE  IInv'
  <1>1. TypeOK /\ pc[c] = "commit"
    BY DEF IInv, Commit
  <1>2. PICK a \in Replies : Answer(c, a)
    BY DEF Commit, CommitReply, Replies
  <1>3. ReleaseLocks(c) /\ nextRev' = nextRev
    BY DEF Commit
  <1>4. TypeOK'
    <2>1. HistoryTypeOK'
      BY CommitEffect DEF HistoryInv
    <2>2. /\ pc' \in [Clients -> Steps]
          /\ txn' \in [Clients -> Txn]
          /\ reply' \in [Clients -> Replies]
      BY <1>1, <1>2, AnswerType
    <2> QED
      BY <1>1, <1>3, <2>1, <2>2 DEF TypeOK, ReleaseLocks
  <1>5. NumbersFresh'
    BY <1>3, CommitEffect DEF IInv, NumbersFresh
  <1>6. OneActivePerProfile' /\ ActivatedMeansValidated'
    BY CommitEffect DEF HistoryInv
  <1>7. ASSUME NEW d \in Clients PROVE ClientInv(d)'
    <2>1. CASE d = c
      BY <2>1, <1>1, <1>2, AnswerClient
    <2>2. CASE d # c
      <3>1. pc'[d] = pc[d] /\ txn'[d] = txn[d] /\ ClientInv(d)
        BY <1>1, <1>2, <2>2 DEF Answer, Goto, TypeOK, IInv, ClientInv
      <3>2. \A r \in Revisions : rowLock[r] = d => rowLock'[r] = d /\ rows'[r] = rows[r]
        BY <1>3, <2>2, CommitEffect DEF ReleaseLocks
      <3>3. \A p \in Profiles : profLock[p] = d =>
              profLock'[p] = d /\ ActiveRows(p)' = ActiveRows(p)
        BY <1>1, <1>3, <2>2, CommitEffect, DecidedContext DEF ReleaseLocks, DecidedSteps
      <3> QED
        BY <1>1, <3>1, <3>2, <3>3, OtherCommitFrame
    <2> QED
      BY <2>1, <2>2
  <1> QED
    BY <1>4, <1>5, <1>6, <1>7 DEF IInv, ClientInv

-----------------------------------------------------------------------------
(* The other steps, one lemma per action.                                  *)

LEMMA BeginReadInv ==
  ASSUME IInv, NEW c \in Clients, NEW p \in Profiles, BeginRead(c, p)
  PROVE  IInv'
  <1> USE DEF BeginRead
  <1>1. PICK t \in 0..MaxRev :
          /\ ActiveSnapshot(p, t)
          /\ IF t = 0
               THEN Answer(c, "no_active_revision")
               ELSE /\ Goto(c, "readActive")
                    /\ txn' = [txn EXCEPT ![c] = [IdleTxn EXCEPT !.target = t]]
                    /\ reply' = [reply EXCEPT ![c] = "none"]
    OBVIOUS
  <1>2. CASE t = 0
    <2>1. Answer(c, "no_active_revision") /\ "no_active_revision" \in Replies /\ TypeOK
      BY <1>1, <1>2 DEF Replies, IInv
    <2>2. TypeOK'
      BY <2>1, AnswerType DEF TypeOK, HistoryTypeOK
    <2>3. ClientInv(c)'
      BY <2>1, AnswerClient
    <2>4. \A d \in Clients \ {c} : pc'[d] = pc[d] /\ txn'[d] = txn[d]
      BY <2>1 DEF Answer, Goto, TypeOK
    <2> QED
      BY <2>2, <2>3, <2>4, LocalStep
  <1>3. CASE t # 0
    <2>1. /\ pc' = [pc EXCEPT ![c] = "readActive"]
          /\ txn' = [txn EXCEPT ![c] = [IdleTxn EXCEPT !.target = t]]
          /\ reply' = [reply EXCEPT ![c] = "none"]
      BY <1>1, <1>3 DEF Goto
    <2>2. [IdleTxn EXCEPT !.target = t] \in Txn
      BY HistoryConstants DEF IdleTxn, Txn
    <2>3. TypeOK'
      BY <2>1, <2>2 DEF IInv, TypeOK, HistoryTypeOK, Steps, Replies
    <2>4. t \in Revisions
      BY <1>3, HistoryConstants DEF Revisions
    <2>5. pc'[c] = "readActive" /\ txn'[c] = [IdleTxn EXCEPT !.target = t]
      BY <2>1 DEF IInv, TypeOK
    <2>6. ClientInv(c)'
      BY <2>4, <2>5 DEF ClientInv, HoldsLocks, ReadsStayCurrent, WritesPlanned, DecidedSteps,
         CandidateSteps, ProfileSteps, IdleTxn
    <2>7. \A d \in Clients \ {c} : pc'[d] = pc[d] /\ txn'[d] = txn[d]
      BY <2>1 DEF IInv, TypeOK
    <2> QED
      BY <2>3, <2>6, <2>7, LocalStep
  <1> QED
    BY <1>2, <1>3

LEMMA ReadActiveInv ==
  ASSUME IInv, NEW c \in Clients, ReadActive(c)
  PROVE  IInv'
  <1> USE DEF ReadActive
  <1>1. PICK a \in Replies : Answer(c, a)
    BY DEF Replies
  <1>2. TypeOK'
    BY <1>1, AnswerType DEF IInv, TypeOK, HistoryTypeOK
  <1>3. ClientInv(c)'
    BY <1>1, AnswerClient DEF IInv
  <1>4. \A d \in Clients \ {c} : pc'[d] = pc[d] /\ txn'[d] = txn[d]
    BY <1>1 DEF Answer, Goto, IInv, TypeOK
  <1> QED
    BY <1>2, <1>3, <1>4, LocalStep

LEMMA BeginActivateInv ==
  ASSUME IInv, NEW c \in Clients, NEW r \in Revisions,
         NEW e \in Expectations, BeginActivate(c, r, e)
  PROVE  IInv'
  <1> USE DEF BeginActivate, Goto
  <1> DEFINE t == [IdleTxn EXCEPT !.candidate = r, !.expected = e]
  <1>1. /\ t \in Txn /\ t.candidate = r /\ t.base = 0 /\ t.superseded = 0
        /\ t.candidateStatus = "none"
    <2>1. e \in 0..MaxRev \cup {Unchecked} /\ r \in 0..MaxRev
      BY HistoryConstants, StoreConstants DEF Revisions
    <2>2. IdleTxn \in Txn
      BY HistoryConstants, StoreConstants DEF IdleTxn, Txn
    <2>3. \A x \in Txn : /\ [x EXCEPT !.candidate = r, !.expected = e] \in Txn
                         /\ [x EXCEPT !.candidate = r, !.expected = e].candidate = r
                         /\ [x EXCEPT !.candidate = r, !.expected = e].base = x.base
                         /\ [x EXCEPT !.candidate = r, !.expected = e].superseded = x.superseded
                         /\ [x EXCEPT !.candidate = r, !.expected = e].candidateStatus
                              = x.candidateStatus
      BY <2>1 DEF Txn
    <2> QED
      BY <2>2, <2>3 DEF IdleTxn
  <1>2. TypeOK'
    BY <1>1 DEF IInv, TypeOK, HistoryTypeOK, Steps, Replies
  <1>3. pc'[c] = "lockCandidate" /\ txn'[c] = t
    BY DEF IInv, TypeOK
  <1>4. ClientInv(c)'
    <2> HIDE DEF t
    <2> QED
      BY <1>1, <1>3 DEF ClientInv, HoldsLocks, ReadsStayCurrent, WritesPlanned, DecidedSteps,
         CandidateSteps, ProfileSteps, Candidate
  <1>5. \A d \in Clients \ {c} : pc'[d] = pc[d] /\ txn'[d] = txn[d]
    BY DEF IInv, TypeOK
  <1> QED
    BY <1>2, <1>4, <1>5, LocalStep

LEMMA LockCandidateInv ==
  ASSUME IInv, NEW c \in Clients, LockCandidate(c)
  PROVE  IInv'
  <1> USE DEF LockCandidate, Goto
  <1>1. /\ Candidate(c) \in Revisions /\ rows[Candidate(c)] \in Row
        /\ TypeOK /\ ClientInv(c) /\ pc[c] = "lockCandidate"
    BY DEF IInv, ClientInv, HoldsLocks, Exists, TypeOK, HistoryTypeOK
  <1>2. TypeOK'
    <2>1. txn' \in [Clients -> Txn]
      BY <1>1 DEF TypeOK, Txn, Row
    <2> QED
      BY <1>1, <2>1 DEF TypeOK, HistoryTypeOK, Steps, CandidateSteps
  <1>3. /\ pc'[c] = "lockProfile" /\ rowLock'[Candidate(c)] = c
        /\ txn'[c] = [txn[c] EXCEPT !.seen = rows[Candidate(c)].status]
        /\ txn[c] \in Txn
    BY <1>1 DEF TypeOK
  <1>4. ClientInv(c)'
    <2>1. HoldsLocks(c)'
      BY <1>1, <1>3 DEF HoldsLocks, Candidate, Exists, ProfileSteps, Txn
    <2>2. ReadsStayCurrent(c)' /\ WritesPlanned(c)'
      BY <1>1, <1>3 DEF ClientInv, ReadsStayCurrent, WritesPlanned, Candidate, DecidedSteps, Txn
    <2> QED
      BY <2>1, <2>2 DEF ClientInv
  <1>5. \A d \in Clients \ {c} : pc'[d] = pc[d] /\ txn'[d] = txn[d]
    BY <1>1 DEF TypeOK
  <1>6. \A r \in Revisions, d \in Clients \ {c} : rowLock[r] = d => rowLock'[r] = d
    BY <1>1, StoreConstants DEF TypeOK
  <1> QED
    BY <1>2, <1>4, <1>5, <1>6, LocalStep

LEMMA LockProfileInv ==
  ASSUME IInv, NEW c \in Clients, LockProfile(c)
  PROVE  IInv'
  <1> USE DEF LockProfile, Goto
  <1>1. /\ TypeOK /\ ClientInv(c) /\ pc[c] = "lockProfile" /\ ProfileOf(c) \in Profiles
    BY CandidateRow DEF IInv, ClientInv, CandidateSteps
  <1>2. TypeOK'
    BY <1>1 DEF TypeOK, HistoryTypeOK, Steps, CandidateSteps, ProfileSteps
  <1>3. pc'[c] = "snapshotActive" /\ profLock'[ProfileOf(c)] = c
    BY <1>1 DEF TypeOK
  <1>4. ClientInv(c)'
    <2>1. HoldsLocks(c)'
      BY <1>1, <1>3 DEF ClientInv, HoldsLocks, Candidate, ProfileOf, Exists, CandidateSteps,
         ProfileSteps
    <2>2. ReadsStayCurrent(c)' /\ WritesPlanned(c)'
      BY <1>1, <1>3 DEF ClientInv, ReadsStayCurrent, WritesPlanned, Candidate, DecidedSteps,
         CandidateSteps
    <2> QED
      BY <2>1, <2>2 DEF ClientInv
  <1>5. \A d \in Clients \ {c} : pc'[d] = pc[d] /\ txn'[d] = txn[d]
    BY <1>1 DEF TypeOK
  <1>6. \A p \in Profiles, d \in Clients \ {c} : profLock[p] = d => profLock'[p] = d
    BY <1>1, StoreConstants DEF TypeOK
  <1> QED
    BY <1>2, <1>4, <1>5, <1>6, LocalStep

LEMMA SnapshotActiveInv ==
  ASSUME IInv, NEW c \in Clients, SnapshotActive(c)
  PROVE  IInv'
  <1> USE DEF SnapshotActive, Goto
  <1>1. PICK t \in 0..MaxRev :
          /\ ActiveSnapshot(ProfileOf(c), t)
          /\ txn' = [txn EXCEPT ![c].target = t]
          /\ pc' = [pc EXCEPT ![c] = IF t = 0 THEN "decide" ELSE "lockActive"]
    OBVIOUS
  <1>2. TypeOK /\ ClientInv(c) /\ pc[c] = "snapshotActive"
    BY DEF IInv, ClientInv
  <1>3. TypeOK'
    <2>1. txn' \in [Clients -> Txn]
      BY <1>1, <1>2 DEF TypeOK, Txn
    <2> QED
      BY <1>1, <1>2, <2>1 DEF TypeOK, HistoryTypeOK, Steps, CandidateSteps, ProfileSteps
  <1>4. /\ pc'[c] = IF t = 0 THEN "decide" ELSE "lockActive"
        /\ txn'[c] = [txn[c] EXCEPT !.target = t] /\ txn[c] \in Txn
        /\ Candidate(c)' = Candidate(c)
    BY <1>1, <1>2 DEF TypeOK, Candidate, Txn
  <1>5. /\ txn'[c].target = t /\ txn'[c].base = txn[c].base /\ txn'[c].seen = txn[c].seen
        /\ txn'[c].superseded = txn[c].superseded
        /\ txn'[c].candidateStatus = txn[c].candidateStatus
    BY <1>4 DEF Txn
  <1>6. ActiveSnapshot(ProfileOf(c), t)'
    BY <1>1, <1>4 DEF ActiveSnapshot, ActiveRows, ProfileOf
  <1>7. ClientInv(c)'
    <2>1. HoldsLocks(c)'
      BY <1>2, <1>4 DEF ClientInv, HoldsLocks, ProfileOf, Exists, CandidateSteps,
         ProfileSteps
    <2>2. ReadsStayCurrent(c)'
      BY <1>2, <1>4, <1>5, <1>6 DEF ClientInv, ReadsStayCurrent, DecidedSteps, CandidateSteps,
         ProfileSteps
    <2>3. WritesPlanned(c)'
      BY <1>2, <1>4, <1>5 DEF ClientInv, WritesPlanned, DecidedSteps
    <2> QED
      BY <2>1, <2>2, <2>3 DEF ClientInv
  <1>8. \A d \in Clients \ {c} : pc'[d] = pc[d] /\ txn'[d] = txn[d]
    BY <1>1, <1>2 DEF TypeOK
  <1> QED
    BY <1>3, <1>7, <1>8, LocalStep

LEMMA LockActiveInv ==
  ASSUME IInv, NEW c \in Clients, LockActive(c)
  PROVE  IInv'
  <1> USE DEF LockActive, Goto
  <1> DEFINE t == txn[c].target
  <1>1. /\ TypeOK /\ ClientInv(c) /\ pc[c] = "lockActive"
        /\ t # 0 /\ ActiveSnapshot(ProfileOf(c), t)
    BY DEF IInv, ClientInv, ReadsStayCurrent
  <1>2. t \in Revisions /\ rows[t].status = "active"
    BY <1>1 DEF ActiveSnapshot, ActiveRows
  <1>3. txn' = [txn EXCEPT ![c].base = t] /\ t \in 0..MaxRev
    BY <1>1, <1>2 DEF TypeOK, Txn
  <1>4. TypeOK'
    <2>1. txn' \in [Clients -> Txn]
      <3>1. txn \in [Clients -> Txn]
        BY <1>1 DEF TypeOK
      <3>2. [txn[c] EXCEPT !.base = t] \in Txn
        BY <1>3, <3>1 DEF Txn
      <3> QED
        BY <1>3, <3>1, <3>2
    <2>2. pc' \in [Clients -> Steps]
      BY <1>1 DEF TypeOK, Steps, CandidateSteps, ProfileSteps
    <2>3. rowLock' \in [Revisions -> Clients \cup {Nobody}]
      BY <1>1, <1>2 DEF TypeOK
    <2> QED
      BY <1>1, <2>1, <2>2, <2>3 DEF TypeOK, HistoryTypeOK
  <1>5. /\ pc'[c] = "decide" /\ rowLock'[t] = c
        /\ \A r \in Revisions : rowLock[r] = c => rowLock'[r] = c
        /\ txn'[c].base = t /\ txn'[c].seen = txn[c].seen
        /\ txn'[c].superseded = txn[c].superseded
        /\ txn'[c].candidateStatus = txn[c].candidateStatus
        /\ Candidate(c)' = Candidate(c)
    BY <1>1, <1>2, <1>3 DEF TypeOK, Txn, Candidate
  <1>6. ActiveSnapshot(ProfileOf(c), t)'
    BY <1>1, <1>5 DEF ActiveSnapshot, ActiveRows, ProfileOf
  <1>7. ClientInv(c)'
    <2>1. HoldsLocks(c)'
      BY <1>1, <1>5 DEF ClientInv, HoldsLocks, ProfileOf, Exists, CandidateSteps,
         ProfileSteps
    <2>2. ReadsStayCurrent(c)'
      BY <1>1, <1>5, <1>6 DEF ClientInv, ReadsStayCurrent, DecidedSteps, CandidateSteps,
         ProfileSteps
    <2>3. WritesPlanned(c)'
      BY <1>1, <1>5 DEF ClientInv, WritesPlanned, DecidedSteps
    <2> QED
      BY <2>1, <2>2, <2>3 DEF ClientInv
  <1>8. \A d \in Clients \ {c} : pc'[d] = pc[d] /\ txn'[d] = txn[d]
    BY <1>1 DEF TypeOK
  <1>9. \A r \in Revisions, d \in Clients \ {c} : rowLock[r] = d => rowLock'[r] = d
    BY <1>1, <1>2, StoreConstants DEF TypeOK
  <1> QED
    BY <1>4, <1>7, <1>8, <1>9, LocalStep

(* The steps between `decide' and COMMIT that only move on.                *)
LEMMA DecideInv ==
  ASSUME IInv, NEW c \in Clients,
         KeepActive(c) \/ Validate(c) \/ RejectCandidate(c) \/ SupersedeActive(c)
           \/ (ActivateCandidate(c) /\ Activatable(c) /\ IndexFree(c))
  PROVE  IInv'
  <1> DEFINE t == txn[c]
  <1>1. /\ TypeOK /\ ClientInv(c) /\ t \in Txn
        /\ pc[c] \in {"decide", "reject", "supersede", "activate"}
        /\ rows' = rows /\ nextRev' = nextRev /\ rowLock' = rowLock /\ profLock' = profLock
        /\ reply' = reply
    BY DEF IInv, ClientInv, TypeOK, KeepActive, Validate, RejectCandidate, SupersedeActive,
       ActivateCandidate
  <1>2. PICK step \in {"commit", "reject", "supersede", "activate"} :
          pc' = [pc EXCEPT ![c] = step]
    BY DEF Goto, KeepActive, Validate, RejectCandidate, SupersedeActive, ActivateCandidate
  <1>3. PICK u \in Txn : txn' = [txn EXCEPT ![c] = u] /\ txn'[c] = u
    <2>1. /\ [t EXCEPT !.candidateStatus = "rejected"] \in Txn
          /\ [t EXCEPT !.candidateStatus = "active"] \in Txn
          /\ \A s \in 0..MaxRev : [t EXCEPT !.superseded = s] \in Txn
      BY <1>1 DEF Txn
    <2>2. t.base \in 0..MaxRev /\ 0 \in 0..MaxRev
      BY <1>1, HistoryConstants DEF Txn
    <2>3. txn = [txn EXCEPT ![c] = t]
      BY <1>1 DEF TypeOK
    <2> QED
      BY <1>1, <2>1, <2>2, <2>3 DEF TypeOK, KeepActive, Validate, RejectCandidate,
         SupersedeActive, ActivateCandidate
  <1>4. TypeOK'
    BY <1>1, <1>2, <1>3 DEF TypeOK, HistoryTypeOK, Steps, CandidateSteps, ProfileSteps
  <1>5. \A d \in Clients \ {c} : pc'[d] = pc[d] /\ txn'[d] = txn[d]
    BY <1>1, <1>2, <1>3 DEF TypeOK
  <1>6. pc'[c] = step
    BY <1>1, <1>2 DEF TypeOK
  <1>7. /\ u.candidate = t.candidate /\ u.expected = t.expected /\ u.seen = t.seen
        /\ u.base = t.base
    BY <1>1, <1>3 DEF TypeOK, Txn, KeepActive, Validate, RejectCandidate, SupersedeActive,
       ActivateCandidate
  <1>8. HoldsLocks(c)'
    BY <1>1, <1>3, <1>6, <1>7 DEF ClientInv, HoldsLocks, ProfileOf, Candidate, Exists,
       CandidateSteps, ProfileSteps
  <1>9. ReadsStayCurrent(c)'
    <2>1. ProfileOf(c)' = ProfileOf(c) /\ t.base \in 0..MaxRev
      BY <1>1, <1>3, <1>7 DEF ProfileOf, Candidate, Txn
    <2>2. ActiveSnapshot(ProfileOf(c), t.base) /\ (t.base # 0 => rowLock[t.base] = c)
      BY <1>1 DEF ClientInv, ReadsStayCurrent, DecidedSteps
    <2>3. rows[Candidate(c)].status = t.seen
      BY <1>1 DEF ClientInv, ReadsStayCurrent, CandidateSteps, ProfileSteps
    <2> QED
      BY <1>1, <1>3, <1>6, <1>7, <2>1, <2>2, <2>3 DEF ReadsStayCurrent, ActiveSnapshot,
         ActiveRows, ProfileOf, Candidate, DecidedSteps
  <1>10. WritesPlanned(c)'
    <2>1. /\ t.candidateStatus = "none"
          /\ pc[c] # "activate" => t.superseded = 0
          /\ pc[c] # "decide" => BaseAsExpected(c)
      BY <1>1 DEF ClientInv, WritesPlanned, DecidedSteps
    <2>2. CASE KeepActive(c)
      BY <1>1, <1>3, <1>6, <2>1, <2>2 DEF KeepActive, Goto, WritesPlanned, BaseAsExpected,
         AlreadyActive, Candidate, TypeOK, DecidedSteps
    <2>3. CASE Validate(c)
      <3>1. txn' = txn /\ u = t
        BY <1>3, <2>3 DEF Validate
      <3>2. ~(Candidate(c) = t.base)
        <4>1. rows[Candidate(c)].status \in {"draft", "superseded"}
          BY <1>1, <2>3 DEF Validate, ClientInv, ReadsStayCurrent, CandidateSteps, ProfileSteps
        <4>2. Candidate(c) \in Revisions /\ t.base \in 0..MaxRev
          BY <1>1 DEF ClientInv, HoldsLocks, CandidateSteps, ProfileSteps, Txn
        <4>3. ActiveSnapshot(ProfileOf(c), t.base)
          BY <1>1 DEF ClientInv, ReadsStayCurrent, DecidedSteps
        <4> QED
          BY <4>1, <4>2, <4>3 DEF ActiveSnapshot, ActiveRows, Revisions
      <3>3. step = IF rows[Candidate(c)].payload \notin Accepted THEN "reject"
                   ELSE IF t.base = 0 THEN "activate" ELSE "supersede"
        BY <1>1, <1>6, <2>3, <3>2 DEF Validate, Goto, TypeOK
      <3>4. t.seen \in {"draft", "superseded"} /\ BaseAsExpected(c) /\ t.superseded = 0
        BY <2>1, <2>3 DEF Validate
      <3> QED
        BY <1>1, <1>3, <1>6, <2>1, <3>1, <3>3, <3>4 DEF WritesPlanned, BaseAsExpected, Candidate,
           DecidedSteps
    <2>4. CASE RejectCandidate(c)
      <3>1. /\ t.seen \in {"draft", "superseded"} /\ rows[Candidate(c)].payload \notin Accepted
            /\ pc[c] = "reject" /\ step = "commit" /\ t.superseded = 0
        BY <1>1, <1>6, <2>1, <2>4 DEF RejectCandidate, Goto, ClientInv, WritesPlanned, TypeOK
      <3>2. /\ u.superseded = 0
            /\ u.candidateStatus = IF t.seen = "draft" THEN "rejected" ELSE "none"
        BY <1>1, <1>3, <2>1, <2>4, <3>1 DEF RejectCandidate, TypeOK, Txn
      <3> QED
        BY <1>1, <1>3, <1>6, <1>7, <2>1, <3>1, <3>2 DEF WritesPlanned, BaseAsExpected, Candidate,
           DecidedSteps
    <2>5. CASE SupersedeActive(c)
      <3>1. /\ t.seen \in {"draft", "superseded"} /\ rows[Candidate(c)].payload \in Accepted
            /\ pc[c] = "supersede" /\ step = "activate" /\ t.base # 0
        BY <1>1, <1>6, <2>5 DEF SupersedeActive, Goto, ClientInv, WritesPlanned, TypeOK
      <3>2. rows[t.base].status = "active"
        BY <1>1, <3>1 DEF ClientInv, ReadsStayCurrent, DecidedSteps, ActiveSnapshot, ActiveRows
      <3>3. u.superseded = t.base /\ u.candidateStatus = "none"
        BY <1>1, <1>3, <2>1, <2>5, <3>2 DEF SupersedeActive, TypeOK, Txn
      <3> QED
        BY <1>1, <1>3, <1>6, <1>7, <2>1, <3>1, <3>3 DEF WritesPlanned, BaseAsExpected, Candidate,
           DecidedSteps
    <2>6. CASE ActivateCandidate(c) /\ Activatable(c) /\ IndexFree(c)
      <3>1. /\ t.seen \in {"draft", "superseded"} /\ rows[Candidate(c)].payload \in Accepted
            /\ pc[c] = "activate" /\ step = "commit" /\ t.superseded = t.base
        BY <1>1, <1>6, <2>6 DEF ActivateCandidate, Goto, ClientInv, WritesPlanned, TypeOK
      <3>2. u.superseded = t.base /\ u.candidateStatus = "active"
        BY <1>1, <1>3, <2>6, <3>1 DEF ActivateCandidate, TypeOK, Txn
      <3> QED
        BY <1>1, <1>3, <1>6, <1>7, <2>1, <3>1, <3>2 DEF WritesPlanned, BaseAsExpected, Candidate,
           DecidedSteps
    <2> QED
      BY <2>2, <2>3, <2>4, <2>5, <2>6
  <1>11. ClientInv(c)'
    BY <1>8, <1>9, <1>10 DEF ClientInv
  <1> QED
    BY <1>1, <1>4, <1>5, <1>11, LocalStep

-----------------------------------------------------------------------------
(* The theorems                                                            *)

LEMMA NextInv == IInv /\ [Next]_vars => IInv'
  <1> SUFFICES ASSUME IInv, [Next]_vars PROVE IInv'
    OBVIOUS
  <1>1. ASSUME NEW c \in Clients, NEW p \in Profiles, NEW d \in Payloads, CreateRevision(c, p, d)
        PROVE  IInv'
    BY <1>1, CreateInv
  <1>2. ASSUME NEW c \in Clients, NEW p \in Profiles, BeginRead(c, p) PROVE IInv'
    BY <1>2, BeginReadInv
  <1>3. ASSUME NEW c \in Clients, ReadActive(c) PROVE IInv'
    BY <1>3, ReadActiveInv
  <1>4. ASSUME NEW c \in Clients, NEW r \in Revisions, NEW e \in Expectations,
               BeginActivate(c, r, e)
        PROVE  IInv'
    BY <1>4, BeginActivateInv
  <1>5. ASSUME NEW c \in Clients, LockCandidate(c) PROVE IInv'
    BY <1>5, LockCandidateInv
  <1>6. ASSUME NEW c \in Clients, LockProfile(c) PROVE IInv'
    BY <1>6, LockProfileInv
  <1>7. ASSUME NEW c \in Clients, SnapshotActive(c) PROVE IInv'
    BY <1>7, SnapshotActiveInv
  <1>8. ASSUME NEW c \in Clients, LockActive(c) PROVE IInv'
    BY <1>8, LockActiveInv
  <1>9. ASSUME NEW c \in Clients,
               KeepActive(c) \/ Validate(c) \/ RejectCandidate(c) \/ SupersedeActive(c)
        PROVE  IInv'
    BY <1>9, DecideInv
  <1>10. ASSUME NEW c \in Clients, ActivateCandidate(c) PROVE IInv'
    <2>1. CASE Activatable(c) /\ IndexFree(c)
      BY <1>10, <2>1, DecideInv
    <2>2. CASE ~(Activatable(c) /\ IndexFree(c))
      BY <1>10, <2>2, RollbackInv DEF ActivateCandidate, Replies
    <2> QED
      BY <2>1, <2>2
  <1>11. ASSUME NEW c \in Clients, Commit(c) PROVE IInv'
    BY <1>11, CommitInv
  <1>12. ASSUME NEW c \in Clients, 
                \/ CandidateMissing(c) \/ RaiseConflict(c) \/ RaiseStateError(c)
                \/ Disconnect(c) \/ DeadlockVictim(c)
         PROVE  IInv'
    <2>1. PICK a \in Replies : Rollback(c, a)
      BY <1>12 DEF CandidateMissing, RaiseConflict, RaiseStateError, Disconnect, DeadlockVictim,
         Replies
    <2> QED
      BY <2>1, RollbackInv
  <1>13. CASE UNCHANGED vars
    <2>1. /\ rows' = rows /\ nextRev' = nextRev /\ rowLock' = rowLock /\ profLock' = profLock
          /\ pc' = pc /\ txn' = txn /\ reply' = reply
      BY <1>13 DEF vars
    <2>2. TypeOK'
      BY <2>1 DEF IInv, TypeOK, HistoryTypeOK
    <2>3. \A d \in Clients : ClientInv(d)'
      BY <2>1, Frame DEF IInv, ClientInv
    <2> QED
      BY <2>1, <2>2, <2>3, GlobalFrame DEF IInv, ClientInv
  <1> QED
    BY <1>1, <1>2, <1>3, <1>4, <1>5, <1>6, <1>7, <1>8, <1>9, <1>10, <1>11, <1>12, <1>13 DEF Next

(* IInv holds in every reachable state, whatever the number of connections *)
(* and of revisions.                                                       *)
THEOREM StoreInvariant == Spec => []IInv
  BY InvInit, NextInv, PTL DEF Spec

(* Variables of registry_store.py's model keep their types.                *)
THEOREM StoreTypeOK == Spec => []TypeOK
  <1>1. IInv => TypeOK
    BY DEF IInv
  <1> QED
    BY <1>1, StoreInvariant, PTL

(* activate_revision never leaves two active revisions in a profile, and   *)
(* nothing unvalidated is ever active.                                     *)
THEOREM StoreSafety == Spec => [](OneActivePerProfile /\ ActivatedMeansValidated)
  <1>1. IInv => OneActivePerProfile /\ ActivatedMeansValidated
    BY DEF IInv
  <1> QED
    BY <1>1, StoreInvariant, PTL

(* From the concurrency check of activate_revision to its COMMIT nothing   *)
(* it has read becomes stale, although PostgreSQL runs it READ COMMITTED.  *)
THEOREM StoreDecisions == Spec => []DecisionsStayCurrent
  <1>1. IInv => DecisionsStayCurrent
    <2>1. DecidedSteps \subseteq CandidateSteps
      BY DEF DecidedSteps, CandidateSteps, ProfileSteps
    <2> QED
      BY <2>1 DEF IInv, ReadsStayCurrent, DecisionsStayCurrent
  <1> QED
    BY <1>1, StoreInvariant, PTL

(* The two internal errors of the last UPDATE of activate_revision cannot  *)
(* happen.                                                                 *)
THEOREM StoreNeverTrips == Spec => []ActivationNeverTrips
  <1>1. IInv => ActivationNeverTrips
    <2> SUFFICES ASSUME IInv, NEW c \in Clients, pc[c] = "activate"
                 PROVE  Activatable(c) /\ IndexFree(c)
      BY DEF ActivationNeverTrips
    <2>1. txn[c].seen \in {"draft", "superseded"} /\ txn[c].superseded = txn[c].base
      BY DEF IInv, WritesPlanned
    <2>2. /\ rows[Candidate(c)].status = txn[c].seen
          /\ ActiveRows(ProfileOf(c)) \subseteq {txn[c].base}
      BY DecidedContext DEF DecidedSteps
    <2> QED
      BY <2>1, <2>2 DEF Activatable, IndexFree
  <1> QED
    BY <1>1, StoreInvariant, PTL

-----------------------------------------------------------------------------
(* Refinement and action properties                                        *)

LEMMA RowsChange ==
  ASSUME IInv, [Next]_vars
  PROVE  \/ rows' = rows
         \/ \E c \in Clients, p \in Profiles, d \in Payloads :
              CreateRevision(c, p, d) /\ Create(nextRev, p, d)
         \/ \E c \in Clients : Commit(c)
  <1>1. ASSUME NEW c \in Clients, NEW p \in Profiles, NEW d \in Payloads, CreateRevision(c, p, d)
        PROVE  rows' = rows \/ Create(nextRev, p, d)
    BY <1>1 DEF CreateRevision, Create, IInv, NumbersFresh
  <1>2. ASSUME NEW c \in Clients,
               \/ \E p \in Profiles : BeginRead(c, p)
               \/ ReadActive(c)
               \/ \E r \in Revisions, e \in Expectations : BeginActivate(c, r, e)
               \/ LockCandidate(c) \/ CandidateMissing(c)
               \/ LockProfile(c)
               \/ SnapshotActive(c) \/ LockActive(c)
               \/ RaiseConflict(c) \/ RaiseStateError(c)
               \/ KeepActive(c) \/ Validate(c)
               \/ RejectCandidate(c) \/ SupersedeActive(c) \/ ActivateCandidate(c)
               \/ Disconnect(c) \/ DeadlockVictim(c)
        PROVE  rows' = rows
    BY <1>2 DEF BeginRead, ReadActive, BeginActivate, LockCandidate, CandidateMissing, LockProfile,
       SnapshotActive, LockActive, RaiseConflict, RaiseStateError, KeepActive, Validate,
       RejectCandidate, SupersedeActive, ActivateCandidate, Disconnect, DeadlockVictim, Rollback
  <1> QED
    BY <1>1, <1>2 DEF Next, vars

(* registry_store.py's interleaved statements implement the revision       *)
(* history: every transaction is one step of it.                           *)
THEOREM StoreImplementsHistory == Spec => HistorySpec
  <1>1. Init => HistoryInit
    BY DEF Init
  <1>2. IInv /\ [Next]_vars => [HistoryNext]_rows
    <2> SUFFICES ASSUME IInv, [Next]_vars PROVE [HistoryNext]_rows
      OBVIOUS
    <2>1. ASSUME NEW c \in Clients, NEW p \in Profiles, NEW d \in Payloads,
                 CreateRevision(c, p, d), Create(nextRev, p, d)
          PROVE  HistoryNext
      BY <2>1 DEF CreateRevision, HistoryNext
    <2>2. ASSUME NEW c \in Clients, Commit(c)
          PROVE  [HistoryNext]_rows
      <3>1. Candidate(c) \in Revisions
        BY <2>2, DecidedContext DEF Commit, DecidedSteps
      <3> QED
        BY <2>2, <3>1, CommitCases DEF HistoryNext
    <2> QED
      BY <2>1, <2>2, RowsChange
  <1> QED
    BY <1>1, <1>2, StoreInvariant, PTL DEF Spec, HistorySpec

(* A household once configured stays configured, and history is            *)
(* append-only, under every interleaving of transactions.                  *)
THEOREM StoreKeepsHistory == Spec => ActiveNeverVanishes /\ HistoryAppendOnly
  BY StoreImplementsHistory, HistoryKeepsItsPromises

ReplacesOnlyExpected ==
  \A c \in Clients, p \in Profiles :
    /\ pc[c] = "commit" /\ pc'[c] = "idle"
    /\ ActiveRows(p)' # ActiveRows(p)
    => \/ txn[c].expected = Unchecked
       \/ ActiveSnapshot(p, txn[c].expected)

(* Optimistic concurrency control: a COMMIT that replaces the active       *)
(* revision replaces the one its caller named.                             *)
THEOREM StoreOptimistic == Spec => ReplacesExpectedBase
  <1>1. IInv /\ [Next]_vars => [ReplacesOnlyExpected]_vars
    <2> SUFFICES ASSUME IInv, [Next]_vars, NEW c \in Clients, NEW p \in Profiles,
                        pc[c] = "commit", pc'[c] = "idle", ActiveRows(p)' # ActiveRows(p)
                 PROVE  \/ txn[c].expected = Unchecked
                        \/ ActiveSnapshot(p, txn[c].expected)
      BY DEF ReplacesOnlyExpected
    <2>1. rows' # rows
      BY DEF ActiveRows
    <2>2. PICK e \in Clients : Commit(e)
      <3>1. ASSUME NEW q \in Profiles, NEW d \in Payloads, Create(nextRev, q, d),
                   NEW e \in Clients, CreateRevision(e, q, d)
            PROVE  FALSE
        BY <3>1, CreateStep DEF IInv, TypeOK, HistoryInv, CreateRevision
      <3> QED
        BY <2>1, <3>1, RowsChange
    <2>3. e = c
      BY <2>2 DEF Commit, Answer, Goto, IInv, TypeOK
    <2>4. p = ProfileOf(c)
      BY <2>2, <2>3, CommitEffect
    <2>5. BaseAsExpected(c)
      BY DEF IInv, WritesPlanned, DecidedSteps
    <2>6. ActiveSnapshot(ProfileOf(c), txn[c].base)
      BY DEF IInv, ReadsStayCurrent, DecidedSteps
    <2> QED
      BY <2>4, <2>5, <2>6 DEF BaseAsExpected
  <1>2. Spec => [][ReplacesOnlyExpected]_vars
    BY <1>1, StoreInvariant, PTL DEF Spec
  <1> QED
    BY <1>2 DEF ReplacesOnlyExpected, ReplacesExpectedBase

OtherProfilesKept ==
  \A c \in Clients, p \in Profiles :
    pc[c] = "commit" /\ pc'[c] = "idle" /\ p # ProfileOf(c) => ActiveRows(p)' = ActiveRows(p)

(* A household's activation leaves the other households alone.             *)
THEOREM StoreProfilesIndependent == Spec => ProfilesIndependent
  <1>1. IInv /\ [Next]_vars => [OtherProfilesKept]_vars
    <2> SUFFICES ASSUME IInv, [Next]_vars, NEW c \in Clients, NEW p \in Profiles,
                        pc[c] = "commit", pc'[c] = "idle", p # ProfileOf(c)
                 PROVE  ActiveRows(p)' = ActiveRows(p)
      BY DEF OtherProfilesKept
    <2>1. CASE rows' = rows
      BY <2>1 DEF ActiveRows
    <2>2. ASSUME NEW q \in Profiles, NEW d \in Payloads, Create(nextRev, q, d),
                 NEW e \in Clients, CreateRevision(e, q, d)
          PROVE  ActiveRows(p)' = ActiveRows(p)
      BY <2>2, CreateStep DEF IInv, TypeOK, HistoryInv, CreateRevision
    <2>3. ASSUME NEW e \in Clients, Commit(e)
          PROVE  ActiveRows(p)' = ActiveRows(p)
      <3>1. e = c
        BY <2>3 DEF Commit, Answer, Goto, IInv, TypeOK
      <3> QED
        BY <2>3, <3>1, CommitEffect
    <2> QED
      BY <2>1, <2>2, <2>3, RowsChange
  <1>2. Spec => [][OtherProfilesKept]_vars
    BY <1>1, StoreInvariant, PTL DEF Spec
  <1> QED
    BY <1>2 DEF OtherProfilesKept, ProfilesIndependent

(* The step that answers a call belongs to the client that made the call:  *)
(* it commits, or it writes nothing and does not say `activated'.          *)
LEMMA AnswerStep ==
  ASSUME IInv, Next, NEW c \in Clients, pc[c] # "idle", pc'[c] = "idle"
  PROVE  \/ Commit(c)
         \/ rows' = rows /\ reply'[c] # "activated"
  <1>1. /\ pc \in [Clients -> Steps] /\ reply \in [Clients -> Replies]
        /\ txn \in [Clients -> Txn]
    BY DEF IInv, TypeOK
  <1>2. PICK e \in Clients :
          \/ \E p \in Profiles, d \in Payloads : CreateRevision(e, p, d)
          \/ \E p \in Profiles : BeginRead(e, p)
          \/ ReadActive(e)
          \/ \E r \in Revisions, x \in Expectations : BeginActivate(e, r, x)
          \/ LockCandidate(e) \/ CandidateMissing(e)
          \/ LockProfile(e)
          \/ SnapshotActive(e) \/ LockActive(e)
          \/ RaiseConflict(e) \/ RaiseStateError(e)
          \/ KeepActive(e) \/ Validate(e)
          \/ RejectCandidate(e) \/ SupersedeActive(e) \/ ActivateCandidate(e)
          \/ Commit(e)
          \/ Disconnect(e) \/ DeadlockVictim(e)
    BY DEF Next
  <1>3. CASE \E a \in Replies \ {"activated"} : Rollback(e, a)
    BY <1>1, <1>3 DEF Rollback, Answer, Goto
  <1>4. CASE \/ CandidateMissing(e) \/ RaiseConflict(e) \/ RaiseStateError(e)
             \/ Disconnect(e) \/ DeadlockVictim(e)
    <2>1. \E a \in Replies \ {"activated"} : Rollback(e, a)
      BY <1>4 DEF CandidateMissing, RaiseConflict, RaiseStateError, Disconnect, DeadlockVictim,
         Replies
    <2> QED
      BY <1>3, <2>1
  <1>5. CASE ActivateCandidate(e)
    <2>1. CASE Activatable(e) /\ IndexFree(e)
      BY <1>1, <1>5, <2>1 DEF ActivateCandidate, Goto
    <2>2. CASE ~(Activatable(e) /\ IndexFree(e))
      <3>1. \E a \in Replies \ {"activated"} : Rollback(e, a)
        BY <1>5, <2>2 DEF ActivateCandidate, Replies
      <3> QED
        BY <1>3, <3>1
    <2> QED
      BY <2>1, <2>2
  <1>6. CASE ReadActive(e)
    BY <1>1, <1>6 DEF ReadActive, Answer, Goto
  <1>7. CASE \E p \in Profiles : BeginRead(e, p)
    <2>1. e # c
      BY <1>7 DEF BeginRead
    <2>2. pc'[c] = pc[c]
      BY <1>1, <1>7, <2>1 DEF BeginRead, Answer, Goto
    <2> QED
      BY <2>2
  <1>8. CASE \/ \E p \in Profiles, d \in Payloads : CreateRevision(e, p, d)
             \/ \E r \in Revisions, x \in Expectations : BeginActivate(e, r, x)
    BY <1>1, <1>8 DEF CreateRevision, BeginActivate, Goto
  <1>9. CASE \/ LockCandidate(e) \/ LockProfile(e) \/ SnapshotActive(e) \/ LockActive(e)
             \/ KeepActive(e) \/ Validate(e) \/ RejectCandidate(e) \/ SupersedeActive(e)
    BY <1>1, <1>9 DEF LockCandidate, LockProfile, SnapshotActive, LockActive, KeepActive,
       Validate, RejectCandidate, SupersedeActive, Goto
  <1>10. CASE Commit(e)
    BY <1>1, <1>10 DEF Commit, Answer, Goto
  <1> QED
    BY <1>2, <1>4, <1>5, <1>6, <1>7, <1>8, <1>9, <1>10

Truthful ==
  \A c \in Clients : pc[c] # "idle" /\ pc'[c] = "idle" =>
    /\ reply'[c] = "activated" =>
         \A p \in Profiles : p = ProfileOf(c) => ActiveRows(p)' = {Candidate(c)}
    /\ reply'[c] \in {"conflict", "not_found", "state_error", "validation_failed"}
         => \A p \in Profiles : ActiveRows(p)' = ActiveRows(p)

(* An answer tells its caller the truth about the revisions: `activated'   *)
(* means that the candidate is the active revision of its profile and the  *)
(* only one, and a refusal that no active revision has changed.            *)
THEOREM StoreAnswersTruthfully == Spec => AnswersAreTruthful
  <1>1. IInv /\ [Next]_vars => [Truthful]_vars
    <2> SUFFICES ASSUME IInv, Next, NEW c \in Clients, pc[c] # "idle", pc'[c] = "idle"
                 PROVE  /\ reply'[c] = "activated" =>
                             \A p \in Profiles :
                               p = ProfileOf(c) => ActiveRows(p)' = {Candidate(c)}
                        /\ reply'[c] \in {"conflict", "not_found", "state_error",
                                          "validation_failed"}
                             => \A p \in Profiles : ActiveRows(p)' = ActiveRows(p)
      BY DEF Truthful
    <2>1. CASE rows' = rows /\ reply'[c] # "activated"
      BY <2>1 DEF ActiveRows
    <2>2. CASE Commit(c)
      <3>1. /\ Candidate(c) \in Revisions /\ rows[Candidate(c)] \in Row
            /\ ProfileOf(c) \in Profiles
            /\ rows[Candidate(c)].status = txn[c].seen
            /\ txn[c].base # 0 => ActiveRows(ProfileOf(c)) = {txn[c].base}
        BY <2>2, DecidedContext DEF Commit, DecidedSteps
      <3>2. reply'[c] \in {CommitReply(c), "unavailable"}
        BY <2>2 DEF Commit, Answer, IInv, TypeOK
      <3>3. HistoryInv /\ 0 \notin Revisions
        BY DEF IInv, TypeOK, HistoryInv, Revisions
      <3>4. CASE /\ rows' = rows /\ (AlreadyActive(c) \/ txn[c].seen = "superseded")
                 /\ txn[c].candidateStatus = "none"
        <4>1. reply'[c] = "activated" => AlreadyActive(c)
          BY <3>2, <3>4 DEF CommitReply
        <4>2. AlreadyActive(c) => ActiveRows(ProfileOf(c)) = {Candidate(c)}
          BY <3>1, <3>3 DEF AlreadyActive
        <4> QED
          BY <3>4, <4>1, <4>2 DEF ActiveRows
      <3>5. CASE Reject(Candidate(c)) /\ txn[c].candidateStatus = "rejected"
                 /\ txn[c].seen = "draft"
        <4>1. reply'[c] # "activated"
          BY <3>2, <3>5 DEF CommitReply
        <4>2. \A p \in Profiles : ActiveRows(p)' = ActiveRows(p)
          BY <3>1, <3>3, <3>5, RejectHistory
        <4> QED
          BY <4>1, <4>2
      <3>6. CASE Activate(Candidate(c)) /\ txn[c].candidateStatus = "active"
        <4>1. reply'[c] \in {"activated", "unavailable"}
          BY <3>2, <3>6 DEF CommitReply
        <4>2. \A p \in Profiles : p = ProfileOf(c) => ActiveRows(p)' = {Candidate(c)}
          BY <3>1, <3>3, <3>6, ActivateHistory DEF ProfileOf
        <4> QED
          BY <4>1, <4>2
      <3> QED
        BY <2>2, <3>4, <3>5, <3>6, CommitCases
    <2> QED
      BY <2>1, <2>2, AnswerStep
  <1>2. Spec => [][Truthful]_vars
    BY <1>1, StoreInvariant, PTL DEF Spec
  <1> QED
    BY <1>2 DEF Truthful, AnswersAreTruthful

=============================================================================
