--------------------------- MODULE RegistryStore ---------------------------
(***************************************************************************)
(* PostgresRegistryRepository (registry_store.py) statement by statement.  *)
(*                                                                         *)
(* A client is one connection taken from some process' pool: the pools of  *)
(* several Home Assistant instances share the database.  Every SQL         *)
(* statement of activate_revision is an action, so that the statements of  *)
(* several transactions interleave in every order the locks allow.         *)
(* PostgreSQL is modelled as READ COMMITTED describes it: a statement sees *)
(* a snapshot of the committed rows, FOR UPDATE waits for the row lock and *)
(* re-checks the WHERE clause on the row's latest version, writes become   *)
(* visible at COMMIT, which also releases the locks.                       *)
(*                                                                         *)
(* Names of the code are kept: candidate, active (its revision is `base'), *)
(* expected (expected_base_revision).                                      *)
(***************************************************************************)
EXTENDS RegistryHistory

CONSTANTS
  Clients,    (* database connections                                      *)
  Expectations, (* bound: the expected_base_revision values callers send   *)
  Nobody,     (* owner of a free lock                                      *)
  Unchecked   (* expected_base_revision is None                            *)

ASSUME StoreConstants ==
  /\ Nobody \notin Clients
  /\ Unchecked \notin 0..MaxRev
  /\ Expectations \subseteq 0..MaxRev \cup {Unchecked}

(* `rows', from RegistryHistory, is the committed content of the table.    *)
VARIABLES
  nextRev,    (* next value of the identity sequence                       *)
  rowLock,    (* row locks: FOR UPDATE and UPDATE                          *)
  profLock,   (* pg_advisory_xact_lock(hashtext(profile))                  *)
  pc,         (* the statement each client is about to execute             *)
  txn,        (* local variables of each client's repository call          *)
  reply       (* how each client's last repository call ended              *)

vars == <<rows, nextRev, rowLock, profLock, pc, txn, reply>>

(* Statements at which a client holds the candidate row lock, and those at *)
(* which it holds the profile's advisory lock as well.                     *)
ProfileSteps == {"snapshotActive", "lockActive", "decide", "supersede",
                 "activate", "reject", "commit"}
CandidateSteps == ProfileSteps \cup {"lockProfile"}
Steps == CandidateSteps \cup {"idle", "lockCandidate", "readActive"}

Replies == {"none", "created", "activated", "conflict", "not_found",
            "state_error", "validation_failed", "unavailable",
            "active_revision", "no_active_revision"}

(* target: the row the statement _SELECT_ACTIVE found in its snapshot;     *)
(* base: the revision of the row it returned (0 for no row).               *)
(* seen: candidate.status as read under the row lock.                      *)
(* writes: the transaction's uncommitted UPDATEs, revision -> status.      *)
Txn == [candidate : 0..MaxRev, expected : 0..MaxRev \cup {Unchecked},
        seen : Statuses \cup {"none"}, target : 0..MaxRev, base : 0..MaxRev,
        superseded : 0..MaxRev, candidateStatus : {"none", "active", "rejected"}]

IdleTxn == [candidate |-> 0, expected |-> Unchecked, seen |-> "none",
            target |-> 0, base |-> 0, superseded |-> 0,
            candidateStatus |-> "none"]

TypeOK ==
  /\ HistoryTypeOK
  /\ nextRev \in 1..(MaxRev + 1)
  /\ rowLock \in [Revisions -> Clients \cup {Nobody}]
  /\ profLock \in [Profiles -> Clients \cup {Nobody}]
  /\ pc \in [Clients -> Steps]
  /\ txn \in [Clients -> Txn]
  /\ reply \in [Clients -> Replies]

-----------------------------------------------------------------------------
(* Helpers *)

Candidate(c) == txn[c].candidate

ProfileOf(c) == rows[Candidate(c)].profile

Goto(c, step) == pc' = [pc EXCEPT ![c] = step]

(* The snapshot of _SELECT_ACTIVE: ORDER BY revision DESC LIMIT 1.         *)
ActiveSnapshot(p, t) ==
  \/ t \in ActiveRows(p) /\ \A r \in ActiveRows(p) : r <= t
  \/ t = 0 /\ ActiveRows(p) = {}

(* End of the transaction, by COMMIT or ROLLBACK: all its locks go.        *)
ReleaseLocks(c) ==
  /\ rowLock' = [r \in Revisions |-> IF rowLock[r] = c THEN Nobody ELSE rowLock[r]]
  /\ profLock' = [p \in Profiles |-> IF profLock[p] = c THEN Nobody ELSE profLock[p]]

Answer(c, result) ==
  /\ Goto(c, "idle")
  /\ txn' = [txn EXCEPT ![c] = IdleTxn]
  /\ reply' = [reply EXCEPT ![c] = result]

(* An exception inside `async with _transaction': ROLLBACK.                *)
Rollback(c, result) ==
  /\ Answer(c, result)
  /\ ReleaseLocks(c)
  /\ UNCHANGED <<rows, nextRev>>

-----------------------------------------------------------------------------
(* Faulty variants of single definitions below: each is the code with one  *)
(* plausible mistake, which some property of this module must notice.      *)

(* the identity value is reused after an aborted insert *)
CreateRevisionReusingNumbers(c, p, d) ==
  /\ pc[c] = "idle"
  /\ nextRev \in Revisions
  /\ rows' = [rows EXCEPT ![nextRev] = DraftRow(p, d)]
  /\ nextRev' \in {nextRev, nextRev + 1}
  /\ reply' = [reply EXCEPT ![c] = "created"]
  /\ UNCHANGED <<rowLock, profLock, pc, txn>>

(* the candidate is read with _SELECT_BY_ID, without FOR UPDATE *)
ReadCandidateUnlocked(c) ==
  /\ pc[c] = "lockCandidate"
  /\ Exists(Candidate(c))
  /\ txn' = [txn EXCEPT ![c].seen = rows[Candidate(c)].status]
  /\ Goto(c, "lockProfile")
  /\ UNCHANGED <<rows, nextRev, rowLock, profLock, reply>>

(* no pg_advisory_xact_lock *)
LockProfileSkipped(c) ==
  /\ pc[c] = "lockProfile"
  /\ Goto(c, "snapshotActive")
  /\ UNCHANGED <<rows, nextRev, rowLock, profLock, txn, reply>>

(* _SELECT_ACTIVE without its profile filter *)
SnapshotAnyProfile(c) ==
  /\ pc[c] = "snapshotActive"
  /\ \E t \in 0..MaxRev :
       /\ \E p \in Profiles : ActiveSnapshot(p, t)
       /\ txn' = [txn EXCEPT ![c].target = t]
       /\ Goto(c, IF t = 0 THEN "decide" ELSE "lockActive")
  /\ UNCHANGED <<rows, nextRev, rowLock, profLock, reply>>

(* a base older than the active revision is accepted *)
BaseNotNewer(c) ==
  IF txn[c].expected = Unchecked THEN TRUE ELSE txn[c].expected <= txn[c].base

(* a conflict rejects the draft *)
RaiseConflictRejecting(c) ==
  /\ pc[c] = "decide"
  /\ txn[c].expected \notin {Unchecked, txn[c].base}
  /\ rows' = [rows EXCEPT ![Candidate(c)].status =
                IF @ = "draft" THEN "rejected" ELSE @]
  /\ Answer(c, "conflict") /\ ReleaseLocks(c)
  /\ UNCHANGED nextRev

(* the payload is not validated again *)
ValidateNothing(c) ==
  /\ pc[c] = "decide"
  /\ txn[c].expected \in {Unchecked, txn[c].base}
  /\ txn[c].seen \in {"draft", "superseded"}
  /\ Goto(c, IF txn[c].base \in {0, Candidate(c)} THEN "activate" ELSE "supersede")
  /\ UNCHANGED <<rows, nextRev, rowLock, profLock, txn, reply>>

(* the old active revision is not superseded *)
ValidateOnly(c) ==
  /\ pc[c] = "decide"
  /\ txn[c].expected \in {Unchecked, txn[c].base}
  /\ txn[c].seen \in {"draft", "superseded"}
  /\ Goto(c, IF rows[Candidate(c)].payload \notin Accepted THEN "reject" ELSE "activate")
  /\ UNCHANGED <<rows, nextRev, rowLock, profLock, txn, reply>>

(* _SUPERSEDE_REVISION runs outside the transaction *)
SupersedeAutocommit(c) ==
  /\ pc[c] = "supersede"
  /\ rows' = [rows EXCEPT ![txn[c].base].status = "superseded"]
  /\ Goto(c, "activate")
  /\ UNCHANGED <<nextRev, rowLock, profLock, txn, reply>>

(* the status of the row is sent instead of the outcome *)
CommitReplyStatus(c) ==
  IF txn[c].candidateStatus = "rejected" THEN "rejected" ELSE "activated"

(* RevisionValidationFailed is not raised after COMMIT *)
CommitReplyAlwaysOk(c) == "activated"

(* deadlock_timeout = 0: nobody looks for cycles *)
DeadlockUndetected(waiter, holder) == FALSE

-----------------------------------------------------------------------------
(* create_revision: one INSERT in a transaction of its own.  The identity  *)
(* sequence advances even when the transaction does not commit, and the    *)
(* caller may lose the answer to a COMMIT that succeeded.                  *)

CreateRevision(c, p, d) ==
  /\ pc[c] = "idle"
  /\ nextRev \in Revisions
  /\ nextRev' = nextRev + 1
  /\ \/ /\ rows' = [rows EXCEPT ![nextRev] = DraftRow(p, d)]
        /\ \E answer \in {"created", "unavailable"} :
             reply' = [reply EXCEPT ![c] = answer]
     \/ /\ rows' = rows
        /\ reply' = [reply EXCEPT ![c] = "unavailable"]
  /\ UNCHANGED <<rowLock, profLock, pc, txn>>

-----------------------------------------------------------------------------
(* get_active_revision: _SELECT_ACTIVE as a transaction of its own.  The   *)
(* snapshot is taken, then the row lock is awaited; a row that is no       *)
(* longer active when the lock is granted is skipped.                      *)

BeginRead(c, p) ==
  /\ pc[c] = "idle"
  /\ \E t \in 0..MaxRev :
       /\ ActiveSnapshot(p, t)
       /\ IF t = 0
            THEN Answer(c, "no_active_revision")
            ELSE /\ Goto(c, "readActive")
                 /\ txn' = [txn EXCEPT ![c] = [IdleTxn EXCEPT !.target = t]]
                 /\ reply' = [reply EXCEPT ![c] = "none"]
  /\ UNCHANGED <<rows, nextRev, rowLock, profLock>>

ReadActive(c) ==
  /\ pc[c] = "readActive"
  /\ rowLock[txn[c].target] = Nobody
  /\ Answer(c, IF rows[txn[c].target].status = "active"
                 THEN "active_revision" ELSE "no_active_revision")
  /\ UNCHANGED <<rows, nextRev, rowLock, profLock>>

-----------------------------------------------------------------------------
(* activate_revision, also reached through rollback_revision and rollback. *)

BeginActivate(c, r, e) ==
  /\ pc[c] = "idle"
  /\ Goto(c, "lockCandidate")
  /\ txn' = [txn EXCEPT ![c] = [IdleTxn EXCEPT !.candidate = r, !.expected = e]]
  /\ reply' = [reply EXCEPT ![c] = "none"]
  /\ UNCHANGED <<rows, nextRev, rowLock, profLock>>

(* _SELECT_BY_ID_FOR_UPDATE *)
LockCandidate(c) ==
  /\ pc[c] = "lockCandidate"
  /\ Exists(Candidate(c))
  /\ rowLock[Candidate(c)] = Nobody
  /\ rowLock' = [rowLock EXCEPT ![Candidate(c)] = c]
  /\ txn' = [txn EXCEPT ![c].seen = rows[Candidate(c)].status]
  /\ Goto(c, "lockProfile")
  /\ UNCHANGED <<rows, nextRev, profLock, reply>>

CandidateMissing(c) ==
  /\ pc[c] = "lockCandidate"
  /\ ~Exists(Candidate(c))
  /\ Rollback(c, "not_found")

(* _LOCK_PROFILE *)
LockProfile(c) ==
  /\ pc[c] = "lockProfile"
  /\ profLock[ProfileOf(c)] = Nobody
  /\ profLock' = [profLock EXCEPT ![ProfileOf(c)] = c]
  /\ Goto(c, "snapshotActive")
  /\ UNCHANGED <<rows, nextRev, rowLock, txn, reply>>

(* _SELECT_ACTIVE, its snapshot ...                                        *)
SnapshotActive(c) ==
  /\ pc[c] = "snapshotActive"
  /\ \E t \in 0..MaxRev :
       /\ ActiveSnapshot(ProfileOf(c), t)
       /\ txn' = [txn EXCEPT ![c].target = t]
       /\ Goto(c, IF t = 0 THEN "decide" ELSE "lockActive")
  /\ UNCHANGED <<rows, nextRev, rowLock, profLock, reply>>

(* ... and the row it returns once it holds the row lock.                  *)
LockActive(c) ==
  LET t == txn[c].target IN
  /\ pc[c] = "lockActive"
  /\ rowLock[t] \in {Nobody, c}
  /\ rowLock' = [rowLock EXCEPT ![t] = c]
  /\ txn' = [txn EXCEPT ![c].base = IF rows[t].status = "active" THEN t ELSE 0]
  /\ Goto(c, "decide")
  /\ UNCHANGED <<rows, nextRev, profLock, reply>>

BaseAsExpected(c) == txn[c].expected \in {Unchecked, txn[c].base}

RaiseConflict(c) ==
  /\ pc[c] = "decide"
  /\ ~BaseAsExpected(c)
  /\ Rollback(c, "conflict")

(* The candidate already is the active revision: nothing to write.         *)
AlreadyActive(c) == txn[c].seen = "active" /\ txn[c].base = Candidate(c)

(* A rejected candidate, or an active one that is not the active row.      *)
RaiseStateError(c) ==
  /\ pc[c] = "decide"
  /\ BaseAsExpected(c)
  /\ txn[c].seen \in {"rejected", "active"} /\ ~AlreadyActive(c)
  /\ Rollback(c, "state_error")

KeepActive(c) ==
  /\ pc[c] = "decide"
  /\ BaseAsExpected(c)
  /\ AlreadyActive(c)
  /\ Goto(c, "commit")
  /\ UNCHANGED <<rows, nextRev, rowLock, profLock, txn, reply>>

(* self._validate(candidate.payload)                                       *)
Validate(c) ==
  /\ pc[c] = "decide"
  /\ BaseAsExpected(c)
  /\ txn[c].seen \in {"draft", "superseded"}
  /\ Goto(c, IF rows[Candidate(c)].payload \notin Accepted THEN "reject"
             ELSE IF txn[c].base \in {0, Candidate(c)} THEN "activate"
             ELSE "supersede")
  /\ UNCHANGED <<rows, nextRev, rowLock, profLock, txn, reply>>

(* _REJECT_REVISION, for a draft; a historical revision stays as it is.    *)
RejectCandidate(c) ==
  /\ pc[c] = "reject"
  /\ IF txn[c].seen = "draft"
       THEN txn' = [txn EXCEPT ![c].candidateStatus = "rejected"]
       ELSE UNCHANGED txn
  /\ Goto(c, "commit")
  /\ UNCHANGED <<rows, nextRev, rowLock, profLock, reply>>

(* _SUPERSEDE_REVISION *)
SupersedeActive(c) ==
  /\ pc[c] = "supersede"
  /\ txn' = [txn EXCEPT ![c].superseded =
               IF rows[txn[c].base].status = "active" THEN txn[c].base ELSE 0]
  /\ Goto(c, "activate")
  /\ UNCHANGED <<rows, nextRev, rowLock, profLock, reply>>

(* _ACTIVATE_REVISION finds no row when its WHERE clause fails, and breaks *)
(* the partial unique index when another row of the profile is active.     *)
Activatable(c) == rows[Candidate(c)].status \in {"draft", "superseded"}
IndexFree(c) == ActiveRows(ProfileOf(c)) \subseteq {txn[c].superseded}

ActivateCandidate(c) ==
  /\ pc[c] = "activate"
  /\ IF Activatable(c) /\ IndexFree(c)
       THEN /\ txn' = [txn EXCEPT ![c].candidateStatus = "active"]
            /\ Goto(c, "commit")
            /\ UNCHANGED <<rows, nextRev, rowLock, profLock, reply>>
       ELSE Rollback(c, IF Activatable(c) THEN "unavailable" ELSE "state_error")

(* The answer a COMMIT gives to its caller.                                *)
CommitReply(c) ==
  IF txn[c].candidateStatus = "active" \/ txn[c].seen = "active"
    THEN "activated" ELSE "validation_failed"

(* COMMIT publishes the writes and frees the locks.  When the connection   *)
(* breaks before the answer arrives the caller sees the backend as         *)
(* unavailable although the transaction is durable.                        *)
Commit(c) ==
  /\ pc[c] = "commit"
  /\ rows' = [r \in Revisions |->
       IF r = Candidate(c) /\ txn[c].candidateStatus = "active"
         THEN [rows[r] EXCEPT !.status = "active", !.activated = TRUE]
       ELSE IF r = Candidate(c) /\ txn[c].candidateStatus = "rejected"
         THEN [rows[r] EXCEPT !.status = "rejected"]
       ELSE IF r = txn[c].superseded
         THEN [rows[r] EXCEPT !.status = "superseded"]
       ELSE rows[r]]
  /\ \E answer \in {CommitReply(c), "unavailable"} : Answer(c, answer)
  /\ ReleaseLocks(c)
  /\ UNCHANGED nextRev

-----------------------------------------------------------------------------
(* Failures *)

(* Connection loss or command_timeout in any statement before COMMIT takes *)
(* effect.                                                                 *)
Disconnect(c) ==
  /\ pc[c] # "idle"
  /\ Rollback(c, "unavailable")

(* `waiter' holds the profile lock and waits for a row; `holder' holds     *)
(* that row as its candidate and waits for the profile lock.               *)
DeadlockCycle(waiter, holder) ==
  /\ pc[waiter] = "lockActive"
  /\ rowLock[txn[waiter].target] = holder
  /\ pc[holder] = "lockProfile"
  /\ profLock[ProfileOf(holder)] = waiter

(* PostgreSQL's deadlock detector cancels one of the two.                  *)
DeadlockVictim(c) ==
  /\ \E d \in Clients \ {c} : DeadlockCycle(c, d) \/ DeadlockCycle(d, c)
  /\ Rollback(c, "unavailable")

-----------------------------------------------------------------------------

Init ==
  /\ HistoryInit
  /\ nextRev = 1
  /\ rowLock = [r \in Revisions |-> Nobody]
  /\ profLock = [p \in Profiles |-> Nobody]
  /\ pc = [c \in Clients |-> "idle"]
  /\ txn = [c \in Clients |-> IdleTxn]
  /\ reply = [c \in Clients |-> "none"]

Next ==
  \E c \in Clients :
    \/ \E p \in Profiles, d \in Payloads : CreateRevision(c, p, d)
    \/ \E p \in Profiles : BeginRead(c, p)
    \/ ReadActive(c)
    \/ \E r \in Revisions, e \in Expectations : BeginActivate(c, r, e)
    \/ LockCandidate(c) \/ CandidateMissing(c)
    \/ LockProfile(c)
    \/ SnapshotActive(c) \/ LockActive(c)
    \/ RaiseConflict(c) \/ RaiseStateError(c)
    \/ KeepActive(c) \/ Validate(c)
    \/ RejectCandidate(c) \/ SupersedeActive(c) \/ ActivateCandidate(c)
    \/ Commit(c)
    \/ Disconnect(c) \/ DeadlockVictim(c)

Spec == Init /\ [][Next]_vars

(* Every statement of an open transaction is eventually answered.  Row     *)
(* locks and advisory locks are granted in the order they were requested,  *)
(* so a lock that keeps becoming free is not given to others for ever; the *)
(* deadlock detector runs deadlock_timeout after a wait begins.  Nothing   *)
(* makes an administrator start a call.                                    *)
LockStatement(c) == LockCandidate(c) \/ LockProfile(c) \/ LockActive(c) \/ ReadActive(c)

OtherStatement(c) ==
  \/ CandidateMissing(c) \/ SnapshotActive(c)
  \/ RaiseConflict(c) \/ RaiseStateError(c) \/ KeepActive(c) \/ Validate(c)
  \/ RejectCandidate(c) \/ SupersedeActive(c) \/ ActivateCandidate(c) \/ Commit(c)
  \/ DeadlockVictim(c)

Fairness ==
  \A c \in Clients : SF_vars(LockStatement(c)) /\ WF_vars(OtherStatement(c))

FairSpec == Spec /\ Fairness

-----------------------------------------------------------------------------
(* Properties.  OneActivePerProfile, ActivatedMeansValidated,              *)
(* ActiveNeverVanishes and HistoryAppendOnly come from RegistryHistory.    *)

(* The inductive invariant.  Its parts say, for one client, which locks it *)
(* holds at each statement, that what it read under them is still the      *)
(* case, and which writes it may have planned.                             *)

DecidedSteps == {"decide", "supersede", "activate", "reject", "commit"}

HoldsLocks(c) ==
  /\ pc[c] \in CandidateSteps \cup {"lockCandidate"} => Candidate(c) \in Revisions
  /\ pc[c] \in CandidateSteps => Exists(Candidate(c)) /\ rowLock[Candidate(c)] = c
  /\ pc[c] \in ProfileSteps => profLock[ProfileOf(c)] = c

ReadsStayCurrent(c) ==
  /\ pc[c] = "readActive" => txn[c].target \in Revisions
  /\ pc[c] \in CandidateSteps => rows[Candidate(c)].status = txn[c].seen
  /\ pc[c] = "lockActive" => /\ txn[c].target # 0
                             /\ ActiveSnapshot(ProfileOf(c), txn[c].target)
  /\ pc[c] \notin DecidedSteps => txn[c].base = 0
  /\ pc[c] \in DecidedSteps =>
       /\ ActiveSnapshot(ProfileOf(c), txn[c].base)
       /\ txn[c].base # 0 => rowLock[txn[c].base] = c

WritesPlanned(c) ==
  LET t == txn[c]
      valid == rows[Candidate(c)].payload \in Accepted
      changeable == t.seen \in {"draft", "superseded"}
  IN
  /\ pc[c] \notin {"activate", "commit"} => t.superseded = 0
  /\ pc[c] # "commit" => t.candidateStatus = "none"
  /\ pc[c] \in DecidedSteps \ {"decide"} => BaseAsExpected(c)
  /\ pc[c] = "reject" => changeable /\ ~valid
  /\ pc[c] = "supersede" => changeable /\ valid /\ t.base # 0
  /\ pc[c] = "activate" => changeable /\ valid /\ t.superseded = t.base
  /\ pc[c] = "commit" =>
       \/ t.candidateStatus = "active" /\ changeable /\ valid /\ t.superseded = t.base
       \/ t.candidateStatus = "rejected" /\ t.seen = "draft" /\ ~valid /\ t.superseded = 0
       \/ /\ t.candidateStatus = "none" /\ t.superseded = 0
          /\ AlreadyActive(c) \/ t.seen = "superseded"

NumbersFresh == \A r \in Revisions : r >= nextRev => ~Exists(r)

IInv ==
  /\ TypeOK
  /\ NumbersFresh
  /\ OneActivePerProfile
  /\ ActivatedMeansValidated
  /\ \A c \in Clients : HoldsLocks(c) /\ ReadsStayCurrent(c) /\ WritesPlanned(c)

(* What a transaction decided on still holds when it commits: from the     *)
(* comparison with expected_base_revision to COMMIT, `base' is the active  *)
(* revision of the profile and the candidate has the status that was read  *)
(* before the profile lock was taken.                                      *)
DecisionsStayCurrent ==
  \A c \in Clients :
    pc[c] \in DecidedSteps =>
      /\ ActiveSnapshot(ProfileOf(c), txn[c].base)
      /\ rows[Candidate(c)].status = txn[c].seen

(* Optimistic concurrency: the commit that replaces the active revision    *)
(* replaces the one its caller named, whatever committed since the caller  *)
(* read it.                                                                *)
ReplacesExpectedBase ==
  [][\A c \in Clients, p \in Profiles :
        /\ pc[c] = "commit" /\ pc'[c] = "idle"
        /\ ActiveRows(p)' # ActiveRows(p)
        => \/ txn[c].expected = Unchecked
           \/ ActiveSnapshot(p, txn[c].expected)]_vars

(* _ACTIVATE_REVISION never finds its row in another status and never      *)
(* trips the unique index: neither internal error of activate_revision     *)
(* ("revision is not activatable", a unique violation) can be raised.      *)
ActivationNeverTrips ==
  \A c \in Clients : pc[c] = "activate" => Activatable(c) /\ IndexFree(c)

(* Answers tell the truth: `activated' is sent when the candidate is the   *)
(* only active revision of its profile, and every refusal leaves all       *)
(* active revisions as they were.                                          *)
AnswersAreTruthful ==
  [][\A c \in Clients : pc[c] # "idle" /\ pc'[c] = "idle" =>
        /\ reply'[c] = "activated" =>
             \A p \in Profiles : p = ProfileOf(c) => ActiveRows(p)' = {Candidate(c)}
        /\ reply'[c] \in {"conflict", "not_found", "state_error", "validation_failed"}
             => \A p \in Profiles : ActiveRows(p)' = ActiveRows(p)]_vars

(* The households are isolated: an activation in one profile leaves the    *)
(* active revision of the other as it is.                                  *)
ProfilesIndependent ==
  [][\A c \in Clients, p \in Profiles :
        pc[c] = "commit" /\ pc'[c] = "idle" /\ p # ProfileOf(c)
        => ActiveRows(p)' = ActiveRows(p)]_vars

(* No repository call waits for ever, the lock-order deadlock between two  *)
(* activations included.                                                   *)
CallsReturn == \A c \in Clients : pc[c] # "idle" ~> pc[c] = "idle"

(* `no_active_revision' is what an empty registry reports: a read that     *)
(* found an active row does not report it.                                 *)
EmptyOnlyWhenEmpty ==
  [][\A c \in Clients : pc[c] = "readActive" /\ pc'[c] = "idle"
        => reply'[c] # "no_active_revision"]_vars

=============================================================================
