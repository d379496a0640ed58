-------------------------- MODULE RegistryService --------------------------
(***************************************************************************)
(* RegistryDomainService (registry_service.py) with the repository and the *)
(* Last-Known-Good cache below it, in every Home Assistant process that    *)
(* shares the database.                                                    *)
(*                                                                         *)
(* One action is what runs between two awaits of an operation.  A database *)
(* transaction is one step here: RegistryStore models its statements and   *)
(* implements RegistryHistory, whose Create and Activate are the database  *)
(* steps of this module.  A worker is a task of one process: a websocket   *)
(* command, the recovery tick, the setup of an entry.                      *)
(*                                                                         *)
(* A process prepares a payload (runtime.prepare) before it writes it, and *)
(* prepare calls the validation the repository applies, so the candidate   *)
(* of a process is never rejected by that process; RegistryStore has that  *)
(* path.  Processes may run different versions of the code: Valid[h] are   *)
(* the payloads process h can prepare.                                     *)
(***************************************************************************)
EXTENDS RegistryHistory, Sequences, FiniteSets

CONSTANTS
  Procs,      (* Home Assistant processes                                  *)
  Workers,    (* concurrent service calls of one process                   *)
  DraftIds,   (* bound: drafts a process holds at the same time            *)
  Empty,      (* the payload of a draft opened on an empty registry        *)
  Valid,      (* process -> the payloads its code validates                *)
  Unchecked,  (* expected_base_revision is None                            *)
  Readers,    (* bound: why the active revision is read                    *)
  RollbackMayOmitBase, (* callers of rollback may leave the base out       *)
  CacheMayFail, (* writing the Last-Known-Good cache may fail              *)
  MaxActs,    (* bound: activations per profile                            *)
  MaxStamp,   (* bound: drafts opened plus edits                           *)
  MaxFaults   (* bound: failed calls, lost answers, crashes                *)

ASSUME ServiceConstants ==
  /\ Empty \in Payloads
  /\ Valid \in [Procs -> SUBSET Accepted]
  /\ IsFiniteSet(Procs) /\ IsFiniteSet(Workers)
  /\ Unchecked \notin 0..MaxRev
  /\ Readers \subseteq {"read", "export", "open"}
  /\ RollbackMayOmitBase \in BOOLEAN /\ CacheMayFail \in BOOLEAN
  /\ MaxActs \in Nat /\ MaxStamp \in Nat /\ MaxFaults \in Nat

VARIABLES
  nextRev,    (* next value of the identity sequence                       *)
  acts,       (* profile -> the revisions activated, in commit order       *)
  runtime,    (* RegistryRuntime._active of each process                   *)
  lkg,        (* the Last-Known-Good record of each process                *)
  drafts,     (* RegistryDomainService._drafts of each process             *)
  op,         (* the call each worker is executing                         *)
  stamp,      (* source of updated_at: drafts opened and edited so far     *)
  faults      (* failures so far                                           *)

vars == <<rows, nextRev, acts, runtime, lkg, drafts, op, stamp, faults>>

Nothing == [revision |-> 0, index |-> 0, source |-> "none"]
NoDraft == [base |-> 0]
Idle == [stage |-> "idle"]

(* A revision as a process holds it; index is its place in acts.           *)
Held == [revision : 0..MaxRev, index : 0..MaxActs,
         source : {"none", "postgresql", "last_known_good"}]

Draft == [profile : Profiles, base : 0..MaxRev, payload : Payloads, stamp : 1..MaxStamp]

(* seen: activations of the profile when the call began; copy: the draft   *)
(* read by save; found: what the repository returned.                      *)
Op == [kind : {"read", "export", "open", "save", "rollback"},
       stage : {"query", "create", "activate", "deliver"},
       profile : Profiles, draft : DraftIds \cup {"none"},
       copy : Draft \cup {NoDraft}, candidate : 0..MaxRev,
       expected : 0..MaxRev \cup {Unchecked}, seen : 0..MaxActs, found : Held]

TypeOK ==
  /\ HistoryTypeOK
  /\ nextRev \in 1..(MaxRev + 1)
  /\ acts \in [Profiles -> Seq(Revisions)] /\ \A p \in Profiles : Len(acts[p]) <= MaxActs
  /\ runtime \in [Procs -> [Profiles -> Held]]
  /\ lkg \in [Procs -> [Profiles -> Held]]
  /\ drafts \in [Procs -> [DraftIds -> Draft \cup {NoDraft}]]
  /\ op \in [Procs -> [Workers -> Op \cup {Idle}]]
  /\ stamp \in 0..MaxStamp
  /\ faults \in 0..MaxFaults

-----------------------------------------------------------------------------
(* Helpers *)

ActiveRev(p) == IF acts[p] = <<>> THEN 0 ELSE acts[p][Len(acts[p])]

FromDatabase(r, i) == [revision |-> r, index |-> i, source |-> "postgresql"]

ActiveHeld(p) == FromDatabase(ActiveRev(p), Len(acts[p]))

Fault == faults < MaxFaults /\ faults' = faults + 1

NoFault == UNCHANGED faults

(* The definitions whose comment begins with "Faulty" are the code with    *)
(* one plausible mistake, which some property of this module must notice.  *)

(* Faulty: no activation lock.                                             *)
LockNotTaken(h) == TRUE

(* _serialized_activation: the lock that orders the handoff from the       *)
(* repository to the runtime inside one process.                           *)
LockFree(h) == \A w \in Workers : op[h][w] = Idle

Begin(h, w, o) == LockFree(h) /\ op' = [op EXCEPT ![h][w] = o]

Continue(h, w, o) == op' = [op EXCEPT ![h][w] = o]

Finish(h, w) == op' = [op EXCEPT ![h][w] = Idle]

(* Calls under way that may still activate or create a revision: the       *)
(* bounds MaxActs and MaxRev are kept where such a call begins.            *)
Activating(p) ==
  {x \in Procs \X Workers : LET o == op[x[1]][x[2]] IN
     o.stage \in {"create", "activate"} /\ o.profile = p}

Creating == {x \in Procs \X Workers : op[x[1]][x[2]].stage = "create"}

RoomToActivate(p) == Len(acts[p]) + Cardinality(Activating(p)) < MaxActs

RoomToCreate == nextRev + Cardinality(Creating) <= MaxRev

(* Faulty: nothing is cached.                                              *)
SaveCacheSkipped(h, p, held) == UNCHANGED lkg /\ NoFault

(* _save_lkg_best_effort: a failed write is logged and forgotten.          *)
SaveCache(h, p, held) ==
  \/ lkg' = [lkg EXCEPT ![h][p] = held] /\ NoFault
  \/ CacheMayFail /\ UNCHANGED lkg /\ Fault

(* Faulty: a runtime that holds a snapshot only changes its source.        *)
InstallOnce(h, p, held) ==
  runtime' = [runtime EXCEPT ![h][p] =
    IF @ # Nothing THEN [@ EXCEPT !.source = held.source] ELSE held]

(* runtime.activate, and the source transition of async_read_active when   *)
(* the runtime holds this revision already.                                *)
Install(h, p, held) ==
  runtime' = [runtime EXCEPT ![h][p] =
    IF @.revision = held.revision /\ @.index > held.index
      THEN [@ EXCEPT !.source = held.source] ELSE held]

NewOp(kind, stage, p) ==
  [kind |-> kind, stage |-> stage, profile |-> p, draft |-> "none",
   copy |-> NoDraft, candidate |-> 0, expected |-> Unchecked, seen |-> 0,
   found |-> Nothing]

(* The call once the repository has returned: what it asked for is         *)
(* forgotten, what was found is left to deliver.                           *)
Returned(o, found) ==
  [o EXCEPT !.stage = "deliver", !.found = found, !.seen = 0, !.expected = Unchecked]

-----------------------------------------------------------------------------
(* async_read_active, alone, for an export (install_runtime=False) or as   *)
(* the beginning of async_open_draft.                                      *)

BeginRead(h, w, kind, p) ==
  /\ Begin(h, w, [NewOp(kind, "query", p) EXCEPT !.seen = Len(acts[p])])
  /\ UNCHANGED <<rows, nextRev, acts, runtime, lkg, drafts, stamp, faults>>

(* Faulty: the active row is not validated again.                          *)
QueryActiveUnvalidated(h, w) ==
  LET o == op[h][w] IN
  /\ o.stage = "query"
  /\ acts[o.profile] # <<>>
  /\ Continue(h, w, Returned(o, ActiveHeld(o.profile)))
  /\ UNCHANGED <<rows, nextRev, acts, runtime, lkg, drafts, stamp, faults>>

(* load_active: the active row, if this process can validate it.           *)
QueryActive(h, w) ==
  LET o == op[h][w] IN
  /\ o.stage = "query"
  /\ acts[o.profile] # <<>>
  /\ rows[ActiveRev(o.profile)].payload \in Valid[h]
  /\ Continue(h, w, Returned(o, ActiveHeld(o.profile)))
  /\ UNCHANGED <<rows, nextRev, acts, runtime, lkg, drafts, stamp, faults>>

(* _SELECT_ACTIVE returns no row: the profile has no active revision, or   *)
(* the one in its snapshot was superseded while it waited for the row lock *)
(* (see RegistryStore, ReadActive).                                        *)
QueryNothing(h, w) ==
  LET o == op[h][w] IN
  /\ o.stage = "query"
  /\ acts[o.profile] = <<>> \/ Len(acts[o.profile]) > o.seen
  /\ Continue(h, w, Returned(o, Nothing))
  /\ UNCHANGED <<rows, nextRev, acts, runtime, lkg, drafts, stamp, faults>>

(* The database does not answer, or its active row is invalid here: use    *)
(* the Last-Known-Good record, or report BLOCKED when it is missing,       *)
(* invalid or unreadable.                                                  *)
LoadLkg(h, w) ==
  LET o == op[h][w]
      invalid == /\ acts[o.profile] # <<>>
                 /\ rows[ActiveRev(o.profile)].payload \notin Valid[h]
      record == lkg[h][o.profile]
      usable == record.revision # 0 /\ rows[record.revision].payload \in Valid[h]
  IN
  /\ o.stage = "query"
  /\ \/ invalid /\ NoFault
     \/ Fault
  /\ \/ /\ usable
        /\ Continue(h, w, Returned(o, [record EXCEPT !.source = "last_known_good"]))
     \/ Finish(h, w)
  /\ UNCHANGED <<rows, nextRev, acts, runtime, lkg, drafts, stamp>>

(* Faulty: the base of an empty registry is None, not 0.                   *)
OpenDraftWithoutBase(h, p, base) ==
  \E d \in DraftIds :
    /\ drafts[h][d] = NoDraft
    /\ stamp < MaxStamp
    /\ stamp' = stamp + 1
    /\ drafts' = [drafts EXCEPT ![h][d] =
         [profile |-> p, base |-> IF base = 0 THEN Unchecked ELSE base,
          stamp |-> stamp + 1, payload |-> Empty]]

(* A draft on the revision that was read; an import replaces the payload   *)
(* by a document it has prepared before, with no await in between.         *)
OpenDraft(h, p, base) ==
  \E d \in DraftIds, imported \in Valid[h] \cup {"none"} :
    /\ drafts[h][d] = NoDraft
    /\ stamp < MaxStamp
    /\ stamp' = stamp + 1
    /\ drafts' = [drafts EXCEPT ![h][d] =
         [profile |-> p, base |-> base, stamp |-> stamp + 1,
          payload |-> IF imported # "none" THEN imported
                      ELSE IF base = 0 THEN Empty ELSE rows[base].payload]]

(* The rest of async_read_active, and of its caller.  A caller of open     *)
(* that named another base than the one read gets a conflict instead of a  *)
(* draft.                                                                  *)
DeliverRead(h, w) ==
  LET o == op[h][w]
      p == o.profile
  IN
  /\ o.stage = "deliver" /\ o.kind \in {"read", "export", "open"}
  /\ IF o.found.source = "postgresql" THEN SaveCache(h, p, o.found)
     ELSE UNCHANGED <<lkg, faults>>
  /\ IF o.found # Nothing /\ o.kind # "export" THEN Install(h, p, o.found)
     ELSE UNCHANGED runtime
  /\ \/ o.kind = "open" /\ OpenDraft(h, p, o.found.revision)
     \/ UNCHANGED <<drafts, stamp>>
  /\ Finish(h, w)
  /\ UNCHANGED <<rows, nextRev, acts>>

-----------------------------------------------------------------------------
(* Editing: every edit command of the websocket API ends in               *)
(* _replace_draft_payload, and none awaits between reading the draft and   *)
(* replacing it.  Neither needs the activation lock.                       *)

EditDraft(h, d, payload) ==
  /\ drafts[h][d] # NoDraft
  /\ payload # drafts[h][d].payload
  /\ stamp < MaxStamp
  /\ stamp' = stamp + 1
  /\ drafts' = [drafts EXCEPT ![h][d].payload = payload, ![h][d].stamp = stamp + 1]
  /\ UNCHANGED <<rows, nextRev, acts, runtime, lkg, op, faults>>

DiscardDraft(h, d) ==
  /\ drafts[h][d] # NoDraft
  /\ drafts' = [drafts EXCEPT ![h][d] = NoDraft]
  /\ UNCHANGED <<rows, nextRev, acts, runtime, lkg, op, stamp, faults>>

-----------------------------------------------------------------------------
(* async_save_draft *)

BeginSave(h, w, d) ==
  LET draft == drafts[h][d] IN
  /\ draft # NoDraft
  /\ draft.payload \in Valid[h]
  /\ RoomToActivate(draft.profile) /\ RoomToCreate
  /\ Begin(h, w, [NewOp("save", "create", draft.profile) EXCEPT
                    !.draft = d, !.copy = draft, !.expected = draft.base])
  /\ UNCHANGED <<rows, nextRev, acts, runtime, lkg, drafts, stamp, faults>>

(* create_revision *)
CreateRevision(h, w) ==
  LET o == op[h][w] IN
  /\ o.stage = "create"
  /\ Create(nextRev, o.profile, o.copy.payload)
  /\ nextRev' = nextRev + 1
  /\ \/ Continue(h, w, [o EXCEPT !.stage = "activate", !.candidate = nextRev]) /\ NoFault
     \/ Finish(h, w) /\ Fault
  /\ UNCHANGED <<acts, runtime, lkg, drafts, stamp>>

-----------------------------------------------------------------------------
(* async_rollback: its callers name a revision they saw active (0 when     *)
(* they saw none), or no base at all.                                      *)

BeginRollback(h, w, r, e) ==
  LET p == rows[r].profile IN
  /\ Exists(r)
  /\ rows[r].payload \in Valid[h]
  /\ RoomToActivate(p)
  /\ \/ e = Unchecked /\ RollbackMayOmitBase
     \/ e \in {0} \cup {acts[p][i] : i \in 1..Len(acts[p])}
  /\ Begin(h, w, [NewOp("rollback", "activate", p) EXCEPT
                    !.candidate = r, !.expected = e])
  /\ UNCHANGED <<rows, nextRev, acts, runtime, lkg, drafts, stamp, faults>>

-----------------------------------------------------------------------------
(* activate_revision, for both *)

BaseAsExpected(o) == o.expected \in {Unchecked, ActiveRev(o.profile)}

RaiseConflict(h, w) ==
  LET o == op[h][w] IN
  /\ o.stage = "activate"
  /\ ~BaseAsExpected(o)
  /\ Finish(h, w)
  /\ UNCHANGED <<rows, nextRev, acts, runtime, lkg, drafts, stamp, faults>>

KeepActive(h, w) ==
  LET o == op[h][w] IN
  /\ o.stage = "activate"
  /\ BaseAsExpected(o)
  /\ o.candidate = ActiveRev(o.profile)
  /\ Continue(h, w, Returned(o, ActiveHeld(o.profile)))
  /\ UNCHANGED <<rows, nextRev, acts, runtime, lkg, drafts, stamp, faults>>

(* Faulty: the revision is handed over whether or not it was committed.    *)
ActivateRevisionUncommitted(h, w) ==
  LET o == op[h][w]
      p == o.profile
  IN
  /\ o.stage = "activate"
  /\ BaseAsExpected(o)
  /\ rows[o.candidate].status \in {"draft", "superseded"}
  /\ \/ Activate(o.candidate) /\ acts' = [acts EXCEPT ![p] = Append(@, o.candidate)] /\ NoFault
     \/ UNCHANGED <<rows, acts>> /\ Fault
  /\ Continue(h, w, Returned(o, FromDatabase(o.candidate, Len(acts[p]) + 1)))
  /\ UNCHANGED <<nextRev, runtime, lkg, drafts, stamp>>

(* The transaction commits; its answer may be lost.                        *)
ActivateRevision(h, w) ==
  LET o == op[h][w]
      p == o.profile
  IN
  /\ o.stage = "activate"
  /\ BaseAsExpected(o)
  /\ Activate(o.candidate)
  /\ acts' = [acts EXCEPT ![p] = Append(@, o.candidate)]
  /\ \/ /\ Continue(h, w, Returned(o, FromDatabase(o.candidate, Len(acts[p]) + 1)))
        /\ NoFault
     \/ Finish(h, w) /\ Fault
  /\ UNCHANGED <<nextRev, runtime, lkg, drafts, stamp>>

(* Faulty: the draft is removed whatever became of it.                     *)
DeliverActivatedDropping(h, w) ==
  LET o == op[h][w]
      p == o.profile
  IN
  /\ o.stage = "deliver" /\ o.kind \in {"save", "rollback"}
  /\ SaveCache(h, p, o.found)
  /\ Install(h, p, o.found)
  /\ IF o.kind = "save"
       THEN drafts' = [drafts EXCEPT ![h][o.draft] = NoDraft]
       ELSE UNCHANGED drafts
  /\ Finish(h, w)
  /\ UNCHANGED <<rows, nextRev, acts, stamp>>

(* After COMMIT: the cache, the runtime, and the draft that was saved,     *)
(* unless it was edited or discarded in the meantime.                      *)
DeliverActivated(h, w) ==
  LET o == op[h][w]
      p == o.profile
  IN
  /\ o.stage = "deliver" /\ o.kind \in {"save", "rollback"}
  /\ SaveCache(h, p, o.found)
  /\ Install(h, p, o.found)
  /\ IF o.kind = "save" /\ drafts[h][o.draft] = o.copy
       THEN drafts' = [drafts EXCEPT ![h][o.draft] = NoDraft]
       ELSE UNCHANGED drafts
  /\ Finish(h, w)
  /\ UNCHANGED <<rows, nextRev, acts, stamp>>

-----------------------------------------------------------------------------
(* Failures *)

(* create_revision or activate_revision fails before it takes effect: the  *)
(* database is away, a statement times out, a deadlock is resolved.  The   *)
(* identity sequence may have advanced.                                    *)
CallFails(h, w) ==
  LET o == op[h][w] IN
  /\ o.stage \in {"create", "activate"}
  /\ Fault
  /\ \/ UNCHANGED nextRev
     \/ o.stage = "create" /\ RoomToCreate /\ nextRev' = nextRev + 1
  /\ Finish(h, w)
  /\ UNCHANGED <<rows, acts, runtime, lkg, drafts, stamp>>

(* The process dies and starts again.  What it kept in memory is gone; the *)
(* Last-Known-Good record is on disk.                                      *)
Crash(h) ==
  /\ Fault
  /\ op' = [op EXCEPT ![h] = [w \in Workers |-> Idle]]
  /\ drafts' = [drafts EXCEPT ![h] = [d \in DraftIds |-> NoDraft]]
  /\ runtime' = [runtime EXCEPT ![h] = [p \in Profiles |-> Nothing]]
  /\ UNCHANGED <<rows, nextRev, acts, lkg, stamp>>

-----------------------------------------------------------------------------

Init ==
  /\ HistoryInit
  /\ nextRev = 1
  /\ acts = [p \in Profiles |-> <<>>]
  /\ runtime = [h \in Procs |-> [p \in Profiles |-> Nothing]]
  /\ lkg = [h \in Procs |-> [p \in Profiles |-> Nothing]]
  /\ drafts = [h \in Procs |-> [d \in DraftIds |-> NoDraft]]
  /\ op = [h \in Procs |-> [w \in Workers |-> Idle]]
  /\ stamp = 0
  /\ faults = 0

Next ==
  \E h \in Procs :
    \/ \E d \in DraftIds :
         (\E payload \in Payloads : EditDraft(h, d, payload)) \/ DiscardDraft(h, d)
    \/ Crash(h)
    \/ \E w \in Workers :
         \/ \E kind \in Readers, p \in Profiles : BeginRead(h, w, kind, p)
         \/ QueryActive(h, w) \/ QueryNothing(h, w) \/ LoadLkg(h, w)
         \/ DeliverRead(h, w)
         \/ \E d \in DraftIds : BeginSave(h, w, d)
         \/ CreateRevision(h, w)
         \/ \E r \in Revisions, e \in 0..MaxRev \cup {Unchecked} : BeginRollback(h, w, r, e)
         \/ RaiseConflict(h, w) \/ KeepActive(h, w) \/ ActivateRevision(h, w)
         \/ DeliverActivated(h, w)
         \/ CallFails(h, w)

Spec == Init /\ [][Next]_vars

(* Every call that holds the activation lock goes on, and the recovery     *)
(* tick of every process gets the lock again and again: asyncio.Lock wakes *)
(* its waiters in the order they came.                                     *)
Fairness ==
  \A h \in Procs :
    /\ \A p \in Profiles : SF_vars(\E w \in Workers : BeginRead(h, w, "read", p))
    /\ \A w \in Workers :
         /\ WF_vars(QueryActive(h, w) \/ QueryNothing(h, w) \/ LoadLkg(h, w))
         /\ WF_vars(DeliverRead(h, w)) /\ WF_vars(CreateRevision(h, w))
         /\ WF_vars(RaiseConflict(h, w) \/ KeepActive(h, w) \/ ActivateRevision(h, w))
         /\ WF_vars(DeliverActivated(h, w))

FairSpec == Spec /\ Fairness

-----------------------------------------------------------------------------
(* Properties *)

(* What runs in a process, and what its cache holds, was activated in the  *)
(* database for that profile and validates in that process: no draft, no   *)
(* candidate of a failed or conflicting call and no revision of another    *)
(* household ever reaches a runtime.                                       *)
InstalledWasActivated ==
  \A h \in Procs, p \in Profiles : \A held \in {runtime[h][p], lkg[h][p]} :
    held.revision # 0 =>
      /\ held.index \in 1..Len(acts[p]) /\ acts[p][held.index] = held.revision
      /\ rows[held.revision].activated /\ rows[held.revision].profile = p
      /\ rows[held.revision].payload \in Valid[h]

(* A process never goes back to an older activation while it runs: neither *)
(* a slow read nor the cache replaces what it installed later.             *)
RuntimeNeverRegresses ==
  [][\A h \in Procs, p \in Profiles :
        runtime[h][p] # Nothing /\ runtime'[h][p] # Nothing
        => runtime'[h][p].index >= runtime[h][p].index]_vars

(* A process that loses the database, even after a restart, finds in its   *)
(* cache what it ran last or something newer.                              *)
CacheNotOlder ==
  \A h \in Procs, p \in Profiles : lkg[h][p].index >= runtime[h][p].index

(* A save consumes a draft only when the draft's present content is what   *)
(* it activated: an edit made while the save was awaiting the database     *)
(* survives.                                                               *)
NoEditLost ==
  [][\A h \in Procs, w \in Workers, d \in DraftIds :
        /\ op[h][w].stage = "deliver" /\ op[h][w].kind = "save" /\ op'[h][w] = Idle
        /\ faults' = faults
        /\ drafts[h][d] # NoDraft /\ drafts'[h][d] = NoDraft
        => /\ rows[op[h][w].candidate].activated
           /\ rows[op[h][w].candidate].payload = drafts[h][d].payload]_vars

(* Once failures stop, every process ends up running the revision that is  *)
(* active in the database, if its code can validate it.                    *)
RuntimeConverges ==
  \A h \in Procs, p \in Profiles :
    <>[](acts[p] # <<>> /\ rows[ActiveRev(p)].payload \in Valid[h]
         => runtime[h][p].revision = ActiveRev(p))

=============================================================================
