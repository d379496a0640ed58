-------------------------- MODULE RegistryHistory --------------------------
(***************************************************************************)
(* What the revision table promises to everybody who reads it, whatever    *)
(* the number of Home Assistant instances that write to it: the lifecycle  *)
(* of docs/registry-storage-v1.md as registry_store.py implements it.  A   *)
(* revision is created as a draft; a draft may be rejected; a draft or a   *)
(* superseded revision may be activated, and the same step supersedes the  *)
(* revision that was active in the profile.  Rows are never deleted and    *)
(* their payload never changes.                                            *)
(*                                                                         *)
(* The specification has no clients, locks or transactions: RegistryStore  *)
(* (statement level) and RegistryService (operation level) both implement  *)
(* it.                                                                     *)
(***************************************************************************)
EXTENDS Integers

CONSTANTS
  MaxRev,     (* bound: revision numbers the identity sequence hands out   *)
  Profiles,   (* the households, ProfileId                                 *)
  Payloads,   (* registry payloads, up to what validation tells apart      *)
  Accepted    (* the payloads PostgresRegistryRepository._validate accepts *)

ASSUME HistoryConstants ==
  /\ MaxRev \in Nat
  /\ Accepted \subseteq Payloads

VARIABLE rows

Revisions == 1..MaxRev

Statuses == {"draft", "active", "superseded", "rejected"}

(* A committed row.  `activated' abstracts activated_at to "is not null".  *)
Row == [profile : Profiles, payload : Payloads, status : Statuses,
        activated : BOOLEAN]

(* A revision number no committed row carries.                             *)
NoRow == [status |-> "none"]

(* The row an INSERT commits.                                              *)
DraftRow(p, d) ==
  [profile |-> p, payload |-> d, status |-> "draft", activated |-> FALSE]

Exists(r) == rows[r] # NoRow

(* The rows the partial index *_one_active_per_profile holds for p.        *)
ActiveRows(p) ==
  {r \in Revisions : rows[r].status = "active" /\ rows[r].profile = p}

HistoryTypeOK == rows \in [Revisions -> Row \cup {NoRow}]

-----------------------------------------------------------------------------

HistoryInit == rows = [r \in Revisions |-> NoRow]

Create(r, p, d) ==
  /\ \A q \in Revisions : q >= r => ~Exists(q)
  /\ rows' = [rows EXCEPT ![r] = DraftRow(p, d)]

(* _SUPERSEDE_REVISION on the active row and _ACTIVATE_REVISION on r, in   *)
(* one transaction.                                                        *)
Activate(r) ==
  /\ rows[r].status \in {"draft", "superseded"}
  /\ rows[r].payload \in Accepted
  /\ rows' = [q \in Revisions |->
       IF q = r
         THEN [rows[q] EXCEPT !.status = "active", !.activated = TRUE]
       ELSE IF q \in ActiveRows(rows[r].profile)
         THEN [rows[q] EXCEPT !.status = "superseded"]
       ELSE rows[q]]

Reject(r) ==
  /\ rows[r].status = "draft"
  /\ rows[r].payload \notin Accepted
  /\ rows' = [rows EXCEPT ![r].status = "rejected"]

HistoryNext ==
  \E r \in Revisions :
    \/ \E p \in Profiles, d \in Payloads : Create(r, p, d)
    \/ Activate(r)
    \/ Reject(r)

HistorySpec == HistoryInit /\ [][HistoryNext]_rows

-----------------------------------------------------------------------------

(* At most one active revision per profile: what the partial unique index  *)
(* of the migration enforces and load_active, rollback and the optimistic  *)
(* concurrency check rely on.                                              *)
OneActivePerProfile ==
  \A r, q \in Revisions :
    /\ rows[r].status = "active" /\ rows[q].status = "active"
    /\ rows[r].profile = rows[q].profile
    => r = q

(* The table CHECK: activated_at is set exactly for the revisions that are *)
(* or were active, and those passed validation.  A transaction that broke  *)
(* it would be refused by PostgreSQL.                                      *)
ActivatedMeansValidated ==
  \A r \in Revisions : Exists(r) =>
    /\ rows[r].activated <=> rows[r].status \in {"active", "superseded"}
    /\ rows[r].activated => rows[r].payload \in Accepted

(* Once a profile has an active revision it has one for ever: no activation *)
(* leaves a moment at which a household is without configuration.           *)
ActiveNeverVanishes ==
  [][\A p \in Profiles : ActiveRows(p) # {} => ActiveRows(p)' # {}]_rows

(* History is append-only: a committed row keeps its profile and payload,  *)
(* a rejected revision stays rejected, no revision returns to draft.        *)
HistoryAppendOnly ==
  [][\A r \in Revisions : Exists(r) =>
        /\ Exists(r)'
        /\ rows'[r].profile = rows[r].profile
        /\ rows'[r].payload = rows[r].payload
        /\ rows[r].status = "rejected" => rows'[r].status = "rejected"
        /\ rows'[r].status = "draft" => rows[r].status = "draft"]_rows

=============================================================================
