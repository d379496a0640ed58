----------------------- MODULE RegistryHistory_proofs -----------------------
(***************************************************************************)
(* Proofs about RegistryHistory.  The lemmas about its actions are the     *)
(* ones RegistryStore_proofs uses for COMMIT.                              *)
(***************************************************************************)
EXTENDS RegistryHistory, TLAPS

HistoryInv == HistoryTypeOK /\ OneActivePerProfile /\ ActivatedMeansValidated

LEMMA CreateHistory ==
  ASSUME HistoryInv, NEW r \in Revisions, NEW p \in Profiles, NEW d \in Payloads,
         ~Exists(r), rows' = [rows EXCEPT ![r] = DraftRow(p, d)]
  PROVE  /\ HistoryInv'
         /\ \A q \in Revisions : Exists(q) => rows'[q] = rows[q]
         /\ \A h \in Profiles : ActiveRows(h)' = ActiveRows(h)
  <1>1. DraftRow(p, d) \in Row /\ DraftRow(p, d).status = "draft" /\ ~DraftRow(p, d).activated
    BY DEF DraftRow, Row, Statuses
  <1>2. \A q \in Revisions : rows'[q] = IF q = r THEN DraftRow(p, d) ELSE rows[q]
    BY DEF HistoryInv, HistoryTypeOK
  <1>3. HistoryTypeOK'
    BY <1>1 DEF HistoryInv, HistoryTypeOK
  <1>4. \A q \in Revisions : Exists(q) => rows'[q] = rows[q]
    BY <1>2 DEF Exists
  <1>5. \A q \in Revisions : rows'[q].status = "active" \/ rows[q].status = "active"
                               => rows'[q] = rows[q]
    BY <1>1, <1>2 DEF Exists, NoRow
  <1>6. OneActivePerProfile'
    BY <1>5 DEF HistoryInv, OneActivePerProfile
  <1>7. ActivatedMeansValidated'
    BY <1>1, <1>2 DEF HistoryInv, ActivatedMeansValidated, Exists
  <1>8. \A h \in Profiles : ActiveRows(h)' = ActiveRows(h)
    BY <1>5 DEF ActiveRows
  <1> QED
    BY <1>3, <1>4, <1>6, <1>7, <1>8 DEF HistoryInv

LEMMA RejectHistory ==
  ASSUME HistoryInv, NEW r \in Revisions, Reject(r)
  PROVE  /\ HistoryInv'
         /\ \A q \in Revisions : Exists(q) =>
              /\ Exists(q)'
              /\ rows'[q].profile = rows[q].profile /\ rows'[q].payload = rows[q].payload
              /\ q # r => rows'[q] = rows[q]
         /\ \A q \in Revisions : Exists(q)' => Exists(q)
         /\ \A h \in Profiles : ActiveRows(h)' = ActiveRows(h)
         /\ rows'[r].status = "rejected"
  <1>1. rows[r] \in Row /\ rows[r].status = "draft"
    BY DEF Reject, HistoryInv, HistoryTypeOK, NoRow
  <1>2. \A q \in Revisions :
          rows'[q] = IF q = r THEN [rows[r] EXCEPT !.status = "rejected"] ELSE rows[q]
    BY DEF Reject, HistoryInv, HistoryTypeOK
  <1>3. [rows[r] EXCEPT !.status = "rejected"] \in Row
    BY <1>1 DEF Row, Statuses
  <1>4. Row \cap {NoRow} = {}
    BY DEF Row, NoRow, Statuses
  <1>5. HistoryTypeOK'
    BY <1>3 DEF Reject, HistoryInv, HistoryTypeOK
  <1>6. \A q \in Revisions : rows'[q].status = "active" \/ rows[q].status = "active"
                               => rows'[q] = rows[q]
    BY <1>1, <1>2 DEF Row
  <1>7. OneActivePerProfile'
    BY <1>6 DEF HistoryInv, OneActivePerProfile
  <1>8. ActivatedMeansValidated'
    BY <1>1, <1>2, <1>4 DEF HistoryInv, ActivatedMeansValidated, Exists, Row
  <1>9. \A h \in Profiles : ActiveRows(h)' = ActiveRows(h)
    BY <1>6 DEF ActiveRows
  <1>10. \A q \in Revisions : Exists(q) =>
           /\ Exists(q)'
           /\ rows'[q].profile = rows[q].profile /\ rows'[q].payload = rows[q].payload
           /\ q # r => rows'[q] = rows[q]
    BY <1>1, <1>2, <1>3, <1>4 DEF Exists, Row
  <1>11. \A q \in Revisions : Exists(q)' => Exists(q)
    BY <1>1, <1>2, <1>4 DEF Exists
  <1> QED
    BY <1>1, <1>2, <1>5, <1>7, <1>8, <1>9, <1>10, <1>11 DEF HistoryInv, Row

LEMMA ActivateHistory ==
  ASSUME HistoryInv, NEW r \in Revisions, Activate(r)
  PROVE  /\ HistoryInv'
         /\ \A q \in Revisions : Exists(q) =>
              /\ Exists(q)'
              /\ rows'[q].profile = rows[q].profile /\ rows'[q].payload = rows[q].payload
              /\ q # r /\ q \notin ActiveRows(rows[r].profile) => rows'[q] = rows[q]
         /\ \A q \in Revisions : Exists(q)' => Exists(q)
         /\ rows[r].profile \in Profiles
         /\ \A h \in Profiles : ActiveRows(h)' = IF h = rows[r].profile THEN {r} ELSE ActiveRows(h)
         /\ \A q \in Revisions : q # r /\ rows'[q] # rows[q] => rows'[q].status = "superseded"
         /\ rows'[r].status = "active"
  <1> DEFINE p == rows[r].profile
             on == [rows[r] EXCEPT !.status = "active", !.activated = TRUE]
             off(q) == [rows[q] EXCEPT !.status = "superseded"]
  <1>1. rows[r] \in Row /\ rows[r].status \in {"draft", "superseded"} /\ rows[r].payload \in Accepted
    <2>1. rows[r].status \in {"draft", "superseded"} /\ rows[r].payload \in Accepted
      BY Zenon DEF Activate
    <2> QED
      BY <2>1 DEF HistoryInv, HistoryTypeOK, NoRow
  <1>2. \A q \in Revisions :
          rows'[q] = IF q = r THEN on ELSE IF q \in ActiveRows(p) THEN off(q) ELSE rows[q]
    <2>1. \A q \in Revisions :
            rows'[q] = IF q = r THEN [rows[q] EXCEPT !.status = "active", !.activated = TRUE]
                       ELSE IF q \in ActiveRows(p) THEN off(q) ELSE rows[q]
      BY DEF Activate
    <2> QED
      BY <2>1, Zenon
  <1>3. /\ on \in Row /\ on.status = "active" /\ on.activated
        /\ on.profile = p /\ on.payload = rows[r].payload
    BY <1>1 DEF Row, Statuses
  <1>4. ASSUME NEW q \in ActiveRows(p)
        PROVE  /\ q \in Revisions /\ rows[q] \in Row /\ q # r
               /\ off(q) \in Row /\ off(q).status = "superseded"
               /\ off(q).activated = rows[q].activated
               /\ off(q).profile = rows[q].profile /\ off(q).payload = rows[q].payload
    <2>1. q \in Revisions /\ rows[q].status = "active" /\ rows[q] \in Row
      BY DEF ActiveRows, HistoryInv, HistoryTypeOK, NoRow
    <2> QED
      BY <1>1, <2>1 DEF Row, Statuses
  <1>5. Row \cap {NoRow} = {}
    BY DEF Row, NoRow, Statuses
  <1>6. HistoryTypeOK'
    <2>1. rows' = [q \in Revisions |-> rows'[q]]
      BY DEF Activate
    <2>2. ASSUME NEW q \in Revisions
          PROVE  rows'[q] \in Row \cup {NoRow}
      <3>1. rows[q] \in Row \cup {NoRow}
        BY DEF HistoryInv, HistoryTypeOK
      <3> QED
        BY <1>2, <1>3, <1>4, <3>1
    <2> QED
      BY <2>1, <2>2 DEF HistoryTypeOK
  <1>7. \A q \in Revisions : Exists(q) =>
          /\ Exists(q)'
          /\ rows'[q].profile = rows[q].profile /\ rows'[q].payload = rows[q].payload
          /\ q # r /\ q \notin ActiveRows(p) => rows'[q] = rows[q]
    <2> SUFFICES ASSUME NEW q \in Revisions, Exists(q)
                 PROVE  /\ Exists(q)'
                        /\ rows'[q].profile = rows[q].profile
                        /\ rows'[q].payload = rows[q].payload
                        /\ q # r /\ q \notin ActiveRows(p) => rows'[q] = rows[q]
      OBVIOUS
    <2>1. CASE q = r
      BY <1>2, <1>3, <1>5, <2>1 DEF Exists
    <2>2. CASE q # r /\ q \in ActiveRows(p)
      BY <1>2, <1>4, <1>5, <2>2 DEF Exists
    <2>3. CASE q # r /\ q \notin ActiveRows(p)
      BY <1>2, <2>3 DEF Exists
    <2> QED
      BY <2>1, <2>2, <2>3
  <1>8. \A q \in Revisions : Exists(q)' => Exists(q)
    <2> SUFFICES ASSUME NEW q \in Revisions, Exists(q)' PROVE Exists(q)
      OBVIOUS
    <2>1. CASE q = r
      BY <1>1, <1>5, <2>1 DEF Exists
    <2>2. CASE q # r /\ q \in ActiveRows(p)
      BY <1>4, <1>5, <2>2 DEF Exists
    <2>3. CASE q # r /\ q \notin ActiveRows(p)
      BY <1>2, <2>3 DEF Exists
    <2> QED
      BY <2>1, <2>2, <2>3
  <1>9. ASSUME NEW q \in Revisions, q # r, rows'[q] # rows[q]
        PROVE  rows'[q].status = "superseded"
    <2>1. q \in ActiveRows(p) /\ rows'[q] = off(q)
      BY <1>2, <1>9
    <2> QED
      BY <1>4, <2>1
  <1>10. \A q \in Revisions :
           rows'[q].status = "active" => q = r \/ (q \notin ActiveRows(p) /\ rows'[q] = rows[q])
    BY <1>2, <1>4
  <1>11. \A h \in Profiles : ActiveRows(h)' = IF h = p THEN {r} ELSE ActiveRows(h)
    <2> SUFFICES ASSUME NEW h \in Profiles
                 PROVE  ActiveRows(h)' = IF h = p THEN {r} ELSE ActiveRows(h)
      OBVIOUS
    <2>1. \A q \in Revisions : q \in ActiveRows(h)' <=> q \in (IF h = p THEN {r} ELSE ActiveRows(h))
      <3>1. rows'[r].status = "active" /\ rows'[r].profile = p
        BY <1>2, <1>3
      <3>2. ASSUME NEW q \in Revisions, q # r, q \in ActiveRows(p)
            PROVE  rows'[q].status # "active" /\ rows[q].profile = p
        BY <1>2, <1>4, <3>2 DEF ActiveRows
      <3>3. ASSUME NEW q \in Revisions, q # r, q \notin ActiveRows(p)
            PROVE  rows'[q] = rows[q]
        BY <1>2, <3>3
      <3>4. r \notin ActiveRows(h)
        BY <1>1 DEF ActiveRows
      <3> QED
        BY <3>1, <3>2, <3>3, <3>4 DEF ActiveRows
    <2> QED
      BY <2>1 DEF ActiveRows
  <1>12. OneActivePerProfile'
    <2> SUFFICES ASSUME NEW q \in Revisions, NEW s \in Revisions,
                        rows'[q].status = "active", rows'[s].status = "active",
                        rows'[q].profile = rows'[s].profile
                 PROVE  q = s
      BY DEF OneActivePerProfile
    <2>1. rows'[r].profile = p
      BY <1>2, <1>3
    <2>2. CASE q = r \/ s = r
      BY <1>10, <2>1, <2>2 DEF ActiveRows
    <2>3. CASE q # r /\ s # r
      BY <1>10, <2>3 DEF HistoryInv, OneActivePerProfile
    <2> QED
      BY <2>2, <2>3
  <1>13. ActivatedMeansValidated'
    <2> SUFFICES ASSUME NEW q \in Revisions, Exists(q)'
                 PROVE  /\ rows'[q].activated <=> rows'[q].status \in {"active", "superseded"}
                        /\ rows'[q].activated => rows'[q].payload \in Accepted
      BY DEF ActivatedMeansValidated
    <2>1. Exists(q)
      BY <1>8
    <2>2. CASE q = r
      BY <1>1, <1>2, <1>3, <2>2
    <2>3. CASE q # r /\ q \in ActiveRows(p)
      BY <1>2, <1>4, <2>1, <2>3 DEF HistoryInv, ActivatedMeansValidated, ActiveRows
    <2>4. CASE q # r /\ q \notin ActiveRows(p)
      BY <1>2, <2>1, <2>4 DEF HistoryInv, ActivatedMeansValidated
    <2> QED
      BY <2>2, <2>3, <2>4
  <1> QED
    BY <1>1, <1>2, <1>3, <1>6, <1>7, <1>8, <1>9, <1>11, <1>12, <1>13 DEF HistoryInv, Row

-----------------------------------------------------------------------------

LEMMA CreateStep ==
  ASSUME HistoryInv, NEW r \in Revisions, NEW p \in Profiles, NEW d \in Payloads,
         Create(r, p, d)
  PROVE  /\ HistoryInv'
         /\ \A q \in Revisions : Exists(q) => rows'[q] = rows[q]
         /\ \A q \in Revisions : rows'[q] # rows[q] => ~Exists(q)
         /\ \A h \in Profiles : ActiveRows(h)' = ActiveRows(h)
  <1>1. ~Exists(r) /\ rows' = [rows EXCEPT ![r] = DraftRow(p, d)]
    BY HistoryConstants DEF Create, Revisions
  <1>2. /\ HistoryInv'
        /\ \A q \in Revisions : Exists(q) => rows'[q] = rows[q]
        /\ \A h \in Profiles : ActiveRows(h)' = ActiveRows(h)
    BY <1>1, CreateHistory
  <1> QED
    BY <1>2

LEMMA HistoryStep == HistoryInv /\ [HistoryNext]_rows => HistoryInv'
  <1> SUFFICES ASSUME HistoryInv, [HistoryNext]_rows PROVE HistoryInv'
    OBVIOUS
  <1>1. ASSUME NEW r \in Revisions, NEW p \in Profiles, NEW d \in Payloads, Create(r, p, d)
        PROVE  HistoryInv'
    BY <1>1, CreateStep
  <1>2. ASSUME NEW r \in Revisions, Activate(r) PROVE HistoryInv'
    BY <1>2, ActivateHistory
  <1>3. ASSUME NEW r \in Revisions, Reject(r) PROVE HistoryInv'
    BY <1>3, RejectHistory
  <1>4. CASE UNCHANGED rows
    BY <1>4 DEF HistoryInv, HistoryTypeOK, OneActivePerProfile, ActivatedMeansValidated, Exists
  <1> QED
    BY <1>1, <1>2, <1>3, <1>4 DEF HistoryNext

(* Whoever implements the history keeps at most one active revision per    *)
(* profile, and only validated payloads become active: the contract every  *)
(* reader of the table (load_active, rollback, the editors) relies on.     *)
THEOREM HistorySafe == HistorySpec => []HistoryInv
  <1>1. HistoryInit => HistoryInv
    BY DEF HistoryInit, HistoryInv, HistoryTypeOK, OneActivePerProfile, ActivatedMeansValidated,
       NoRow, Exists
  <1> QED
    BY <1>1, HistoryStep, PTL DEF HistorySpec

(* The action formulas of the two action properties of RegistryHistory.    *)
KeepsActive == \A p \in Profiles : ActiveRows(p) # {} => ActiveRows(p)' # {}

AppendOnly ==
  \A r \in Revisions : Exists(r) =>
    /\ Exists(r)'
    /\ rows'[r].profile = rows[r].profile
    /\ rows'[r].payload = rows[r].payload
    /\ rows[r].status = "rejected" => rows'[r].status = "rejected"
    /\ rows'[r].status = "draft" => rows[r].status = "draft"

LEMMA HistoryKeeps == HistoryInv /\ HistoryNext => KeepsActive
  <1> SUFFICES ASSUME HistoryInv, HistoryNext PROVE KeepsActive
    OBVIOUS
  <1>1. ASSUME NEW r \in Revisions, NEW p \in Profiles, NEW d \in Payloads, Create(r, p, d)
        PROVE  KeepsActive
    BY <1>1, CreateStep DEF KeepsActive
  <1>2. ASSUME NEW r \in Revisions, Activate(r) PROVE KeepsActive
    BY <1>2, ActivateHistory DEF KeepsActive
  <1>3. ASSUME NEW r \in Revisions, Reject(r) PROVE KeepsActive
    BY <1>3, RejectHistory DEF KeepsActive
  <1> QED
    BY <1>1, <1>2, <1>3 DEF HistoryNext

LEMMA HistoryAppends == HistoryInv /\ HistoryNext => AppendOnly
  <1> SUFFICES ASSUME HistoryInv, HistoryNext PROVE AppendOnly
    OBVIOUS
  <1>1. ASSUME NEW r \in Revisions, NEW p \in Profiles, NEW d \in Payloads, Create(r, p, d)
        PROVE  AppendOnly
    BY <1>1, CreateStep DEF AppendOnly, Exists
  <1>2. ASSUME NEW r \in Revisions, Activate(r) PROVE AppendOnly
    <2>1. rows[r].status \in {"draft", "superseded"}
      BY <1>2, Zenon DEF Activate
    <2>2. SUFFICES ASSUME NEW q \in Revisions, Exists(q)
                   PROVE  /\ rows[q].status = "rejected" => rows'[q].status = "rejected"
                          /\ rows'[q].status = "draft" => rows[q].status = "draft"
      BY <1>2, ActivateHistory DEF AppendOnly
    <2>3. CASE q = r
      BY <1>2, <2>1, <2>3, ActivateHistory
    <2>4. CASE q \in ActiveRows(rows[r].profile) /\ q # r
      BY <1>2, <2>4, ActivateHistory DEF ActiveRows
    <2>5. CASE q \notin ActiveRows(rows[r].profile) /\ q # r
      BY <1>2, <2>2, <2>5, ActivateHistory
    <2> QED
      BY <2>3, <2>4, <2>5
  <1>3. ASSUME NEW r \in Revisions, Reject(r) PROVE AppendOnly
    BY <1>3, RejectHistory DEF AppendOnly, Reject
  <1> QED
    BY <1>1, <1>2, <1>3 DEF HistoryNext

(* Every implementation of the history keeps a household configured once   *)
(* it is, and never rewrites a committed revision.                         *)
THEOREM HistoryKeepsItsPromises ==
  HistorySpec => ActiveNeverVanishes /\ HistoryAppendOnly
  <1>1. HistoryInv /\ [HistoryNext]_rows => [KeepsActive]_rows /\ [AppendOnly]_rows
    BY HistoryKeeps, HistoryAppends
  <1>2. HistorySpec => [][KeepsActive]_rows /\ [][AppendOnly]_rows
    BY <1>1, HistorySafe, PTL DEF HistorySpec
  <1> QED
    BY <1>2 DEF KeepsActive, AppendOnly, ActiveNeverVanishes, HistoryAppendOnly

=============================================================================
