----------------------- MODULE RegistryService_proofs -----------------------
(***************************************************************************)
(* Proofs about RegistryService, for every number of processes, workers,   *)
(* households, payloads and revisions, and for every mixture of versions.  *)
(***************************************************************************)
EXTENDS RegistryService, RegistryHistory_proofs, FiniteSetTheorems, SequenceTheorems, TLAPS

(* One call of a process at a time is between the repository and the       *)
(* runtime: what the activation lock is for.                               *)
OneCall ==
  \A h \in Procs, v, w \in Workers : op[h][v] # Idle /\ op[h][w] # Idle => v = w

(* Room is kept for every call that may still create or activate.          *)
RoomIsKept ==
  /\ nextRev + Cardinality(Creating) <= MaxRev + 1
  /\ \A p \in Profiles : Len(acts[p]) + Cardinality(Activating(p)) <= MaxActs

NumbersFresh == \A q \in Revisions : q >= nextRev => ~Exists(q)

(* What the service takes to be active is what the table holds active, and *)
(* every activation is of a committed row of that profile.                 *)
ActsFollowTable ==
  \A p \in Profiles :
    /\ ActiveRows(p) = IF acts[p] = <<>> THEN {} ELSE {ActiveRev(p)}
    /\ \A i \in 1..Len(acts[p]) :
         /\ acts[p][i] \in Revisions /\ Exists(acts[p][i])
         /\ rows[acts[p][i]].profile = p /\ rows[acts[p][i]].activated

(* held was activated for p and validates in process h.                    *)
WasActivated(h, p, held) ==
  held # Nothing =>
    /\ held.index \in 1..Len(acts[p]) /\ acts[p][held.index] = held.revision
    /\ rows[held.revision].payload \in Valid[h]

InstalledSound ==
  \A h \in Procs, p \in Profiles : WasActivated(h, p, runtime[h][p]) /\ WasActivated(h, p, lkg[h][p])

(* What a call of process h knows, stage by stage.                         *)
CallSound(h, o) ==
  /\ o.stage = "query" => o.kind \in {"read", "export", "open"}
  /\ o.stage = "create" =>
       /\ o.kind = "save" /\ o.copy \in Draft /\ o.copy.profile = o.profile
       /\ o.copy.payload \in Valid[h] /\ o.draft \in DraftIds
  /\ o.stage = "activate" =>
       /\ o.kind \in {"save", "rollback"}
       /\ o.candidate \in Revisions /\ Exists(o.candidate)
       /\ rows[o.candidate].profile = o.profile /\ rows[o.candidate].payload \in Valid[h]
       /\ o.kind = "save" => /\ o.copy \in Draft /\ o.draft \in DraftIds
                             /\ rows[o.candidate].payload = o.copy.payload
  /\ o.stage = "deliver" =>
       /\ WasActivated(h, o.profile, o.found)
       /\ o.kind \in {"save", "rollback"} => o.found # Nothing
       /\ o.kind = "save" => /\ o.copy \in Draft /\ o.draft \in DraftIds
                             /\ o.candidate = o.found.revision
                             /\ rows[o.candidate].payload = o.copy.payload

CallsSound == \A h \in Procs, w \in Workers : CallSound(h, op[h][w])

IInv ==
  /\ TypeOK /\ HistoryInv /\ OneCall /\ RoomIsKept /\ NumbersFresh /\ ActsFollowTable
  /\ InstalledSound /\ CallsSound

(* The handoff keeps its order as long as the cache can be written: what a *)
(* call holds is not older than what runs, nor is the cache.               *)
HandoffInOrder ==
  /\ CacheNotOlder
  /\ \A h \in Procs, w \in Workers :
       op[h][w].stage = "deliver" /\ op[h][w].found # Nothing =>
         /\ op[h][w].found.index >= runtime[h][op[h][w].profile].index
         /\ op[h][w].found.source # "postgresql" =>
              op[h][w].found.index <= lkg[h][op[h][w].profile].index

-----------------------------------------------------------------------------
(* Lemmas about the operators                                              *)

LEMMA NothingsType ==
  /\ Nothing \in Held /\ Nothing.revision = 0 /\ Nothing.index = 0
  /\ NoDraft \notin Draft /\ Idle \notin Op
  /\ \A o \in Op \cup {Idle} : o.stage # "idle" => o \in Op
  /\ \A o \in Op : o.stage # "idle" /\ o # Idle
  BY HistoryConstants, ServiceConstants DEF Nothing, Held, NoDraft, Draft, Idle, Op

(* A new call of a given kind and what is left of it once the repository   *)
(* has returned are calls.                                                 *)
LEMMA ReturnedType ==
  ASSUME NEW o \in Op, NEW found \in Held
  PROVE  /\ Returned(o, found) \in Op
         /\ Returned(o, found).stage = "deliver" /\ Returned(o, found).found = found
         /\ Returned(o, found).kind = o.kind /\ Returned(o, found).profile = o.profile
         /\ Returned(o, found).copy = o.copy /\ Returned(o, found).draft = o.draft
         /\ Returned(o, found).candidate = o.candidate
  <1>1. 0 \in 0..MaxRev /\ 0 \in 0..MaxActs /\ Unchecked \in 0..MaxRev \cup {Unchecked}
    BY HistoryConstants, ServiceConstants
  <1> HIDE DEF Held
  <1> QED
    BY <1>1 DEF Returned, Op

LEMMA ActiveHeldType ==
  ASSUME TypeOK, ActsFollowTable, NEW p \in Profiles, acts[p] # <<>>
  PROVE  /\ Len(acts[p]) \in 1..MaxActs
         /\ ActiveRev(p) \in Revisions /\ Exists(ActiveRev(p))
         /\ ActiveRev(p) = acts[p][Len(acts[p])]
         /\ ActiveHeld(p) \in Held /\ ActiveHeld(p) # Nothing
         /\ ActiveHeld(p).revision = ActiveRev(p) /\ ActiveHeld(p).index = Len(acts[p])
         /\ ActiveHeld(p).source = "postgresql"
  <1>1. acts[p] \in Seq(Revisions) /\ Len(acts[p]) <= MaxActs
    BY DEF TypeOK
  <1>2. Len(acts[p]) \in 1..MaxActs
    BY <1>1, EmptySeq, LenProperties, ServiceConstants
  <1>3. ActiveRev(p) = acts[p][Len(acts[p])]
    BY DEF ActiveRev
  <1>4. ActiveRev(p) \in Revisions /\ Exists(ActiveRev(p))
    BY <1>2, <1>3 DEF ActsFollowTable
  <1>5. ActiveRev(p) \in 1..MaxRev
    BY <1>4 DEF Revisions
  <1> QED
    BY <1>2, <1>3, <1>4, <1>5, HistoryConstants, ServiceConstants
       DEF ActiveHeld, FromDatabase, Held, Nothing

LEMMA ActiveRevType ==
  ASSUME TypeOK, ActsFollowTable, NEW p \in Profiles
  PROVE  ActiveRev(p) \in 0..MaxRev
  BY ActiveHeldType, HistoryConstants DEF ActiveRev, Revisions

(* What was activated is a committed, activated row of its profile.        *)
LEMMA ActivatedRow ==
  ASSUME ActsFollowTable, NEW h \in Procs, NEW p \in Profiles, NEW held,
         WasActivated(h, p, held), held # Nothing
  PROVE  /\ held.revision \in Revisions /\ Exists(held.revision)
         /\ rows[held.revision].profile = p /\ rows[held.revision].activated
         /\ held.revision # 0
  <1>1. held.index \in 1..Len(acts[p]) /\ acts[p][held.index] = held.revision
    BY DEF WasActivated
  <1> QED
    BY <1>1, HistoryConstants DEF ActsFollowTable, Revisions

LEMMA ExistingRow ==
  ASSUME TypeOK, NEW r \in Revisions, Exists(r)
  PROVE  rows[r] \in Row
  BY DEF TypeOK, HistoryTypeOK, Exists

-----------------------------------------------------------------------------
(* History only grows                                                      *)

HistoryGrows ==
  /\ \A q \in Revisions : Exists(q) =>
       /\ Exists(q)'
       /\ rows'[q].profile = rows[q].profile /\ rows'[q].payload = rows[q].payload
       /\ rows[q].activated => rows'[q].activated
  /\ \A p \in Profiles :
       \A i \in 1..Len(acts[p]) : i \in 1..Len(acts'[p]) /\ acts'[p][i] = acts[p][i]

LEMMA NothingWritten ==
  ASSUME rows' = rows, acts' = acts
  PROVE  HistoryGrows
  BY DEF HistoryGrows, Exists

LEMMA CreateGrows ==
  ASSUME HistoryInv, acts' = acts,
         NEW r \in Revisions, NEW p \in Profiles, NEW d \in Payloads, Create(r, p, d)
  PROVE  HistoryGrows
  BY CreateStep DEF HistoryGrows, Exists

LEMMA ActivateKeepsActivated ==
  ASSUME HistoryInv, NEW r \in Revisions, Activate(r), NEW q \in Revisions,
         Exists(q), rows[q].activated
  PROVE  rows'[q].activated
  <1>1. HistoryInv' /\ Exists(q)' /\ rows'[r].status = "active"
        /\ (q # r /\ rows'[q] # rows[q] => rows'[q].status = "superseded")
    BY ActivateHistory
  <1>2. rows'[q].status \in {"active", "superseded"}
    BY <1>1 DEF HistoryInv, ActivatedMeansValidated
  <1> QED
    BY <1>1, <1>2 DEF HistoryInv, ActivatedMeansValidated

LEMMA ActivateGrows ==
  ASSUME TypeOK, HistoryInv, NEW r \in Revisions, Activate(r), NEW p \in Profiles,
         acts' = [acts EXCEPT ![p] = Append(@, r)]
  PROVE  HistoryGrows
  <1>1. \A q \in Revisions : Exists(q) =>
          /\ Exists(q)'
          /\ rows'[q].profile = rows[q].profile /\ rows'[q].payload = rows[q].payload
          /\ rows[q].activated => rows'[q].activated
    BY ActivateHistory, ActivateKeepsActivated
  <1>2. ASSUME NEW h \in Profiles, NEW i \in 1..Len(acts[h])
        PROVE  i \in 1..Len(acts'[h]) /\ acts'[h][i] = acts[h][i]
    <2>1. acts[h] \in Seq(Revisions)
      BY DEF TypeOK
    <2>2. acts'[h] = IF h = p THEN Append(acts[p], r) ELSE acts[h]
      BY DEF TypeOK
    <2>3. CASE h = p
      <3>1. acts[h] \in Seq(Revisions) /\ acts'[h] = Append(acts[h], r)
        BY <2>1, <2>2, <2>3
      <3>2. /\ Len(acts'[h]) = Len(acts[h]) + 1 /\ Len(acts[h]) \in Nat
            /\ \A j \in 1..Len(acts[h]) : acts'[h][j] = acts[h][j]
        BY <3>1, AppendProperties, LenProperties
      <3> QED
        BY <3>2
    <2> QED
      BY <2>2, <2>3
  <1> QED
    BY <1>1, <1>2 DEF HistoryGrows

(* What was activated stays so.                                            *)
LEMMA WasActivatedGrows ==
  ASSUME ActsFollowTable, HistoryGrows, NEW h \in Procs, NEW p \in Profiles, NEW held,
         WasActivated(h, p, held)
  PROVE  WasActivated(h, p, held)'
  BY ActivatedRow DEF WasActivated, HistoryGrows

LEMMA CallSoundGrows ==
  ASSUME ActsFollowTable, HistoryGrows, NEW h \in Procs, NEW o \in Op \cup {Idle},
         CallSound(h, o)
  PROVE  CallSound(h, o)'
  <1>1. CASE o = Idle
    BY <1>1 DEF CallSound, Idle
  <1>2. CASE o \in Op
    <2>1. o.profile \in Profiles
      BY <1>2 DEF Op
    <2>2. o.stage = "deliver" => WasActivated(h, o.profile, o.found)'
      BY <2>1, WasActivatedGrows DEF CallSound
    <2>3. o.stage = "deliver" /\ o.found # Nothing =>
            o.found.revision \in Revisions /\ Exists(o.found.revision)
      BY <2>1, ActivatedRow DEF CallSound
    <2> QED
      BY <2>2, <2>3 DEF CallSound, HistoryGrows
  <1> QED
    BY <1>1, <1>2

-----------------------------------------------------------------------------
(* Counting the calls under way                                            *)

(* Sets that differ in x only differ in size by x only.                    *)
LEMMA CountSwap ==
  ASSUME NEW S, NEW T, NEW x, IsFiniteSet(S), T \ {x} = S \ {x}
  PROVE  /\ IsFiniteSet(T) /\ Cardinality(S) \in Nat /\ Cardinality(T) \in Nat
         /\ x \in S /\ x \notin T => Cardinality(T) = Cardinality(S) - 1
         /\ x \notin S /\ x \in T => Cardinality(T) = Cardinality(S) + 1
         /\ (x \in S <=> x \in T) => Cardinality(T) = Cardinality(S)
  <1>0. Cardinality(S) \in Nat
    BY FS_CardinalityType
  <1>1. CASE x \in S /\ x \notin T
    <2>1. T = S \ {x}
      BY <1>1
    <2> QED
      BY <1>0, <1>1, <2>1, FS_RemoveElement, FS_CardinalityType
  <1>2. CASE x \notin S /\ x \in T
    <2>1. T = S \cup {x}
      BY <1>2
    <2> QED
      BY <1>0, <1>2, <2>1, FS_AddElement, FS_CardinalityType
  <1>3. CASE x \in S <=> x \in T
    <2>1. T = S
      BY <1>3
    <2> QED
      BY <1>0, <1>3, <2>1
  <1> QED
    BY <1>1, <1>2, <1>3

LEMMA CallsFinite ==
  /\ IsFiniteSet(Creating) /\ Cardinality(Creating) \in Nat
  /\ \A p : IsFiniteSet(Activating(p)) /\ Cardinality(Activating(p)) \in Nat
  <1>1. IsFiniteSet(Procs \X Workers)
    BY FS_Product, ServiceConstants
  <1>2. Creating \subseteq Procs \X Workers /\ \A p : Activating(p) \subseteq Procs \X Workers
    BY DEF Creating, Activating
  <1> QED
    BY <1>1, <1>2, FS_Subset, FS_CardinalityType

MayActivate(o, p) == o.stage \in {"create", "activate"} /\ o.profile = p

LEMMA CallsCounted ==
  ASSUME NEW h \in Procs, NEW w \in Workers
  PROVE  /\ <<h, w>> \in Creating <=> op[h][w].stage = "create"
         /\ \A p : <<h, w>> \in Activating(p) <=> MayActivate(op[h][w], p)
  BY DEF Creating, Activating, MayActivate

(* A step of one call changes the count by that call.                      *)
LEMMA OneCallCounted ==
  ASSUME NEW h \in Procs, NEW w \in Workers,
         op \in [Procs -> [Workers -> Op \cup {Idle}]],
         op' = [op EXCEPT ![h][w] = op'[h][w]]
  PROVE  /\ Cardinality(Creating) \in Nat /\ Cardinality(Creating') \in Nat
         /\ op[h][w].stage = "create" /\ op'[h][w].stage # "create"
              => Cardinality(Creating') = Cardinality(Creating) - 1
         /\ op[h][w].stage # "create" /\ op'[h][w].stage = "create"
              => Cardinality(Creating') = Cardinality(Creating) + 1
         /\ (op[h][w].stage = "create" <=> op'[h][w].stage = "create")
              => Cardinality(Creating') = Cardinality(Creating)
         /\ \A p \in Profiles :
              /\ Cardinality(Activating(p)) \in Nat /\ Cardinality(Activating(p)') \in Nat
              /\ MayActivate(op[h][w], p) /\ ~MayActivate(op'[h][w], p)
                   => Cardinality(Activating(p)') = Cardinality(Activating(p)) - 1
              /\ ~MayActivate(op[h][w], p) /\ MayActivate(op'[h][w], p)
                   => Cardinality(Activating(p)') = Cardinality(Activating(p)) + 1
              /\ (MayActivate(op[h][w], p) <=> MayActivate(op'[h][w], p))
                   => Cardinality(Activating(p)') = Cardinality(Activating(p))
  <1>1. \A x \in Procs \X Workers : x # <<h, w>> => op'[x[1]][x[2]] = op[x[1]][x[2]]
    OBVIOUS
  <1>2. Creating' \ {<<h, w>>} = Creating \ {<<h, w>>}
    BY <1>1 DEF Creating
  <1>3. \A p : Activating(p)' \ {<<h, w>>} = Activating(p) \ {<<h, w>>}
    BY <1>1 DEF Activating
  <1>4. <<h, w>> \in Creating' <=> op'[h][w].stage = "create"
    BY DEF Creating
  <1>5. \A p \in Profiles : <<h, w>> \in Activating(p)' <=> MayActivate(op'[h][w], p)
    BY DEF Activating, MayActivate
  <1>6. \A p \in Profiles :
           /\ Cardinality(Activating(p)) \in Nat /\ Cardinality(Activating(p)') \in Nat
           /\ <<h, w>> \in Activating(p) /\ <<h, w>> \notin Activating(p)'
                => Cardinality(Activating(p)') = Cardinality(Activating(p)) - 1
           /\ <<h, w>> \notin Activating(p) /\ <<h, w>> \in Activating(p)'
                => Cardinality(Activating(p)') = Cardinality(Activating(p)) + 1
           /\ (<<h, w>> \in Activating(p) <=> <<h, w>> \in Activating(p)')
                => Cardinality(Activating(p)') = Cardinality(Activating(p))
    <2> TAKE p \in Profiles
    <2>1. /\ IsFiniteSet(Activating(p)) /\ Cardinality(Activating(p)) \in Nat
          /\ Activating(p)' \ {<<h, w>>} = Activating(p) \ {<<h, w>>}
      BY <1>3, CallsFinite
    <2> QED
      BY <2>1, CountSwap
  <1>7. /\ Cardinality(Creating) \in Nat /\ Cardinality(Creating') \in Nat
        /\ <<h, w>> \in Creating /\ <<h, w>> \notin Creating'
             => Cardinality(Creating') = Cardinality(Creating) - 1
        /\ <<h, w>> \notin Creating /\ <<h, w>> \in Creating'
             => Cardinality(Creating') = Cardinality(Creating) + 1
        /\ (<<h, w>> \in Creating <=> <<h, w>> \in Creating')
             => Cardinality(Creating') = Cardinality(Creating)
    BY <1>2, CallsFinite, CountSwap
  <1> QED
    BY <1>4, <1>5, <1>6, <1>7, CallsCounted

-----------------------------------------------------------------------------
(* What a step leaves alone                                                *)

(* A call without write keeps what is said of the table.                   *)
LEMMA SameDatabase ==
  ASSUME IInv, rows' = rows, acts' = acts, nextRev' \in Nat, nextRev' >= nextRev
  PROVE  HistoryGrows /\ HistoryInv' /\ NumbersFresh' /\ ActsFollowTable'
  <1>1. nextRev \in Nat
    BY HistoryConstants DEF IInv, TypeOK
  <1>2. HistoryGrows
    BY NothingWritten
  <1>3. HistoryInv'
    BY HistoryStep DEF IInv
  <1>4. NumbersFresh'
    BY <1>1, HistoryConstants DEF IInv, NumbersFresh, Exists, Revisions
  <1>5. ActsFollowTable'
    BY DEF IInv, ActsFollowTable, ActiveRows, ActiveRev, Exists
  <1> QED
    BY <1>2, <1>3, <1>4, <1>5

(* One call of h takes a step; the others know what they knew.             *)
LEMMA OneCallSteps ==
  ASSUME IInv, NEW h \in Procs, NEW w \in Workers,
         op' = [op EXCEPT ![h][w] = op'[h][w]],
         op[h][w] # Idle \/ LockFree(h), HistoryGrows,
         CallSound(h, op[h][w])'
  PROVE  OneCall' /\ CallsSound'
  <1>1. op \in [Procs -> [Workers -> Op \cup {Idle}]]
    BY DEF IInv, TypeOK
  <1>2. \A g \in Procs, v \in Workers : <<g, v>> # <<h, w>> => op'[g][v] = op[g][v]
    BY <1>1
  <1>3. OneCall'
    BY <1>2 DEF IInv, OneCall, LockFree
  <1>4. ASSUME NEW g \in Procs, NEW v \in Workers PROVE CallSound(g, op[g][v])'
    <2>1. CASE g = h /\ v = w
      BY <2>1
    <2>2. CASE <<g, v>> # <<h, w>>
      <3>1. op'[g][v] = op[g][v] /\ op[g][v] \in Op \cup {Idle}
        BY <1>1, <1>2, <2>2
      <3>2. CallSound(g, op[g][v])
        BY DEF IInv, CallsSound
      <3> QED
        BY <3>1, <3>2, CallSoundGrows DEF IInv
    <2> QED
      BY <2>1, <2>2
  <1> QED
    BY <1>3, <1>4 DEF CallsSound

LEMMA InstalledGrows ==
  ASSUME IInv, HistoryGrows, runtime' = runtime, lkg' = lkg
  PROVE  InstalledSound'
  <1> SUFFICES ASSUME NEW h \in Procs, NEW p \in Profiles
               PROVE  WasActivated(h, p, runtime[h][p])' /\ WasActivated(h, p, lkg[h][p])'
    BY DEF InstalledSound
  <1>1. WasActivated(h, p, runtime[h][p]) /\ WasActivated(h, p, lkg[h][p])
    BY DEF IInv, InstalledSound
  <1> QED
    BY <1>1, WasActivatedGrows DEF IInv

(* A step that neither creates nor activates, nor makes a call that may.   *)
LEMMA RoomUntouched ==
  ASSUME IInv, NEW h \in Procs, NEW w \in Workers,
         op' = [op EXCEPT ![h][w] = op'[h][w]],
         op'[h][w].stage \notin {"create", "activate"},
         acts' = acts, nextRev' = nextRev
  PROVE  RoomIsKept'
  <1>1. /\ nextRev \in Nat /\ \A p \in Profiles : Len(acts[p]) \in Nat
        /\ op \in [Procs -> [Workers -> Op \cup {Idle}]]
    BY HistoryConstants, LenProperties DEF IInv, TypeOK
  <1>2. /\ Cardinality(Creating) \in Nat /\ Cardinality(Creating') \in Nat
        /\ Cardinality(Creating') <= Cardinality(Creating)
    BY <1>1, OneCallCounted
  <1>3. ASSUME NEW p \in Profiles
        PROVE  /\ Cardinality(Activating(p)) \in Nat /\ Cardinality(Activating(p)') \in Nat
               /\ Cardinality(Activating(p)') <= Cardinality(Activating(p))
    <2>1. ~MayActivate(op'[h][w], p)
      BY DEF MayActivate
    <2> QED
      BY <1>1, <2>1, OneCallCounted
  <1>4. nextRev + Cardinality(Creating) <= MaxRev + 1
        /\ \A p \in Profiles : Len(acts[p]) + Cardinality(Activating(p)) <= MaxActs
    BY DEF IInv, RoomIsKept
  <1>5. nextRev' + Cardinality(Creating') <= MaxRev + 1
    BY <1>1, <1>2, <1>4, HistoryConstants
  <1>6. ASSUME NEW p \in Profiles
        PROVE  Len(acts'[p]) + Cardinality(Activating(p)') <= MaxActs
    <2>1. /\ Len(acts[p]) \in Nat /\ acts'[p] = acts[p]
          /\ Len(acts[p]) + Cardinality(Activating(p)) <= MaxActs
      BY <1>1, <1>4
    <2> QED
      BY <1>3, <2>1, ServiceConstants
  <1> QED
    BY <1>5, <1>6, Zenon DEF RoomIsKept

(* A call that reads, reports or delivers: the database stays as it is.    *)
LEMMA QuietCall ==
  ASSUME IInv, NEW h \in Procs, NEW w \in Workers,
         op' = [op EXCEPT ![h][w] = op'[h][w]], op'[h][w] \in Op \cup {Idle},
         op'[h][w].stage \notin {"create", "activate"},
         op[h][w] # Idle \/ LockFree(h),
         rows' = rows, nextRev' = nextRev, acts' = acts,
         runtime' \in [Procs -> [Profiles -> Held]], lkg' \in [Procs -> [Profiles -> Held]],
         drafts' \in [Procs -> [DraftIds -> Draft \cup {NoDraft}]],
         stamp' \in 0..MaxStamp, faults' \in 0..MaxFaults,
         CallSound(h, op[h][w])', InstalledSound'
  PROVE  IInv'
  <1>1. nextRev \in Nat
    BY HistoryConstants DEF IInv, TypeOK
  <1>2. HistoryGrows /\ HistoryInv' /\ NumbersFresh' /\ ActsFollowTable'
    BY <1>1, SameDatabase
  <1>3. OneCall' /\ CallsSound'
    BY <1>2, OneCallSteps
  <1>4. RoomIsKept'
    BY RoomUntouched
  <1>5. TypeOK'
    <2>1. op \in [Procs -> [Workers -> Op \cup {Idle}]]
      BY DEF IInv, TypeOK
    <2>2. \A o \in Op \cup {Idle} :
            [op EXCEPT ![h][w] = o] \in [Procs -> [Workers -> Op \cup {Idle}]]
      BY <2>1
    <2>3. op' \in [Procs -> [Workers -> Op \cup {Idle}]]
      BY <2>2
    <2> QED
      BY <1>2, <2>3 DEF IInv, TypeOK, HistoryInv
  <1> QED
    BY <1>2, <1>3, <1>4, <1>5 DEF IInv

LEMMA ResourcedType ==
  ASSUME NEW a \in Held, NEW b \in Held
  PROVE  /\ [a EXCEPT !.source = b.source] \in Held
         /\ [a EXCEPT !.source = b.source].revision = a.revision
         /\ [a EXCEPT !.source = b.source].index = a.index
  BY DEF Held

(* The handoff of what a call found to the cache and to the runtime.       *)
LEMMA HandedOver ==
  ASSUME IInv, NEW h \in Procs, NEW w \in Workers, op[h][w].stage = "deliver",
         rows' = rows, acts' = acts,
         lkg' = lkg \/ lkg' = [lkg EXCEPT ![h][op[h][w].profile] = op[h][w].found],
         runtime' = runtime \/ Install(h, op[h][w].profile, op[h][w].found)
  PROVE  /\ InstalledSound'
         /\ runtime' \in [Procs -> [Profiles -> Held]] /\ lkg' \in [Procs -> [Profiles -> Held]]
  <1> DEFINE p == op[h][w].profile
             found == op[h][w].found
             resourced == [runtime[h][p] EXCEPT !.source = found.source]
  <1>1. op[h][w] \in Op /\ p \in Profiles /\ found \in Held
    BY NothingsType DEF IInv, TypeOK, Idle, Op
  <1>2. runtime \in [Procs -> [Profiles -> Held]] /\ lkg \in [Procs -> [Profiles -> Held]]
    BY DEF IInv, TypeOK
  <1>3. WasActivated(h, p, found)
    BY DEF IInv, CallsSound, CallSound
  <1>4. WasActivated(h, p, runtime[h][p])
    BY <1>1 DEF IInv, InstalledSound
  <1>5. resourced \in Held /\ resourced.revision = runtime[h][p].revision
        /\ resourced.index = runtime[h][p].index /\ runtime[h][p] \in Held
    BY <1>1, <1>2, ResourcedType
  <1>6. runtime[h][p].revision = found.revision /\ runtime[h][p].index > found.index
        => WasActivated(h, p, resourced)
    <2>1. found.index \in Nat /\ Nothing.index = 0
      BY <1>1, ServiceConstants, NothingsType DEF Held
    <2> HIDE DEF resourced, found, p
    <2>2. runtime[h][p].index > found.index => runtime[h][p] # Nothing
      BY <2>1
    <2> QED
      BY <1>4, <1>5, <2>2 DEF WasActivated
  <1> HIDE DEF resourced, found, p
  <1>7. \A g \in Procs, q \in Profiles :
          lkg'[g][q] = lkg[g][q] \/ (g = h /\ q = p /\ lkg'[g][q] = found)
    BY <1>1, <1>2 DEF p, found
  <1>8. lkg' \in [Procs -> [Profiles -> Held]]
    <2>1. [lkg EXCEPT ![h][p] = found] \in [Procs -> [Profiles -> Held]]
      BY <1>1, <1>2
    <2> QED
      BY <1>2, <2>1 DEF p, found
  <1>9. \/ runtime' = runtime
        \/ /\ runtime' = [runtime EXCEPT ![h][p] = resourced]
           /\ runtime[h][p].revision = found.revision /\ runtime[h][p].index > found.index
        \/ runtime' = [runtime EXCEPT ![h][p] = found]
    BY <1>1, <1>2 DEF Install, resourced, p, found
  <1>10. /\ runtime' \in [Procs -> [Profiles -> Held]]
         /\ \A g \in Procs, q \in Profiles :
              \/ runtime'[g][q] = runtime[g][q]
              \/ g = h /\ q = p /\ runtime'[g][q] = found
              \/ /\ g = h /\ q = p /\ runtime'[g][q] = resourced
                 /\ runtime[h][p].revision = found.revision /\ runtime[h][p].index > found.index
    <2> HIDE DEF Held
    <2>1. CASE runtime' = runtime
      BY <1>2, <2>1
    <2>2. CASE /\ runtime' = [runtime EXCEPT ![h][p] = resourced]
               /\ runtime[h][p].revision = found.revision /\ runtime[h][p].index > found.index
      BY <1>1, <1>2, <1>5, <2>2
    <2>3. CASE runtime' = [runtime EXCEPT ![h][p] = found]
      BY <1>1, <1>2, <2>3
    <2> QED
      BY <1>9, <2>1, <2>2, <2>3
  <1>11. HistoryGrows
    BY NothingWritten
  <1>12. ASSUME NEW g \in Procs, NEW q \in Profiles
         PROVE  WasActivated(g, q, runtime[g][q])' /\ WasActivated(g, q, lkg[g][q])'
    <2>1. WasActivated(g, q, runtime'[g][q])
      BY <1>3, <1>6, <1>10 DEF IInv, InstalledSound, p, found
    <2>2. WasActivated(g, q, lkg'[g][q])
      BY <1>3, <1>7 DEF IInv, InstalledSound, p, found
    <2> QED
      BY <2>1, <2>2 DEF WasActivated
  <1> QED
    BY <1>8, <1>10, <1>12 DEF InstalledSound

-----------------------------------------------------------------------------
(* One lemma per action                                                    *)

LEMMA NewOpType ==
  ASSUME NEW kind \in {"read", "export", "open", "save", "rollback"},
         NEW stage \in {"query", "create", "activate", "deliver"}, NEW p \in Profiles
  PROVE  NewOp(kind, stage, p) \in Op
  <1>1. 0 \in 0..MaxRev /\ 0 \in 0..MaxActs /\ Unchecked \in 0..MaxRev \cup {Unchecked}
        /\ Nothing \in Held
    BY HistoryConstants, ServiceConstants, NothingsType
  <1> QED
    BY <1>1 DEF NewOp, Op

LEMMA BeginReadInv ==
  ASSUME IInv, NEW h \in Procs, NEW w \in Workers, NEW kind \in Readers, NEW p \in Profiles,
         BeginRead(h, w, kind, p)
  PROVE  IInv'
  <1> DEFINE o == [NewOp(kind, "query", p) EXCEPT !.seen = Len(acts[p])]
  <1>1. Len(acts[p]) \in 0..MaxActs
    BY LenProperties DEF IInv, TypeOK
  <1>2. o \in Op /\ o.stage = "query" /\ o.kind = kind
    BY <1>1, NewOpType, ServiceConstants DEF Op, NewOp
  <1>3. op' = [op EXCEPT ![h][w] = o] /\ LockFree(h)
        /\ UNCHANGED <<rows, nextRev, acts, runtime, lkg, drafts, stamp, faults>>
    BY DEF BeginRead, Begin
  <1>4. op'[h][w] = o
    BY <1>3 DEF IInv, TypeOK
  <1>5. CallSound(h, op[h][w])'
    BY <1>2, <1>4, ServiceConstants DEF CallSound
  <1>6. InstalledSound'
    BY <1>3, NothingWritten, InstalledGrows
  <1> QED
    BY <1>2, <1>3, <1>4, <1>5, <1>6, QuietCall DEF IInv, TypeOK

(* A call in a stage is a call, of a known profile.                        *)
LEMMA CallType ==
  ASSUME IInv, NEW h \in Procs, NEW w \in Workers, op[h][w].stage # "idle"
  PROVE  /\ op[h][w] \in Op /\ op[h][w] # Idle
         /\ op[h][w].profile \in Profiles /\ op[h][w].found \in Held
         /\ CallSound(h, op[h][w])
         /\ op \in [Procs -> [Workers -> Op \cup {Idle}]]
  <1>1. op \in [Procs -> [Workers -> Op \cup {Idle}]] /\ CallSound(h, op[h][w])
    BY DEF IInv, TypeOK, CallsSound
  <1>2. op[h][w] \in Op /\ op[h][w] # Idle
    BY <1>1, NothingsType DEF Idle
  <1> QED
    BY <1>1, <1>2 DEF Op

(* The repository has returned found, which was activated in the profile.  *)
LEMMA ReturnedInv ==
  ASSUME IInv, NEW h \in Procs, NEW w \in Workers, op[h][w].stage # "idle",
         NEW found \in Held, Continue(h, w, Returned(op[h][w], found)),
         WasActivated(h, op[h][w].profile, found),
         op[h][w].kind \in {"save", "rollback"} => found # Nothing,
         op[h][w].kind = "save" =>
            /\ op[h][w].copy \in Draft /\ op[h][w].draft \in DraftIds
            /\ op[h][w].candidate = found.revision
            /\ rows[op[h][w].candidate].payload = op[h][w].copy.payload,
         UNCHANGED <<rows, nextRev, acts, runtime, lkg, drafts, stamp>>,
         faults' \in 0..MaxFaults
  PROVE  IInv'
  <1> DEFINE o == Returned(op[h][w], found)
  <1>1. op[h][w] \in Op /\ op[h][w] # Idle
    BY CallType
  <1>2. /\ o \in Op /\ o.stage = "deliver" /\ o.found = found /\ o.kind = op[h][w].kind
        /\ o.profile = op[h][w].profile /\ o.copy = op[h][w].copy /\ o.draft = op[h][w].draft
        /\ o.candidate = op[h][w].candidate
    BY <1>1, ReturnedType
  <1> HIDE DEF o
  <1>3. op' = [op EXCEPT ![h][w] = o]
    BY DEF Continue, o
  <1>4. op'[h][w] = o
    BY <1>3 DEF IInv, TypeOK
  <1>5. CallSound(h, op[h][w])'
    BY <1>2, <1>4 DEF CallSound, WasActivated
  <1>6. InstalledSound'
    BY NothingWritten, InstalledGrows
  <1> QED
    BY <1>1, <1>2, <1>3, <1>4, <1>5, <1>6, QuietCall DEF IInv, TypeOK

(* A call ends without writing to the database.                            *)
LEMMA FinishInv ==
  ASSUME IInv, NEW h \in Procs, NEW w \in Workers, op[h][w].stage # "idle",
         Finish(h, w), UNCHANGED <<rows, nextRev, acts>>,
         runtime' \in [Procs -> [Profiles -> Held]], lkg' \in [Procs -> [Profiles -> Held]],
         drafts' \in [Procs -> [DraftIds -> Draft \cup {NoDraft}]],
         stamp' \in 0..MaxStamp, faults' \in 0..MaxFaults, InstalledSound'
  PROVE  IInv'
  <1>1. op' = [op EXCEPT ![h][w] = Idle] /\ op[h][w] # Idle
    BY CallType DEF Finish
  <1>2. op'[h][w] = Idle
    BY <1>1 DEF IInv, TypeOK
  <1>3. CallSound(h, op[h][w])'
    BY <1>2 DEF CallSound, Idle
  <1> QED
    <2>1. op' = [op EXCEPT ![h][w] = op'[h][w]] /\ op'[h][w] \in Op \cup {Idle}
      BY <1>1, <1>2
    <2>2. op'[h][w].stage \notin {"create", "activate"}
      BY <1>2 DEF Idle
    <2> QED
      BY <1>1, <1>3, <2>1, <2>2, QuietCall

LEMMA FaultType ==
  ASSUME IInv
  PROVE  (Fault => faults' \in 0..MaxFaults) /\ (NoFault => faults' \in 0..MaxFaults)
  BY ServiceConstants DEF IInv, TypeOK, Fault, NoFault

(* The active revision, as this process holds it, was activated.           *)
LEMMA ActiveHeldSound ==
  ASSUME IInv, NEW h \in Procs, NEW p \in Profiles, acts[p] # <<>>,
         rows[ActiveRev(p)].payload \in Valid[h]
  PROVE  ActiveHeld(p) \in Held /\ ActiveHeld(p) # Nothing /\ WasActivated(h, p, ActiveHeld(p))
         /\ ActiveHeld(p).revision = ActiveRev(p)
  <1>1. ActiveHeld(p).index \in 1..Len(acts[p])
    BY ActiveHeldType DEF IInv
  <1> QED
    BY <1>1, ActiveHeldType DEF IInv, WasActivated

LEMMA QueryInv ==
  ASSUME IInv, NEW h \in Procs, NEW w \in Workers, QueryActive(h, w) \/ QueryNothing(h, w)
  PROVE  IInv'
  <1> DEFINE p == op[h][w].profile
  <1>1. op[h][w].stage = "query"
    BY DEF QueryActive, QueryNothing
  <1>2. op[h][w] \in Op /\ p \in Profiles /\ op[h][w].kind \in {"read", "export", "open"}
    BY <1>1, CallType DEF CallSound
  <1>3. UNCHANGED <<rows, nextRev, acts, runtime, lkg, drafts, stamp, faults>>
    BY DEF QueryActive, QueryNothing
  <1>4. faults' \in 0..MaxFaults
    BY <1>3 DEF IInv, TypeOK
  <1>5. CASE QueryActive(h, w)
    <2>1. ActiveHeld(p) \in Held /\ WasActivated(h, p, ActiveHeld(p))
          /\ Continue(h, w, Returned(op[h][w], ActiveHeld(p)))
      BY <1>2, <1>5, ActiveHeldSound DEF QueryActive
    <2> QED
      BY <1>1, <1>2, <1>3, <1>4, <2>1, ReturnedInv
  <1>6. CASE QueryNothing(h, w)
    <2>1. Nothing \in Held /\ WasActivated(h, p, Nothing)
          /\ Continue(h, w, Returned(op[h][w], Nothing))
      BY <1>6, NothingsType DEF QueryNothing, WasActivated
    <2> QED
      BY <1>1, <1>2, <1>3, <1>4, <2>1, ReturnedInv
  <1> QED
    BY <1>5, <1>6

LEMMA LoadLkgInv ==
  ASSUME IInv, NEW h \in Procs, NEW w \in Workers, LoadLkg(h, w)
  PROVE  IInv'
  <1> DEFINE p == op[h][w].profile
             record == lkg[h][p]
             found == [record EXCEPT !.source = "last_known_good"]
  <1>1. op[h][w].stage = "query" /\ (Fault \/ NoFault)
        /\ UNCHANGED <<rows, nextRev, acts, runtime, lkg, drafts, stamp>>
    BY DEF LoadLkg
  <1>2. op[h][w] \in Op /\ p \in Profiles /\ op[h][w].kind \in {"read", "export", "open"}
    BY <1>1, CallType DEF CallSound
  <1>3. faults' \in 0..MaxFaults
    BY <1>1, FaultType
  <1>4. record \in Held /\ WasActivated(h, p, record)
    BY <1>2 DEF IInv, TypeOK, InstalledSound
  <1>5. CASE Finish(h, w)
    <2>1. InstalledSound'
      BY <1>1, NothingWritten, InstalledGrows
    <2> QED
      BY <1>1, <1>3, <1>5, <2>1, FinishInv DEF IInv, TypeOK
  <1>6. CASE record.revision # 0 /\ rows[record.revision].payload \in Valid[h]
             /\ Continue(h, w, Returned(op[h][w], found))
    <2>1. found \in Held /\ found.revision = record.revision /\ found.index = record.index
      BY <1>4 DEF Held
    <2>2. record # Nothing
      BY <1>6, NothingsType
    <2>3. WasActivated(h, p, found)
      BY <1>4, <2>1, <2>2 DEF WasActivated
    <2> QED
      BY <1>1, <1>2, <1>3, <1>6, <2>1, <2>3, ReturnedInv
  <1> QED
    BY <1>5, <1>6 DEF LoadLkg

LEMMA DeliverReadInv ==
  ASSUME IInv, NEW h \in Procs, NEW w \in Workers, DeliverRead(h, w)
  PROVE  IInv'
  <1> DEFINE p == op[h][w].profile
             found == op[h][w].found
  <1>1. op[h][w].stage = "deliver" /\ Finish(h, w) /\ UNCHANGED <<rows, nextRev, acts>>
    BY DEF DeliverRead
  <1>2. p \in Profiles /\ found \in Held /\ WasActivated(h, p, found)
    BY <1>1, CallType DEF CallSound
  <1>3. /\ lkg' = lkg \/ lkg' = [lkg EXCEPT ![h][p] = found]
        /\ runtime' = runtime \/ Install(h, p, found)
    BY DEF DeliverRead, SaveCache
  <1>4. faults' \in 0..MaxFaults
    <2>1. Fault \/ NoFault
      BY DEF DeliverRead, SaveCache, NoFault
    <2> QED
      BY <2>1, FaultType
  <1>5. drafts' \in [Procs -> [DraftIds -> Draft \cup {NoDraft}]] /\ stamp' \in 0..MaxStamp
    <2>1. CASE UNCHANGED <<drafts, stamp>>
      BY <2>1 DEF IInv, TypeOK
    <2>2. CASE OpenDraft(h, p, found.revision)
      <3>1. PICK d \in DraftIds, imported \in Valid[h] \cup {"none"} :
              /\ stamp < MaxStamp /\ stamp' = stamp + 1
              /\ drafts' = [drafts EXCEPT ![h][d] =
                   [profile |-> p, base |-> found.revision, stamp |-> stamp + 1,
                    payload |-> IF imported # "none" THEN imported
                                ELSE IF found.revision = 0 THEN Empty
                                ELSE rows[found.revision].payload]]
        BY <2>2 DEF OpenDraft
      <3> DEFINE payload == IF imported # "none" THEN imported
                            ELSE IF found.revision = 0 THEN Empty ELSE rows[found.revision].payload
                 draft == [profile |-> p, base |-> found.revision, stamp |-> stamp + 1,
                           payload |-> payload]
      <3>2. found.revision # 0 => rows[found.revision] \in Row
        BY <1>2, ActivatedRow, ExistingRow, NothingsType DEF IInv
      <3>3. payload \in Payloads
        BY <3>2, HistoryConstants, ServiceConstants DEF Row
      <3>4. stamp \in 0..MaxStamp /\ stamp + 1 \in 1..MaxStamp
        BY <3>1, ServiceConstants DEF IInv, TypeOK
      <3> HIDE DEF payload
      <3>5. draft \in Draft
        BY <1>2, <3>3, <3>4 DEF Draft, Held
      <3>6. drafts' = [drafts EXCEPT ![h][d] = draft]
        BY <3>1 DEF payload
      <3> HIDE DEF draft
      <3>7. drafts' \in [Procs -> [DraftIds -> Draft \cup {NoDraft}]]
        BY <3>5, <3>6 DEF IInv, TypeOK
      <3>8. stamp' \in 0..MaxStamp
        BY <3>1, <3>4
      <3> QED
        BY <3>7, <3>8
    <2> QED
      BY <2>1, <2>2 DEF DeliverRead
  <1>6. /\ InstalledSound'
        /\ runtime' \in [Procs -> [Profiles -> Held]] /\ lkg' \in [Procs -> [Profiles -> Held]]
    BY <1>1, <1>3, HandedOver
  <1> QED
    BY <1>1, <1>4, <1>5, <1>6, FinishInv

LEMMA DeliverActivatedInv ==
  ASSUME IInv, NEW h \in Procs, NEW w \in Workers, DeliverActivated(h, w)
  PROVE  IInv'
  <1> DEFINE p == op[h][w].profile
             found == op[h][w].found
  <1>1. op[h][w].stage = "deliver" /\ Finish(h, w) /\ UNCHANGED <<rows, nextRev, acts, stamp>>
    BY DEF DeliverActivated
  <1>2. /\ lkg' = lkg \/ lkg' = [lkg EXCEPT ![h][p] = found]
        /\ runtime' = runtime \/ Install(h, p, found)
    BY DEF DeliverActivated, SaveCache
  <1>3. faults' \in 0..MaxFaults
    <2>1. Fault \/ NoFault
      BY DEF DeliverActivated, SaveCache, NoFault
    <2> QED
      BY <2>1, FaultType
  <1>4. drafts' \in [Procs -> [DraftIds -> Draft \cup {NoDraft}]] /\ stamp' \in 0..MaxStamp
    <2>1. drafts \in [Procs -> [DraftIds -> Draft \cup {NoDraft}]]
      BY DEF IInv, TypeOK
    <2>2. drafts' = drafts \/ \E d \in DraftIds : drafts' = [drafts EXCEPT ![h][d] = NoDraft]
      BY <1>1, CallType DEF DeliverActivated, CallSound
    <2>3. ASSUME NEW d \in DraftIds
          PROVE  [drafts EXCEPT ![h][d] = NoDraft] \in [Procs -> [DraftIds -> Draft \cup {NoDraft}]]
      BY <2>1
    <2>4. stamp' \in 0..MaxStamp
      BY <1>1 DEF IInv, TypeOK
    <2> QED
      BY <2>1, <2>2, <2>3, <2>4
  <1>5. /\ InstalledSound'
        /\ runtime' \in [Procs -> [Profiles -> Held]] /\ lkg' \in [Procs -> [Profiles -> Held]]
    BY <1>1, <1>2, HandedOver
  <1> QED
    BY <1>1, <1>3, <1>4, <1>5, FinishInv

(* A step on a draft.                                                      *)
LEMMA DraftInv ==
  ASSUME IInv, NEW h \in Procs, NEW d \in DraftIds,
         (\E payload \in Payloads : EditDraft(h, d, payload)) \/ DiscardDraft(h, d)
  PROVE  IInv'
  <1>1. UNCHANGED <<rows, nextRev, acts, runtime, lkg, op, faults>>
    BY DEF EditDraft, DiscardDraft
  <1>2. drafts' \in [Procs -> [DraftIds -> Draft \cup {NoDraft}]] /\ stamp' \in 0..MaxStamp
    <2>1. CASE DiscardDraft(h, d)
      BY <2>1 DEF DiscardDraft, IInv, TypeOK
    <2>2. ASSUME NEW payload \in Payloads, EditDraft(h, d, payload)
          PROVE  drafts' \in [Procs -> [DraftIds -> Draft \cup {NoDraft}]] /\ stamp' \in 0..MaxStamp
      <3>1. drafts[h][d] \in Draft /\ stamp + 1 \in 1..MaxStamp /\ stamp' = stamp + 1
        BY <2>2, ServiceConstants DEF EditDraft, IInv, TypeOK
      <3> DEFINE edited == [drafts[h][d] EXCEPT !.payload = payload, !.stamp = stamp + 1]
      <3>2. edited \in Draft
        BY <3>1 DEF Draft
      <3>3. drafts' = [drafts EXCEPT ![h][d] = edited]
        BY <2>2, <3>1 DEF EditDraft, IInv, TypeOK, Draft
      <3> HIDE DEF edited
      <3> QED
        BY <3>1, <3>2, <3>3 DEF IInv, TypeOK
    <2> QED
      BY <2>1, <2>2
  <1>3. nextRev' \in Nat /\ nextRev' >= nextRev
    BY <1>1, HistoryConstants DEF IInv, TypeOK
  <1>4. HistoryGrows /\ HistoryInv' /\ NumbersFresh' /\ ActsFollowTable'
    BY <1>1, <1>3, SameDatabase
  <1>5. TypeOK'
    BY <1>1, <1>2, <1>4 DEF IInv, TypeOK, HistoryInv
  <1>6. InstalledSound'
    BY <1>1, <1>4, InstalledGrows
  <1>7. OneCall' /\ CallsSound' /\ RoomIsKept'
    <2>1. OneCall' /\ RoomIsKept'
      BY <1>1 DEF IInv, OneCall, RoomIsKept, Creating, Activating
    <2>2. ASSUME NEW g \in Procs, NEW v \in Workers PROVE CallSound(g, op[g][v])'
      <3>1. op[g][v] \in Op \cup {Idle} /\ op'[g][v] = op[g][v] /\ CallSound(g, op[g][v])
        BY <1>1 DEF IInv, TypeOK, CallsSound
      <3> QED
        BY <1>4, <3>1, CallSoundGrows DEF IInv
    <2> QED
      BY <2>1, <2>2 DEF CallsSound
  <1> QED
    BY <1>4, <1>5, <1>6, <1>7 DEF IInv

(* A call that may create or activate begins: the bounds left it room.     *)
LEMMA RoomTaken ==
  ASSUME IInv, NEW h \in Procs, NEW w \in Workers, LockFree(h),
         op' = [op EXCEPT ![h][w] = op'[h][w]],
         op'[h][w].stage \in {"create", "activate"}, op'[h][w].profile \in Profiles,
         RoomToActivate(op'[h][w].profile),
         op'[h][w].stage = "create" => RoomToCreate,
         acts' = acts, nextRev' = nextRev
  PROVE  RoomIsKept'
  <1> DEFINE p == op'[h][w].profile
  <1>1. /\ nextRev \in Nat /\ \A q \in Profiles : Len(acts[q]) \in Nat
        /\ op \in [Procs -> [Workers -> Op \cup {Idle}]]
    BY HistoryConstants, LenProperties DEF IInv, TypeOK
  <1>2. op[h][w].stage \notin {"create", "activate"}
    BY DEF LockFree, Idle
  <1>3. /\ Cardinality(Creating) \in Nat /\ Cardinality(Creating') \in Nat
        /\ op'[h][w].stage = "create" => Cardinality(Creating') = Cardinality(Creating) + 1
        /\ op'[h][w].stage # "create" => Cardinality(Creating') = Cardinality(Creating)
    BY <1>1, <1>2, OneCallCounted
  <1>4. ASSUME NEW q \in Profiles
        PROVE  /\ Cardinality(Activating(q)) \in Nat /\ Cardinality(Activating(q)') \in Nat
               /\ q = p => Cardinality(Activating(q)') = Cardinality(Activating(q)) + 1
               /\ q # p => Cardinality(Activating(q)') = Cardinality(Activating(q))
    <2>1. ~MayActivate(op[h][w], q) /\ (MayActivate(op'[h][w], q) <=> q = p)
      BY <1>2 DEF MayActivate
    <2> QED
      BY <1>1, <2>1, OneCallCounted
  <1>5. /\ nextRev + Cardinality(Creating) <= MaxRev + 1
        /\ \A q \in Profiles : Len(acts[q]) + Cardinality(Activating(q)) <= MaxActs
    BY DEF IInv, RoomIsKept
  <1>6. nextRev + Cardinality(Creating') <= MaxRev + 1
    BY <1>1, <1>3, <1>5, HistoryConstants DEF RoomToCreate
  <1>7. ASSUME NEW q \in Profiles PROVE Len(acts[q]) + Cardinality(Activating(q)') <= MaxActs
    <2>1. Len(acts[p]) + Cardinality(Activating(p)) < MaxActs
      BY DEF RoomToActivate
    <2> HIDE DEF p
    <2>2. CASE q = p
      BY <1>1, <1>4, <2>1, <2>2, ServiceConstants
    <2>3. CASE q # p
      BY <1>4, <1>5, <2>3
    <2> QED
      BY <2>2, <2>3
  <1> QED
    BY <1>6, <1>7 DEF RoomIsKept

LEMMA BeginInv ==
  ASSUME IInv, NEW h \in Procs, NEW w \in Workers, NEW o \in Op, Begin(h, w, o),
         UNCHANGED <<rows, nextRev, acts, runtime, lkg, drafts, stamp, faults>>,
         CallSound(h, o), o.stage \in {"create", "activate"},
         RoomToActivate(o.profile), o.stage = "create" => RoomToCreate
  PROVE  IInv'
  <1>1. op' = [op EXCEPT ![h][w] = o] /\ LockFree(h)
    BY DEF Begin
  <1>2. op'[h][w] = o
    BY <1>1 DEF IInv, TypeOK
  <1>3. o.profile \in Profiles
    BY DEF Op
  <1>4. nextRev' \in Nat /\ nextRev' >= nextRev
    BY HistoryConstants DEF IInv, TypeOK
  <1>5. HistoryGrows /\ HistoryInv' /\ NumbersFresh' /\ ActsFollowTable'
    BY <1>4, SameDatabase
  <1>6. CallSound(h, op[h][w])'
    BY <1>2, <1>5, CallSoundGrows DEF IInv
  <1>7. OneCall' /\ CallsSound'
    BY <1>1, <1>2, <1>5, <1>6, OneCallSteps
  <1>8. RoomIsKept'
    BY <1>1, <1>2, <1>3, RoomTaken
  <1>9. InstalledSound'
    BY <1>5, InstalledGrows
  <1>10. TypeOK'
    <2>1. op' \in [Procs -> [Workers -> Op \cup {Idle}]]
      BY <1>1 DEF IInv, TypeOK
    <2> QED
      BY <1>5, <2>1 DEF IInv, TypeOK, HistoryInv
  <1> QED
    BY <1>5, <1>7, <1>8, <1>9, <1>10 DEF IInv

LEMMA BeginSaveInv ==
  ASSUME IInv, NEW h \in Procs, NEW w \in Workers, NEW d \in DraftIds, BeginSave(h, w, d)
  PROVE  IInv'
  <1> DEFINE draft == drafts[h][d]
             o == [NewOp("save", "create", draft.profile) EXCEPT
                     !.draft = d, !.copy = draft, !.expected = draft.base]
  <1>1. /\ draft # NoDraft /\ draft.payload \in Valid[h]
        /\ RoomToActivate(draft.profile) /\ RoomToCreate
        /\ Begin(h, w, o)
        /\ UNCHANGED <<rows, nextRev, acts, runtime, lkg, drafts, stamp, faults>>
    BY DEF BeginSave
  <1>2. draft \in Draft
    BY <1>1 DEF IInv, TypeOK
  <1>3. draft.profile \in Profiles /\ draft.base \in 0..MaxRev
    BY <1>2 DEF Draft
  <1>4. NewOp("save", "create", draft.profile) \in Op
    BY <1>3, NewOpType
  <1> HIDE DEF draft
  <1>5. /\ o \in Op /\ o.stage = "create" /\ o.kind = "save" /\ o.copy = draft /\ o.draft = d
        /\ o.profile = draft.profile /\ o.expected = draft.base
    BY <1>2, <1>3, <1>4 DEF Op, NewOp
  <1> HIDE DEF o
  <1>6. CallSound(h, o)
    BY <1>1, <1>2, <1>3, <1>5, ServiceConstants DEF CallSound
  <1> QED
    BY <1>1, <1>5, <1>6, BeginInv

LEMMA BeginRollbackInv ==
  ASSUME IInv, NEW h \in Procs, NEW w \in Workers, NEW r \in Revisions,
         NEW e \in 0..MaxRev \cup {Unchecked}, BeginRollback(h, w, r, e)
  PROVE  IInv'
  <1> DEFINE p == rows[r].profile
             o == [NewOp("rollback", "activate", p) EXCEPT
                     !.candidate = r, !.expected = e]
  <1>1. /\ Exists(r) /\ rows[r].payload \in Valid[h] /\ RoomToActivate(p)
        /\ Begin(h, w, o)
        /\ UNCHANGED <<rows, nextRev, acts, runtime, lkg, drafts, stamp, faults>>
    BY DEF BeginRollback
  <1>2. p \in Profiles
    BY <1>1, ExistingRow DEF IInv, Row
  <1>3. r \in 0..MaxRev
    BY HistoryConstants DEF Revisions
  <1>4. NewOp("rollback", "activate", p) \in Op
    BY <1>2, NewOpType
  <1> HIDE DEF p
  <1>6. /\ o \in Op /\ o.stage = "activate" /\ o.kind = "rollback" /\ o.candidate = r
        /\ o.profile = p /\ o.expected = e
    BY <1>3, <1>4 DEF Op, NewOp
  <1> HIDE DEF o
  <1>7. CallSound(h, o)
    BY <1>1, <1>6 DEF CallSound, p
  <1> QED
    BY <1>1, <1>6, <1>7, BeginInv

(* A call that may create or activate is over, or waits for less.          *)
LEMMA RoomGiven ==
  ASSUME IInv, NEW h \in Procs, NEW w \in Workers, NEW p \in Profiles,
         op' = [op EXCEPT ![h][w] = op'[h][w]], MayActivate(op[h][w], p)
  PROVE  /\ Len(acts[p]) < MaxActs
         /\ op[h][w].stage = "create" => nextRev <= MaxRev
         /\ ~MayActivate(op'[h][w], p) =>
              Cardinality(Activating(p)') = Cardinality(Activating(p)) - 1
  <1>1. /\ nextRev \in Nat /\ Len(acts[p]) \in Nat
        /\ op \in [Procs -> [Workers -> Op \cup {Idle}]]
    BY HistoryConstants, LenProperties DEF IInv, TypeOK
  <1>2. <<h, w>> \in Activating(p) /\ (op[h][w].stage = "create" => <<h, w>> \in Creating)
    BY CallsCounted
  <1>3. Cardinality(Activating(p)) >= 1 /\ Cardinality(Activating(p)) \in Nat
    BY <1>2, CallsFinite, FS_EmptySet
  <1>4. op[h][w].stage = "create" => Cardinality(Creating) >= 1 /\ Cardinality(Creating) \in Nat
    BY <1>2, CallsFinite, FS_EmptySet
  <1>5. /\ nextRev + Cardinality(Creating) <= MaxRev + 1
        /\ Len(acts[p]) + Cardinality(Activating(p)) <= MaxActs
    BY DEF IInv, RoomIsKept
  <1>6. ~MayActivate(op'[h][w], p) =>
           Cardinality(Activating(p)') = Cardinality(Activating(p)) - 1
    BY <1>1, OneCallCounted
  <1> QED
    BY <1>1, <1>3, <1>4, <1>5, <1>6, HistoryConstants, ServiceConstants

LEMMA CreateRevisionInv ==
  ASSUME IInv, NEW h \in Procs, NEW w \in Workers, CreateRevision(h, w)
  PROVE  IInv' /\ nextRev \in Revisions
         /\ op[h][w].profile \in Profiles /\ op[h][w].copy.payload \in Payloads
  <1> DEFINE o == op[h][w]
             p == o.profile
             waiting == [o EXCEPT !.stage = "activate", !.candidate = nextRev]
  <1>1. /\ o.stage = "create" /\ Create(nextRev, p, o.copy.payload) /\ nextRev' = nextRev + 1
        /\ UNCHANGED <<acts, runtime, lkg, drafts, stamp>>
    BY DEF CreateRevision
  <1>2. /\ o \in Op /\ o # Idle /\ p \in Profiles /\ CallSound(h, o)
        /\ op \in [Procs -> [Workers -> Op \cup {Idle}]]
    BY <1>1, CallType
  <1>3. o.copy.payload \in Valid[h] /\ o.copy.payload \in Payloads /\ o.copy.profile = p
        /\ o.kind = "save" /\ o.copy \in Draft /\ o.draft \in DraftIds
    BY <1>1, <1>2, ServiceConstants, HistoryConstants DEF CallSound
  <1>4. \/ op' = [op EXCEPT ![h][w] = waiting] /\ NoFault
        \/ op' = [op EXCEPT ![h][w] = Idle] /\ Fault
    BY DEF CreateRevision, Continue, Finish
  <1>5. MayActivate(o, p)
    BY <1>1 DEF MayActivate
  <1>6. op'[h][w] \in {waiting, Idle} /\ op' = [op EXCEPT ![h][w] = op'[h][w]]
    BY <1>2, <1>4
  <1>7. nextRev <= MaxRev
    BY <1>1, <1>2, <1>5, <1>6, RoomGiven
  <1>8. nextRev \in Revisions /\ nextRev \in 0..MaxRev /\ nextRev + 1 \in 1..(MaxRev + 1)
    BY <1>7, HistoryConstants DEF IInv, TypeOK, Revisions
  <1>9. /\ waiting \in Op /\ waiting.stage = "activate" /\ waiting.candidate = nextRev
        /\ waiting.kind = o.kind /\ waiting.profile = p /\ waiting.copy = o.copy
        /\ waiting.draft = o.draft /\ waiting.expected = o.expected
    BY <1>2, <1>8 DEF Op
  <1> HIDE DEF waiting
  <1>10. ~Exists(nextRev) /\ rows' = [rows EXCEPT ![nextRev] = DraftRow(p, o.copy.payload)]
    BY <1>1, <1>8, HistoryConstants DEF Create, Revisions
  <1>11. HistoryInv' /\ HistoryGrows
    BY <1>1, <1>2, <1>3, <1>8, CreateStep, CreateGrows DEF IInv
  <1>12. \A q \in Revisions : rows'[q] = IF q = nextRev THEN DraftRow(p, o.copy.payload) ELSE rows[q]
    BY <1>10 DEF IInv, TypeOK, HistoryTypeOK
  <1>13. rows'[nextRev] # NoRow /\ rows'[nextRev].profile = p /\ rows'[nextRev].payload = o.copy.payload
    BY <1>8, <1>12 DEF DraftRow, NoRow
  <1>14. NumbersFresh'
    <2>1. NumbersFresh /\ nextRev \in Nat
      BY <1>8 DEF IInv, Revisions
    <2>2. ASSUME NEW q \in Revisions, q >= nextRev + 1 PROVE rows'[q] = NoRow
      <3>1. q >= nextRev /\ q # nextRev
        BY <2>1, <2>2 DEF Revisions
      <3> QED
        BY <1>12, <2>1, <3>1 DEF NumbersFresh, Exists
    <2> QED
      BY <1>1, <2>2 DEF NumbersFresh, Exists
  <1>15. ActsFollowTable'
    <2>1. \A q \in Profiles : ActiveRows(q)' = ActiveRows(q)
      BY <1>1, <1>2, <1>3, <1>8, CreateStep DEF IInv
    <2> QED
      BY <1>1, <1>11, <2>1 DEF IInv, ActsFollowTable, HistoryGrows, ActiveRev
  <1>16. CallSound(h, op[h][w])'
    <2>1. CASE op'[h][w] = Idle
      BY <2>1 DEF CallSound, Idle
    <2>2. CASE op'[h][w] = waiting
      BY <1>3, <1>8, <1>9, <1>13, <2>2 DEF CallSound, Exists
    <2> QED
      BY <1>6, <2>1, <2>2
  <1>17. OneCall' /\ CallsSound'
    BY <1>2, <1>6, <1>11, <1>16, OneCallSteps
  <1>18. RoomIsKept'
    <2>1. nextRev \in Nat /\ \A q \in Profiles : Len(acts[q]) \in Nat
      BY HistoryConstants, LenProperties DEF IInv, TypeOK
    <2>2. op'[h][w].stage # "create"
      BY <1>6, <1>9 DEF Idle
    <2>3. /\ Cardinality(Creating) \in Nat /\ Cardinality(Creating') \in Nat
          /\ Cardinality(Creating') = Cardinality(Creating) - 1
      BY <1>1, <1>2, <1>6, <2>2, OneCallCounted
    <2>4. ASSUME NEW q \in Profiles
          PROVE  /\ Cardinality(Activating(q)) \in Nat /\ Cardinality(Activating(q)') \in Nat
                 /\ Cardinality(Activating(q)') <= Cardinality(Activating(q))
      <3>1. MayActivate(op'[h][w], q) => MayActivate(op[h][w], q)
        BY <1>1, <1>6, <1>9 DEF MayActivate, Idle
      <3> QED
        BY <1>2, <1>6, <3>1, OneCallCounted
    <2>5. /\ nextRev + Cardinality(Creating) <= MaxRev + 1
          /\ \A q \in Profiles : Len(acts[q]) + Cardinality(Activating(q)) <= MaxActs
      BY DEF IInv, RoomIsKept
    <2>6. nextRev' + Cardinality(Creating') <= MaxRev + 1
      BY <1>1, <2>1, <2>3, <2>5, HistoryConstants
    <2>7. ASSUME NEW q \in Profiles
          PROVE  Len(acts'[q]) + Cardinality(Activating(q)') <= MaxActs
      <3>1. /\ Len(acts[q]) \in Nat /\ acts'[q] = acts[q]
            /\ Len(acts[q]) + Cardinality(Activating(q)) <= MaxActs
        BY <1>1, <2>1, <2>5
      <3> QED
        BY <2>4, <3>1, ServiceConstants
    <2> QED
      BY <2>6, <2>7, Zenon DEF RoomIsKept
  <1>19. InstalledSound'
    BY <1>1, <1>11, InstalledGrows
  <1>20. TypeOK'
    <2>1. op' \in [Procs -> [Workers -> Op \cup {Idle}]]
      BY <1>2, <1>4, <1>9
    <2>2. faults' \in 0..MaxFaults
      BY <1>4, FaultType
    <2> QED
      BY <1>1, <1>8, <1>11, <2>1, <2>2 DEF IInv, TypeOK, HistoryInv
  <1> QED
    BY <1>2, <1>3, <1>8, <1>11, <1>14, <1>15, <1>17, <1>18, <1>19, <1>20 DEF IInv

LEMMA RaiseConflictInv ==
  ASSUME IInv, NEW h \in Procs, NEW w \in Workers, RaiseConflict(h, w)
  PROVE  IInv'
  <1>1. op[h][w].stage = "activate" /\ Finish(h, w)
        /\ UNCHANGED <<rows, nextRev, acts, runtime, lkg, drafts, stamp, faults>>
    BY DEF RaiseConflict
  <1>2. InstalledSound'
    BY <1>1, NothingWritten, InstalledGrows
  <1> QED
    BY <1>1, <1>2, FinishInv DEF IInv, TypeOK

LEMMA KeepActiveInv ==
  ASSUME IInv, NEW h \in Procs, NEW w \in Workers, KeepActive(h, w)
  PROVE  IInv'
  <1> DEFINE o == op[h][w]
             p == o.profile
  <1>1. /\ o.stage = "activate" /\ o.candidate = ActiveRev(p)
        /\ Continue(h, w, Returned(o, ActiveHeld(p)))
        /\ UNCHANGED <<rows, nextRev, acts, runtime, lkg, drafts, stamp, faults>>
    BY DEF KeepActive
  <1>2. o \in Op /\ p \in Profiles /\ CallSound(h, o)
    BY <1>1, CallType
  <1>3. /\ o.candidate \in Revisions /\ rows[o.candidate].payload \in Valid[h]
        /\ o.kind = "save" => /\ o.copy \in Draft /\ o.draft \in DraftIds
                              /\ rows[o.candidate].payload = o.copy.payload
    BY <1>1, <1>2 DEF CallSound
  <1>4. acts[p] # <<>>
    <2>1. ActiveRev(p) # 0
      BY <1>1, <1>3, HistoryConstants DEF Revisions
    <2> QED
      BY <2>1, Zenon DEF ActiveRev
  <1>5. ActiveHeld(p) \in Held /\ ActiveHeld(p) # Nothing /\ WasActivated(h, p, ActiveHeld(p))
        /\ ActiveHeld(p).revision = o.candidate
    BY <1>1, <1>2, <1>3, <1>4, ActiveHeldSound
  <1>6. faults' \in 0..MaxFaults
    BY <1>1 DEF IInv, TypeOK
  <1> QED
    BY <1>1, <1>3, <1>5, <1>6, ReturnedInv

LEMMA ActivateRevisionInv ==
  ASSUME IInv, NEW h \in Procs, NEW w \in Workers, ActivateRevision(h, w)
  PROVE  IInv' /\ op[h][w].candidate \in Revisions
  <1> DEFINE o == op[h][w]
             p == o.profile
             r == o.candidate
             found == FromDatabase(r, Len(acts[p]) + 1)
             answered == Returned(o, found)
  <1>1. /\ o.stage = "activate" /\ Activate(r)
        /\ acts' = [acts EXCEPT ![p] = Append(@, r)]
        /\ UNCHANGED <<nextRev, runtime, lkg, drafts, stamp>>
    BY DEF ActivateRevision
  <1>2. /\ o \in Op /\ o # Idle /\ p \in Profiles /\ CallSound(h, o)
        /\ op \in [Procs -> [Workers -> Op \cup {Idle}]]
    BY <1>1, CallType
  <1>3. /\ r \in Revisions /\ Exists(r) /\ rows[r].profile = p /\ rows[r].payload \in Valid[h]
        /\ o.kind \in {"save", "rollback"}
        /\ o.kind = "save" => /\ o.copy \in Draft /\ o.draft \in DraftIds
                              /\ rows[r].payload = o.copy.payload
    BY <1>1, <1>2 DEF CallSound
  <1>4. \/ op' = [op EXCEPT ![h][w] = answered] /\ NoFault
        \/ op' = [op EXCEPT ![h][w] = Idle] /\ Fault
    BY DEF ActivateRevision, Continue, Finish
  <1>5. op'[h][w] \in {answered, Idle} /\ op' = [op EXCEPT ![h][w] = op'[h][w]]
    BY <1>2, <1>4
  <1>6. MayActivate(o, p)
    BY <1>1 DEF MayActivate
  <1>7. acts[p] \in Seq(Revisions) /\ Len(acts[p]) \in Nat /\ Len(acts[p]) + 1 \in 1..MaxActs
    <2>1. acts[p] \in Seq(Revisions) /\ Len(acts[p]) \in Nat
      BY <1>2, LenProperties DEF IInv, TypeOK
    <2> QED
      BY <1>2, <1>5, <1>6, <2>1, RoomGiven, ServiceConstants
  <1>8. found \in Held /\ found # Nothing /\ found.revision = r /\ found.index = Len(acts[p]) + 1
    BY <1>3, <1>7, HistoryConstants DEF FromDatabase, Held, Nothing, Revisions
  <1> HIDE DEF found
  <1>9. /\ answered \in Op /\ answered.stage = "deliver" /\ answered.found = found
        /\ answered.kind = o.kind /\ answered.profile = p /\ answered.copy = o.copy
        /\ answered.draft = o.draft /\ answered.candidate = r
    BY <1>2, <1>8, ReturnedType
  <1> HIDE DEF answered
  <1>10. HistoryInv /\ HistoryInv' /\ HistoryGrows
    <2>1. HistoryInv
      BY DEF IInv
    <2>2. HistoryInv'
      BY <1>1, <1>3, <2>1, ActivateHistory
    <2>3. HistoryGrows
      <3>1. TypeOK
        BY DEF IInv
      <3> QED
        BY <1>1, <1>2, <1>3, <2>1, <3>1, ActivateGrows
    <2> QED
      BY <2>1, <2>2, <2>3
  <1>11. \A q \in Profiles : ActiveRows(q)' = IF q = p THEN {r} ELSE ActiveRows(q)
    <2>1. \A q \in Profiles :
            ActiveRows(q)' = IF q = rows[r].profile THEN {r} ELSE ActiveRows(q)
      BY <1>1, <1>3, <1>10, ActivateHistory, Zenon
    <2> QED
      BY <1>3, <2>1
  <1>12. rows'[r].activated
    <2>1. rows'[r] # NoRow /\ rows'[r].status = "active"
      BY <1>1, <1>3, <1>10, ActivateHistory DEF Exists
    <2> QED
      BY <1>3, <1>10, <2>1 DEF HistoryInv, ActivatedMeansValidated, Exists
  <1> HIDE DEF p, r
  <1>13. /\ acts' \in [Profiles -> Seq(Revisions)]
         /\ \A q \in Profiles : q # p => acts'[q] = acts[q]
         /\ acts'[p] # <<>> /\ Len(acts'[p]) = Len(acts[p]) + 1
         /\ \A i \in 1..Len(acts[p]) : acts'[p][i] = acts[p][i]
         /\ acts'[p][Len(acts[p]) + 1] = r
    <2>1. acts \in [Profiles -> Seq(Revisions)]
      BY DEF IInv, TypeOK
    <2>2. /\ Append(acts[p], r) \in Seq(Revisions) /\ Append(acts[p], r) # <<>>
          /\ Len(Append(acts[p], r)) = Len(acts[p]) + 1
          /\ \A i \in 1..Len(acts[p]) : Append(acts[p], r)[i] = acts[p][i]
          /\ Append(acts[p], r)[Len(acts[p]) + 1] = r
      BY <1>3, <1>7, AppendProperties
    <2>3. acts'[p] = Append(acts[p], r) /\ \A q \in Profiles : q # p => acts'[q] = acts[q]
      BY <1>1, <1>2, <2>1
    <2>4. acts' \in [Profiles -> Seq(Revisions)]
      BY <1>1, <1>2, <2>1, <2>2
    <2> QED
      BY <2>2, <2>3, <2>4
  <1>14. ActsFollowTable'
    <2>1. ASSUME NEW q \in Profiles
          PROVE  ActiveRows(q)' = IF acts'[q] = <<>> THEN {} ELSE {acts'[q][Len(acts'[q])]}
      BY <1>11, <1>13, <2>1 DEF IInv, ActsFollowTable, ActiveRev
    <2>2. ASSUME NEW q \in Profiles, NEW i \in 1..Len(acts'[q])
          PROVE  /\ acts'[q][i] \in Revisions /\ rows'[acts'[q][i]] # NoRow
                 /\ rows'[acts'[q][i]].profile = q /\ rows'[acts'[q][i]].activated
      <3>1. CASE q # p \/ i \in 1..Len(acts[p])
        <4>1. i \in 1..Len(acts[q]) /\ acts'[q][i] = acts[q][i]
          BY <1>13, <2>2, <3>1
        <4> QED
          BY <1>10, <4>1 DEF IInv, ActsFollowTable, HistoryGrows, Exists
      <3>2. CASE q = p /\ i = Len(acts[p]) + 1
        BY <1>3, <1>10, <1>12, <1>13, <3>2 DEF HistoryGrows, Exists
      <3> QED
        BY <1>7, <1>13, <2>2, <3>1, <3>2
    <2> QED
      BY <2>1, <2>2 DEF ActsFollowTable, ActiveRev, Exists
  <1>15. NumbersFresh'
    BY <1>1, <1>10, <1>3, ActivateHistory DEF IInv, NumbersFresh, Exists
  <1>16. CallSound(h, op[h][w])'
    <2>1. CASE op'[h][w] = Idle
      BY <2>1 DEF CallSound, Idle
    <2>2. CASE op'[h][w] = answered
      <3>1. rows'[r].payload = rows[r].payload
        BY <1>3, <1>10 DEF HistoryGrows
      <3>2. found.index \in 1..Len(acts'[p])
        BY <1>7, <1>8, <1>13
      <3>3. op'[h][w].found = found /\ op'[h][w].profile = p
        BY <1>9, <2>2
      <3>4. WasActivated(h, op[h][w].profile, op[h][w].found)'
        BY <1>3, <1>8, <1>13, <3>1, <3>2, <3>3 DEF WasActivated
      <3> QED
        BY <1>3, <1>8, <1>9, <2>2, <3>1, <3>4 DEF CallSound
    <2> QED
      BY <1>5, <2>1, <2>2
  <1>17. OneCall' /\ CallsSound'
    BY <1>2, <1>5, <1>10, <1>16, OneCallSteps
  <1>18. RoomIsKept'
    <2>1. nextRev \in Nat /\ \A q \in Profiles : Len(acts[q]) \in Nat
      BY HistoryConstants, LenProperties DEF IInv, TypeOK
    <2>2. op'[h][w].stage \notin {"create", "activate"}
      BY <1>5, <1>9 DEF Idle
    <2>3. /\ Cardinality(Creating) \in Nat /\ Cardinality(Creating') \in Nat
          /\ Cardinality(Creating') = Cardinality(Creating)
      BY <1>1, <1>2, <1>5, <2>2, OneCallCounted
    <2>4. ASSUME NEW q \in Profiles
          PROVE  /\ Cardinality(Activating(q)) \in Nat /\ Cardinality(Activating(q)') \in Nat
                 /\ q # p => Cardinality(Activating(q)') = Cardinality(Activating(q))
                 /\ q = p => Cardinality(Activating(q)') = Cardinality(Activating(q)) - 1
      <3>1. ~MayActivate(op'[h][w], q) /\ (MayActivate(op[h][w], q) <=> q = p)
        BY <1>1, <2>2 DEF MayActivate, p
      <3> QED
        BY <1>2, <1>5, <3>1, OneCallCounted
    <2>5. /\ nextRev + Cardinality(Creating) <= MaxRev + 1
          /\ \A q \in Profiles : Len(acts[q]) + Cardinality(Activating(q)) <= MaxActs
      BY DEF IInv, RoomIsKept
    <2>6. ASSUME NEW q \in Profiles PROVE Len(acts'[q]) + Cardinality(Activating(q)') <= MaxActs
      <3>1. CASE q = p
        BY <1>13, <2>1, <2>4, <2>5, <3>1, ServiceConstants
      <3>2. CASE q # p
        BY <1>13, <2>4, <2>5, <3>2
      <3> QED
        BY <3>1, <3>2
    <2> QED
      BY <1>1, <2>3, <2>5, <2>6 DEF RoomIsKept
  <1>19. InstalledSound'
    BY <1>1, <1>10, InstalledGrows
  <1>20. TypeOK'
    <2>1. op' \in [Procs -> [Workers -> Op \cup {Idle}]]
      BY <1>2, <1>4, <1>9
    <2>2. faults' \in 0..MaxFaults
      BY <1>4, FaultType
    <2>3. \A q \in Profiles : Len(acts'[q]) <= MaxActs
      BY <1>7, <1>13 DEF IInv, TypeOK
    <2> QED
      BY <1>1, <1>10, <1>13, <2>1, <2>2, <2>3 DEF IInv, TypeOK, HistoryInv
  <1> QED
    BY <1>3, <1>10, <1>14, <1>15, <1>17, <1>18, <1>19, <1>20 DEF IInv, r

LEMMA CallFailsInv ==
  ASSUME IInv, NEW h \in Procs, NEW w \in Workers, CallFails(h, w)
  PROVE  IInv'
  <1> DEFINE o == op[h][w]
  <1>1. /\ o.stage \in {"create", "activate"} /\ Fault
        /\ nextRev' = nextRev \/ (o.stage = "create" /\ nextRev' = nextRev + 1)
        /\ op' = [op EXCEPT ![h][w] = Idle]
        /\ UNCHANGED <<rows, acts, runtime, lkg, drafts, stamp>>
    BY DEF CallFails, Finish
  <1>2. /\ o \in Op /\ o # Idle /\ o.profile \in Profiles
        /\ op \in [Procs -> [Workers -> Op \cup {Idle}]]
    BY <1>1, CallType
  <1>3. op'[h][w] = Idle /\ op' = [op EXCEPT ![h][w] = op'[h][w]]
    BY <1>1, <1>2
  <1>4. o.stage = "create" => nextRev <= MaxRev
    BY <1>1, <1>2, <1>3, RoomGiven DEF MayActivate
  <1>5. nextRev \in 1..(MaxRev + 1) /\ nextRev' \in 1..(MaxRev + 1) /\ nextRev' >= nextRev
    BY <1>1, <1>4, HistoryConstants DEF IInv, TypeOK
  <1>6. HistoryGrows /\ HistoryInv' /\ NumbersFresh' /\ ActsFollowTable'
    BY <1>1, <1>5, SameDatabase
  <1>7. CallSound(h, op[h][w])'
    BY <1>3 DEF CallSound, Idle
  <1>8. OneCall' /\ CallsSound'
    BY <1>2, <1>3, <1>6, <1>7, OneCallSteps
  <1>9. RoomIsKept'
    <2>1. nextRev \in Nat /\ \A q \in Profiles : Len(acts[q]) \in Nat
      BY HistoryConstants, LenProperties DEF IInv, TypeOK
    <2>2. op'[h][w].stage \notin {"create", "activate"}
      BY <1>3 DEF Idle
    <2>3. /\ Cardinality(Creating) \in Nat /\ Cardinality(Creating') \in Nat
          /\ o.stage = "create" => Cardinality(Creating') = Cardinality(Creating) - 1
          /\ o.stage # "create" => Cardinality(Creating') = Cardinality(Creating)
      BY <1>2, <1>3, <2>2, OneCallCounted
    <2>4. ASSUME NEW q \in Profiles
          PROVE  /\ Cardinality(Activating(q)) \in Nat /\ Cardinality(Activating(q)') \in Nat
                 /\ Cardinality(Activating(q)') <= Cardinality(Activating(q))
      <3>1. ~MayActivate(op'[h][w], q)
        BY <2>2 DEF MayActivate
      <3> QED
        BY <1>2, <1>3, <3>1, OneCallCounted
    <2>5. /\ nextRev + Cardinality(Creating) <= MaxRev + 1
          /\ \A q \in Profiles : Len(acts[q]) + Cardinality(Activating(q)) <= MaxActs
      BY DEF IInv, RoomIsKept
    <2>6. nextRev' + Cardinality(Creating') <= MaxRev + 1
      BY <1>1, <2>1, <2>3, <2>5, HistoryConstants
    <2> QED
      BY <1>1, <2>1, <2>4, <2>5, <2>6, ServiceConstants DEF RoomIsKept
  <1>10. InstalledSound'
    BY <1>1, <1>6, InstalledGrows
  <1>11. TypeOK'
    <2>1. op' \in [Procs -> [Workers -> Op \cup {Idle}]]
      BY <1>1, <1>2
    <2>2. faults' \in 0..MaxFaults
      BY <1>1, FaultType
    <2> QED
      BY <1>1, <1>5, <1>6, <2>1, <2>2 DEF IInv, TypeOK, HistoryInv
  <1> QED
    BY <1>6, <1>8, <1>9, <1>10, <1>11 DEF IInv

LEMMA CrashInv ==
  ASSUME IInv, NEW h \in Procs, Crash(h)
  PROVE  IInv'
  <1> DEFINE off == [w \in Workers |-> Idle]
             none == [d \in DraftIds |-> NoDraft]
             stopped == [p \in Profiles |-> Nothing]
  <1>1. /\ Fault /\ UNCHANGED <<rows, nextRev, acts, lkg, stamp>>
        /\ op' = [op EXCEPT ![h] = off]
        /\ drafts' = [drafts EXCEPT ![h] = none]
        /\ runtime' = [runtime EXCEPT ![h] = stopped]
    BY DEF Crash
  <1>2. /\ op' \in [Procs -> [Workers -> Op \cup {Idle}]]
        /\ \A g \in Procs, w \in Workers : op'[g][w] = IF g = h THEN Idle ELSE op[g][w]
    BY <1>1 DEF IInv, TypeOK
  <1>3. nextRev' \in Nat /\ nextRev' >= nextRev
    BY <1>1, HistoryConstants DEF IInv, TypeOK
  <1>4. HistoryGrows /\ HistoryInv' /\ NumbersFresh' /\ ActsFollowTable'
    BY <1>1, <1>3, SameDatabase
  <1>5. OneCall'
    BY <1>2 DEF IInv, OneCall
  <1>6. ASSUME NEW g \in Procs, NEW w \in Workers PROVE CallSound(g, op[g][w])'
    <2>1. CASE g = h
      BY <1>2, <2>1 DEF CallSound, Idle
    <2>2. CASE g # h
      <3>1. op[g][w] \in Op \cup {Idle} /\ op'[g][w] = op[g][w] /\ CallSound(g, op[g][w])
        BY <1>2, <2>2 DEF IInv, TypeOK, CallsSound
      <3> QED
        BY <1>4, <3>1, CallSoundGrows DEF IInv
    <2> QED
      BY <2>1, <2>2
  <1>7. RoomIsKept'
    <2>1. nextRev \in Nat /\ \A q \in Profiles : Len(acts[q]) \in Nat
      BY HistoryConstants, LenProperties DEF IInv, TypeOK
    <2>2. Creating' \subseteq Creating /\ \A q \in Profiles : Activating(q)' \subseteq Activating(q)
      BY <1>2 DEF Creating, Activating, Idle
    <2>3. /\ Cardinality(Creating) \in Nat /\ Cardinality(Creating') \in Nat
          /\ Cardinality(Creating') <= Cardinality(Creating)
      BY <2>2, CallsFinite, FS_Subset, FS_CardinalityType
    <2>4. ASSUME NEW q \in Profiles
          PROVE  /\ Cardinality(Activating(q)) \in Nat /\ Cardinality(Activating(q)') \in Nat
                 /\ Cardinality(Activating(q)') <= Cardinality(Activating(q))
      BY <2>2, CallsFinite, FS_Subset, FS_CardinalityType
    <2>5. /\ nextRev + Cardinality(Creating) <= MaxRev + 1
          /\ \A q \in Profiles : Len(acts[q]) + Cardinality(Activating(q)) <= MaxActs
      BY DEF IInv, RoomIsKept
    <2>6. nextRev' + Cardinality(Creating') <= MaxRev + 1
      BY <1>1, <2>1, <2>3, <2>5, HistoryConstants
    <2>7. ASSUME NEW q \in Profiles
          PROVE  Len(acts'[q]) + Cardinality(Activating(q)') <= MaxActs
      <3>1. /\ Len(acts[q]) \in Nat /\ acts'[q] = acts[q]
            /\ Len(acts[q]) + Cardinality(Activating(q)) <= MaxActs
        BY <1>1, <2>1, <2>5
      <3> QED
        BY <2>4, <3>1, ServiceConstants
    <2> QED
      BY <2>6, <2>7, Zenon DEF RoomIsKept
  <1>8. /\ runtime' \in [Procs -> [Profiles -> Held]]
        /\ \A g \in Procs, p \in Profiles : runtime'[g][p] = IF g = h THEN Nothing ELSE runtime[g][p]
    BY <1>1, NothingsType DEF IInv, TypeOK
  <1>9. InstalledSound'
    <2> SUFFICES ASSUME NEW g \in Procs, NEW p \in Profiles
                 PROVE  WasActivated(g, p, runtime[g][p])' /\ WasActivated(g, p, lkg[g][p])'
      BY DEF InstalledSound
    <2>1. WasActivated(g, p, runtime[g][p]) /\ WasActivated(g, p, lkg[g][p])
      BY DEF IInv, InstalledSound
    <2> QED
      BY <1>1, <1>8, <2>1, NothingsType DEF WasActivated
  <1>10. TypeOK'
    <2>1. faults' \in 0..MaxFaults
      BY <1>1, FaultType
    <2>2. drafts' \in [Procs -> [DraftIds -> Draft \cup {NoDraft}]]
      BY <1>1 DEF IInv, TypeOK
    <2> QED
      BY <1>1, <1>2, <1>4, <1>8, <2>1, <2>2 DEF IInv, TypeOK, HistoryInv
  <1> QED
    BY <1>4, <1>5, <1>6, <1>7, <1>9, <1>10 DEF IInv, CallsSound

LEMMA ServiceInit == Init => IInv
  <1> SUFFICES ASSUME Init PROVE IInv
    OBVIOUS
  <1>1. HistoryInv
    BY DEF Init, HistoryInit, HistoryInv, HistoryTypeOK, OneActivePerProfile,
       ActivatedMeansValidated, NoRow, Exists
  <1>2. TypeOK
    <2>1. <<>> \in Seq(Revisions) /\ Len(<<>>) = 0
      BY EmptySeq
    <2> QED
      BY <1>1, <2>1, NothingsType, HistoryConstants, ServiceConstants DEF Init, TypeOK, HistoryInv
  <1>3. OneCall /\ NumbersFresh
    BY DEF Init, HistoryInit, OneCall, NumbersFresh, Exists
  <1>4. RoomIsKept
    <2>1. Creating = {} /\ \A p : Activating(p) = {}
      BY DEF Init, Creating, Activating, Idle
    <2>2. nextRev = 1 /\ \A p \in Profiles : Len(acts[p]) = 0
      BY EmptySeq DEF Init
    <2>3. Cardinality(Creating) = 0 /\ \A p : Cardinality(Activating(p)) = 0
      BY <2>1, FS_EmptySet
    <2> QED
      BY <2>2, <2>3, HistoryConstants, ServiceConstants DEF RoomIsKept
  <1>5. ActsFollowTable
    BY DEF Init, HistoryInit, NoRow, ActsFollowTable, ActiveRows
  <1>6. InstalledSound /\ CallsSound
    BY DEF Init, InstalledSound, WasActivated, CallsSound, CallSound, Idle
  <1> QED
    BY <1>1, <1>2, <1>3, <1>4, <1>5, <1>6 DEF IInv

LEMMA ServiceStep == IInv /\ [Next]_vars => IInv'
  <1> SUFFICES ASSUME IInv, [Next]_vars PROVE IInv'
    OBVIOUS
  <1>1. ASSUME NEW h \in Procs, NEW d \in DraftIds,
               (\E payload \in Payloads : EditDraft(h, d, payload)) \/ DiscardDraft(h, d)
        PROVE  IInv'
    BY <1>1, DraftInv
  <1>2. ASSUME NEW h \in Procs, Crash(h) PROVE IInv'
    BY <1>2, CrashInv
  <1>3. ASSUME NEW h \in Procs, NEW w \in Workers,
               \/ \E kind \in Readers, p \in Profiles : BeginRead(h, w, kind, p)
               \/ QueryActive(h, w) \/ QueryNothing(h, w) \/ LoadLkg(h, w)
               \/ DeliverRead(h, w)
        PROVE  IInv'
    BY <1>3, BeginReadInv, QueryInv, LoadLkgInv, DeliverReadInv
  <1>4. ASSUME NEW h \in Procs, NEW w \in Workers,
               \/ \E d \in DraftIds : BeginSave(h, w, d)
               \/ CreateRevision(h, w)
               \/ \E r \in Revisions, e \in 0..MaxRev \cup {Unchecked} : BeginRollback(h, w, r, e)
        PROVE  IInv'
    BY <1>4, BeginSaveInv, CreateRevisionInv, BeginRollbackInv
  <1>5. ASSUME NEW h \in Procs, NEW w \in Workers,
               \/ RaiseConflict(h, w) \/ KeepActive(h, w) \/ ActivateRevision(h, w)
               \/ DeliverActivated(h, w) \/ CallFails(h, w)
        PROVE  IInv'
    BY <1>5, RaiseConflictInv, KeepActiveInv, ActivateRevisionInv, DeliverActivatedInv, CallFailsInv
  <1>6. CASE UNCHANGED vars
    <2>1. nextRev' \in Nat /\ nextRev' >= nextRev
      BY <1>6, HistoryConstants DEF IInv, TypeOK, vars
    <2>2. HistoryGrows /\ HistoryInv' /\ NumbersFresh' /\ ActsFollowTable'
      BY <1>6, <2>1, SameDatabase DEF vars
    <2>3. TypeOK' /\ OneCall' /\ RoomIsKept'
      BY <1>6, <2>2 DEF vars, IInv, HistoryInv, TypeOK, OneCall, RoomIsKept, Creating, Activating
    <2>4. InstalledSound'
      BY <1>6, <2>2, InstalledGrows DEF vars
    <2>5. ASSUME NEW g \in Procs, NEW v \in Workers PROVE CallSound(g, op[g][v])'
      <3>1. op[g][v] \in Op \cup {Idle} /\ op'[g][v] = op[g][v] /\ CallSound(g, op[g][v])
        BY <1>6 DEF vars, IInv, TypeOK, CallsSound
      <3> QED
        BY <2>2, <3>1, CallSoundGrows DEF IInv
    <2> QED
      BY <2>2, <2>3, <2>4, <2>5 DEF IInv, CallsSound
  <1> QED
    BY <1>1, <1>2, <1>3, <1>4, <1>5, <1>6 DEF Next

-----------------------------------------------------------------------------
(* What follows                                                            *)

(* The invariant of the service holds always, for any number of processes  *)
(* and workers and any mixture of versions.                                *)
THEOREM ServiceInvariant == Spec => []IInv
  BY ServiceInit, ServiceStep, PTL DEF Spec

(* The variables keep their types; the bounds where calls begin suffice.   *)
THEOREM ServiceTypeOK == Spec => []TypeOK
  <1>1. IInv => TypeOK
    BY DEF IInv
  <1> QED
    BY <1>1, ServiceInvariant, PTL

(* Nothing reaches a runtime or a cache but what the database activated    *)
(* for that household and the process itself can validate.                 *)
THEOREM ServiceInstallsActivated == Spec => []InstalledWasActivated
  <1>1. IInv => InstalledWasActivated
    <2> SUFFICES ASSUME IInv, NEW h \in Procs, NEW p \in Profiles,
                        NEW held \in {runtime[h][p], lkg[h][p]}, held.revision # 0
                 PROVE  /\ held.index \in 1..Len(acts[p]) /\ acts[p][held.index] = held.revision
                        /\ rows[held.revision].activated /\ rows[held.revision].profile = p
                        /\ rows[held.revision].payload \in Valid[h]
      BY DEF InstalledWasActivated
    <2>1. WasActivated(h, p, held) /\ held # Nothing
      BY NothingsType DEF IInv, InstalledSound
    <2> QED
      BY <2>1, ActivatedRow DEF IInv, WasActivated
  <1> QED
    BY <1>1, ServiceInvariant, PTL

(* What a process takes to be active is, at any moment, the one row the    *)
(* table holds active for the household.                                   *)
THEOREM ServiceFollowsTable == Spec => []ActsFollowTable
  <1>1. IInv => ActsFollowTable
    BY DEF IInv
  <1> QED
    BY <1>1, ServiceInvariant, PTL

(* Of all steps, only two write: the creation of a row, and an activation, *)
(* which alone changes acts.                                               *)
LEMMA WhoWrites ==
  ASSUME Next
  PROVE  \/ rows' = rows /\ acts' = acts
         \/ \E h \in Procs, w \in Workers :
              (CreateRevision(h, w) /\ acts' = acts) \/ ActivateRevision(h, w)
  <1>1. ASSUME NEW h \in Procs, NEW d \in DraftIds
        PROVE  /\ \A payload \in Payloads : EditDraft(h, d, payload) => rows' = rows /\ acts' = acts
               /\ DiscardDraft(h, d) => rows' = rows /\ acts' = acts
    BY DEF EditDraft, DiscardDraft
  <1>2. ASSUME NEW h \in Procs, Crash(h)
        PROVE  rows' = rows /\ acts' = acts
    BY <1>2 DEF Crash
  <1>3. ASSUME NEW h \in Procs, NEW w \in Workers
        PROVE  /\ \A kind \in Readers, p \in Profiles :
                    BeginRead(h, w, kind, p) => rows' = rows /\ acts' = acts
               /\ \A d \in DraftIds : BeginSave(h, w, d) => rows' = rows /\ acts' = acts
               /\ \A r \in Revisions, e \in 0..MaxRev \cup {Unchecked} :
                    BeginRollback(h, w, r, e) => rows' = rows /\ acts' = acts
    BY DEF BeginRead, BeginSave, BeginRollback
  <1>4. ASSUME NEW h \in Procs, NEW w \in Workers,
               QueryActive(h, w) \/ QueryNothing(h, w) \/ LoadLkg(h, w)
        PROVE  rows' = rows /\ acts' = acts
    BY <1>4 DEF QueryActive, QueryNothing, LoadLkg
  <1>5. ASSUME NEW h \in Procs, NEW w \in Workers,
               \/ DeliverRead(h, w) \/ DeliverActivated(h, w)
               \/ RaiseConflict(h, w) \/ KeepActive(h, w) \/ CallFails(h, w)
        PROVE  rows' = rows /\ acts' = acts
    BY <1>5 DEF DeliverRead, DeliverActivated, RaiseConflict, KeepActive, CallFails
  <1>6. ASSUME NEW h \in Procs, NEW w \in Workers, CreateRevision(h, w)
        PROVE  acts' = acts
    BY <1>6 DEF CreateRevision
  <1> QED
    BY <1>1, <1>2, <1>3, <1>4, <1>5, <1>6 DEF Next

(* Of the steps of a call, only the handoff touches drafts.                *)
LEMMA WhoDropsDrafts ==
  ASSUME IInv, Next, NEW h \in Procs, NEW w \in Workers,
         op'[h][w] # op[h][w], drafts' # drafts, faults' = faults
  PROVE  DeliverRead(h, w) \/ DeliverActivated(h, w)
  <1>1. ASSUME NEW g \in Procs, NEW d \in DraftIds
        PROVE  /\ \A payload \in Payloads : ~EditDraft(g, d, payload)
               /\ ~DiscardDraft(g, d)
    BY DEF EditDraft, DiscardDraft
  <1>2. ASSUME NEW g \in Procs PROVE ~Crash(g)
    BY DEF Crash, Fault, IInv, TypeOK
  <1>3. ASSUME NEW g \in Procs, NEW v \in Workers
        PROVE  /\ \A kind \in Readers, p \in Profiles : ~BeginRead(g, v, kind, p)
               /\ \A d \in DraftIds : ~BeginSave(g, v, d)
               /\ \A r \in Revisions, e \in 0..MaxRev \cup {Unchecked} : ~BeginRollback(g, v, r, e)
    BY DEF BeginRead, BeginSave, BeginRollback
  <1>4. ASSUME NEW g \in Procs, NEW v \in Workers
        PROVE  ~(QueryActive(g, v) \/ QueryNothing(g, v) \/ LoadLkg(g, v))
    BY DEF QueryActive, QueryNothing, LoadLkg
  <1>5. ASSUME NEW g \in Procs, NEW v \in Workers
        PROVE  ~(CreateRevision(g, v) \/ RaiseConflict(g, v) \/ KeepActive(g, v)
                 \/ ActivateRevision(g, v) \/ CallFails(g, v))
    BY DEF CreateRevision, RaiseConflict, KeepActive, ActivateRevision, CallFails
  <1>6. ASSUME NEW g \in Procs, NEW v \in Workers, DeliverRead(g, v) \/ DeliverActivated(g, v)
        PROVE  g = h /\ v = w
    <2>1. op' = [op EXCEPT ![g][v] = Idle]
      BY <1>6 DEF DeliverRead, DeliverActivated, Finish
    <2> QED
      BY <2>1 DEF IInv, TypeOK
  <1> QED
    BY <1>1, <1>2, <1>3, <1>4, <1>5, <1>6 DEF Next

(* A save consumes nothing but what it activated: an edit made while it    *)
(* waited for the database survives it.                                    *)
THEOREM ServiceKeepsEdits == Spec => NoEditLost
  <1> DEFINE Consumed(h, w, d) ==
        /\ op[h][w].stage = "deliver" /\ op[h][w].kind = "save" /\ op'[h][w] = Idle
        /\ faults' = faults
        /\ drafts[h][d] # NoDraft /\ drafts'[h][d] = NoDraft
             Activated(h, w, d) ==
        /\ rows[op[h][w].candidate].activated
        /\ rows[op[h][w].candidate].payload = drafts[h][d].payload
             Kept == \A h \in Procs, w \in Workers, d \in DraftIds :
                       Consumed(h, w, d) => Activated(h, w, d)
  <1>1. IInv /\ [Next]_vars => [Kept]_vars
    <2> SUFFICES ASSUME IInv, Next, NEW h \in Procs, NEW w \in Workers, NEW d \in DraftIds,
                        Consumed(h, w, d)
                 PROVE  Activated(h, w, d)
      OBVIOUS
    <2>1. DeliverRead(h, w) \/ DeliverActivated(h, w)
      <3>1. op'[h][w] # op[h][w]
        BY CallType
      <3> QED
        BY <3>1, WhoDropsDrafts
    <2>2. DeliverActivated(h, w)
      BY <2>1 DEF DeliverRead
    <2>3. drafts[h][d] = op[h][w].copy
      <3>1. drafts \in [Procs -> [DraftIds -> Draft \cup {NoDraft}]]
        BY DEF IInv, TypeOK
      <3> QED
        BY <2>2, <3>1 DEF DeliverActivated
    <2>4. /\ op[h][w].profile \in Profiles
          /\ WasActivated(h, op[h][w].profile, op[h][w].found) /\ op[h][w].found # Nothing
          /\ op[h][w].candidate = op[h][w].found.revision
          /\ rows[op[h][w].candidate].payload = op[h][w].copy.payload
      BY CallType DEF CallSound
    <2>5. rows[op[h][w].candidate].activated
      BY <2>4, ActivatedRow DEF IInv
    <2> QED
      BY <2>3, <2>4, <2>5
  <1>2. Spec => [][Kept]_vars
    BY <1>1, ServiceInvariant, PTL DEF Spec
  <1> QED
    BY <1>2 DEF NoEditLost

-----------------------------------------------------------------------------
(* The order of the handoff                                                *)

(* Nothing installed is newer than the last activation.                    *)
LEMMA InstalledNotNewer ==
  ASSUME IInv, NEW h \in Procs, NEW p \in Profiles
  PROVE  /\ runtime[h][p] \in Held /\ lkg[h][p] \in Held
         /\ runtime[h][p].index \in Nat /\ lkg[h][p].index \in Nat
         /\ Len(acts[p]) \in Nat /\ runtime[h][p].index <= Len(acts[p])
  <1>1. /\ runtime[h][p] \in Held /\ lkg[h][p] \in Held /\ Len(acts[p]) \in Nat
        /\ WasActivated(h, p, runtime[h][p])
    BY LenProperties DEF IInv, TypeOK, InstalledSound
  <1>2. runtime[h][p].index \in Nat /\ lkg[h][p].index \in Nat
    BY <1>1, ServiceConstants DEF Held
  <1> QED
    BY <1>1, <1>2, NothingsType DEF WasActivated

(* The call x of process h does not undo the order.                        *)
FoundInOrder(h, x) ==
  x.stage = "deliver" /\ x.found # Nothing =>
    /\ x.found.index >= runtime[h][x.profile].index
    /\ x.found.source # "postgresql" => x.found.index <= lkg[h][x.profile].index

(* A step that hands nothing over, but may find something.                 *)
LEMMA OrderKept ==
  ASSUME IInv, HandoffInOrder, NEW h \in Procs, NEW w \in Workers,
         NEW x, op' = [op EXCEPT ![h][w] = x], FoundInOrder(h, x),
         runtime' = runtime, lkg' = lkg
  PROVE  HandoffInOrder'
  <1>1. CacheNotOlder'
    BY DEF HandoffInOrder, CacheNotOlder
  <1>2. ASSUME NEW g \in Procs, NEW v \in Workers PROVE FoundInOrder(g, op[g][v])'
    <2>1. op'[g][v] = IF g = h /\ v = w THEN x ELSE op[g][v]
      BY DEF IInv, TypeOK
    <2>2. FoundInOrder(g, op[g][v])
      BY DEF HandoffInOrder, FoundInOrder
    <2>3. FoundInOrder(g, op'[g][v])
      BY <2>1, <2>2
    <2> QED
      BY <2>3 DEF FoundInOrder
  <1> QED
    BY <1>1, <1>2 DEF HandoffInOrder, FoundInOrder

LEMMA OrderWhenBeginning ==
  ASSUME IInv, HandoffInOrder, NEW h \in Procs, NEW w \in Workers,
         \/ \E kind \in Readers, p \in Profiles : BeginRead(h, w, kind, p)
         \/ \E d \in DraftIds : BeginSave(h, w, d)
         \/ \E r \in Revisions, e \in 0..MaxRev \cup {Unchecked} : BeginRollback(h, w, r, e)
  PROVE  HandoffInOrder'
  <1>1. \E x : op' = [op EXCEPT ![h][w] = x] /\ x.stage # "deliver"
    <2>1. ASSUME NEW kind \in Readers, NEW p \in Profiles, BeginRead(h, w, kind, p)
          PROVE  \E x : op' = [op EXCEPT ![h][w] = x] /\ x.stage # "deliver"
      <3> DEFINE x == [NewOp(kind, "query", p) EXCEPT !.seen = Len(acts[p])]
      <3>1. op' = [op EXCEPT ![h][w] = x] /\ x.stage # "deliver"
        BY <2>1 DEF BeginRead, Begin, NewOp
      <3> QED
        BY <3>1
    <2>2. ASSUME NEW d \in DraftIds, BeginSave(h, w, d)
          PROVE  \E x : op' = [op EXCEPT ![h][w] = x] /\ x.stage # "deliver"
      <3> DEFINE draft == drafts[h][d]
                 x == [NewOp("save", "create", draft.profile) EXCEPT
                         !.draft = d, !.copy = draft,
                         !.expected = draft.base]
      <3>1. op' = [op EXCEPT ![h][w] = x] /\ x.stage # "deliver"
        BY <2>2 DEF BeginSave, Begin, NewOp
      <3> QED
        BY <3>1
    <2>3. ASSUME NEW r \in Revisions, NEW e \in 0..MaxRev \cup {Unchecked},
                 BeginRollback(h, w, r, e)
          PROVE  \E x : op' = [op EXCEPT ![h][w] = x] /\ x.stage # "deliver"
      <3> DEFINE p == rows[r].profile
                 x == [NewOp("rollback", "activate", p) EXCEPT
                         !.candidate = r, !.expected = e]
      <3>1. op' = [op EXCEPT ![h][w] = x] /\ x.stage # "deliver"
        BY <2>3 DEF BeginRollback, Begin, NewOp
      <3> QED
        BY <3>1
    <2> QED
      BY <2>1, <2>2, <2>3
  <1>2. runtime' = runtime /\ lkg' = lkg
    BY DEF BeginRead, BeginSave, BeginRollback
  <1> QED
    BY <1>1, <1>2, OrderKept DEF FoundInOrder

(* A call fails, conflicts, or goes on to activate.                        *)
LEMMA OrderWhenStopping ==
  ASSUME IInv, HandoffInOrder, NEW h \in Procs, NEW w \in Workers,
         \/ CreateRevision(h, w) \/ RaiseConflict(h, w) \/ CallFails(h, w)
  PROVE  HandoffInOrder'
  <1> DEFINE x == [op[h][w] EXCEPT !.stage = "activate", !.candidate = nextRev]
  <1>1. op' = [op EXCEPT ![h][w] = x] \/ op' = [op EXCEPT ![h][w] = Idle]
    BY DEF CreateRevision, RaiseConflict, CallFails, Continue, Finish
  <1>2. op[h][w].stage # "idle"
    BY DEF CreateRevision, RaiseConflict, CallFails
  <1>3. x.stage # "deliver" /\ Idle.stage # "deliver"
    <2>1. op[h][w] \in Op
      BY <1>2, CallType
    <2> QED
      BY <2>1 DEF Op, Idle
  <1> HIDE DEF x
  <1>4. FoundInOrder(h, x) /\ FoundInOrder(h, Idle)
    BY <1>3 DEF FoundInOrder
  <1>5. runtime' = runtime /\ lkg' = lkg
    BY DEF CreateRevision, RaiseConflict, CallFails
  <1> QED
    BY <1>1, <1>4, <1>5, OrderKept

(* What a call finds in the database, or has just written there, is the    *)
(* last activation.                                                        *)
LEMMA OrderWhenFound ==
  ASSUME IInv, HandoffInOrder, NEW h \in Procs, NEW w \in Workers,
         \/ QueryActive(h, w) \/ QueryNothing(h, w) \/ KeepActive(h, w) \/ ActivateRevision(h, w)
  PROVE  HandoffInOrder'
  <1> DEFINE o == op[h][w]
             p == o.profile
             activated == FromDatabase(o.candidate, Len(acts[p]) + 1)
             active == ActiveHeld(p)
  <1>1. o \in Op /\ p \in Profiles
    BY CallType DEF QueryActive, QueryNothing, KeepActive, ActivateRevision
  <1>2. \/ op' = [op EXCEPT ![h][w] = Returned(o, active)]
        \/ op' = [op EXCEPT ![h][w] = Returned(o, Nothing)]
        \/ op' = [op EXCEPT ![h][w] = Returned(o, activated)]
        \/ op' = [op EXCEPT ![h][w] = Idle]
    BY DEF QueryActive, QueryNothing, KeepActive, ActivateRevision, Continue, Finish
  <1>3. runtime' = runtime /\ lkg' = lkg
    BY DEF QueryActive, QueryNothing, KeepActive, ActivateRevision
  <1>4. /\ active.source = "postgresql" /\ active.index = Len(acts[p])
        /\ activated.source = "postgresql" /\ activated.index = Len(acts[p]) + 1
    BY DEF ActiveHeld, FromDatabase
  <1>5. \A found : /\ Returned(o, found).found = found /\ Returned(o, found).profile = p
    BY <1>1 DEF Returned, Op
  <1>6. runtime[h][p].index \in Nat /\ Len(acts[p]) \in Nat
        /\ runtime[h][p].index <= Len(acts[p])
    BY <1>1, InstalledNotNewer
  <1> HIDE DEF active, activated, p, o
  <1>7. FoundInOrder(h, Returned(o, active)) /\ FoundInOrder(h, Returned(o, activated))
    BY <1>4, <1>5, <1>6 DEF FoundInOrder
  <1>8. FoundInOrder(h, Returned(o, Nothing)) /\ FoundInOrder(h, Idle)
    BY <1>5 DEF FoundInOrder, Idle
  <1> QED
    BY <1>2, <1>3, <1>7, <1>8, OrderKept DEF o

(* What a call finds in the cache is not older than what runs.             *)
LEMMA OrderWhenLoaded ==
  ASSUME IInv, HandoffInOrder, NEW h \in Procs, NEW w \in Workers, LoadLkg(h, w)
  PROVE  HandoffInOrder'
  <1> DEFINE o == op[h][w]
             p == o.profile
             found == [lkg[h][p] EXCEPT !.source = "last_known_good"]
  <1>1. o \in Op /\ p \in Profiles
    BY CallType DEF LoadLkg
  <1>2. \/ op' = [op EXCEPT ![h][w] = Returned(o, found)]
        \/ op' = [op EXCEPT ![h][w] = Idle]
    BY DEF LoadLkg, Continue, Finish
  <1>3. runtime' = runtime /\ lkg' = lkg
    BY DEF LoadLkg
  <1>4. lkg[h][p] \in Held /\ lkg[h][p].index \in Nat /\ runtime[h][p].index \in Nat
    BY <1>1, InstalledNotNewer
  <1>5. found.index = lkg[h][p].index
    BY <1>4 DEF Held
  <1>6. lkg[h][p].index >= runtime[h][p].index
    BY <1>1 DEF HandoffInOrder, CacheNotOlder
  <1>7. Returned(o, found).found = found /\ Returned(o, found).profile = p
    BY <1>1 DEF Returned, Op
  <1> HIDE DEF found, p, o
  <1>8. FoundInOrder(h, Returned(o, found)) /\ FoundInOrder(h, Idle)
    BY <1>4, <1>5, <1>6, <1>7 DEF FoundInOrder, Idle
  <1> QED
    BY <1>2, <1>3, <1>8, OrderKept DEF o

(* The handoff itself: all other calls of the process wait for the lock,   *)
(* and the cache is written before the runtime.                            *)
LEMMA OrderWhenDelivered ==
  ASSUME IInv, HandoffInOrder, ~CacheMayFail, NEW h \in Procs, NEW w \in Workers,
         DeliverRead(h, w) \/ DeliverActivated(h, w)
  PROVE  /\ HandoffInOrder'
         /\ \A g \in Procs, q \in Profiles : runtime'[g][q].index >= runtime[g][q].index
  <1> DEFINE p == op[h][w].profile
             found == op[h][w].found
             resourced == [runtime[h][p] EXCEPT !.source = found.source]
  <1>1. op[h][w].stage = "deliver" /\ op' = [op EXCEPT ![h][w] = Idle]
    BY DEF DeliverRead, DeliverActivated, Finish
  <1>2. /\ op[h][w] # Idle /\ p \in Profiles /\ found \in Held
        /\ CallSound(h, op[h][w]) /\ found.index \in Nat
    BY <1>1, CallType, ServiceConstants DEF Held
  <1>3. /\ runtime \in [Procs -> [Profiles -> Held]] /\ lkg \in [Procs -> [Profiles -> Held]]
        /\ \A g \in Procs, q \in Profiles :
             runtime[g][q].index \in Nat /\ lkg[g][q].index \in Nat
             /\ lkg[g][q].index >= runtime[g][q].index
    BY InstalledNotNewer DEF IInv, TypeOK, HandoffInOrder, CacheNotOlder
  <1>4. ASSUME NEW g \in Procs, NEW v \in Workers
        PROVE  op'[g][v] = Idle \/ (g # h /\ op'[g][v] = op[g][v])
    BY <1>1, <1>2 DEF IInv, TypeOK, OneCall
  <1>5. found # Nothing =>
          /\ found.index >= runtime[h][p].index
          /\ found.source # "postgresql" => found.index <= lkg[h][p].index
    BY <1>1 DEF HandoffInOrder
  <1>6. /\ lkg' = lkg \/ lkg' = [lkg EXCEPT ![h][p] = found]
        /\ runtime' = runtime \/ (found # Nothing /\ Install(h, p, found))
        /\ runtime' # runtime /\ found.source = "postgresql" => lkg' = [lkg EXCEPT ![h][p] = found]
        /\ lkg' # lkg => found # Nothing
    <2>1. CASE DeliverRead(h, w)
      BY <2>1 DEF DeliverRead, SaveCache, Nothing
    <2>2. CASE DeliverActivated(h, w)
      BY <1>2, <2>2 DEF DeliverActivated, SaveCache, CallSound
    <2> QED
      BY <2>1, <2>2
  <1>7. resourced.index = runtime[h][p].index
    BY <1>2, <1>3, ResourcedType
  <1> HIDE DEF p, found, resourced
  <1>8. \/ runtime' = runtime
        \/ /\ runtime' = [runtime EXCEPT ![h][p] = resourced]
           /\ runtime[h][p].index > found.index /\ found # Nothing
        \/ runtime' = [runtime EXCEPT ![h][p] = found] /\ found # Nothing
    BY <1>2, <1>3, <1>6 DEF Install, resourced, found
  <1>9. \/ runtime' = runtime
        \/ runtime' = [runtime EXCEPT ![h][p] = found] /\ found # Nothing
    BY <1>2, <1>3, <1>5, <1>8
  <1>10. \A g \in Procs, q \in Profiles :
           /\ runtime'[g][q] = runtime[g][q] \/ (g = h /\ q = p /\ runtime'[g][q] = found /\ found # Nothing)
           /\ lkg'[g][q] = lkg[g][q] \/ (g = h /\ q = p /\ lkg'[g][q] = found /\ found # Nothing)
           /\ g = h /\ q = p /\ runtime'[g][q] # runtime[g][q] /\ found.source = "postgresql"
                => lkg'[g][q] = found
    BY <1>2, <1>3, <1>6, <1>9
  <1>11. \A g \in Procs, q \in Profiles :
           /\ runtime'[g][q].index >= runtime[g][q].index
           /\ lkg'[g][q].index >= runtime'[g][q].index
    BY <1>2, <1>3, <1>5, <1>10
  <1>12. ASSUME NEW g \in Procs, NEW v \in Workers PROVE FoundInOrder(g, op[g][v])'
    <2>1. CASE op'[g][v] = Idle
      BY <2>1 DEF FoundInOrder, Idle
    <2>2. CASE g # h /\ op'[g][v] = op[g][v] /\ op[g][v] # Idle
      <3>1. op[g][v].profile \in Profiles
        BY <2>2 DEF IInv, TypeOK, Op
      <3>2. runtime'[g][op[g][v].profile] = runtime[g][op[g][v].profile]
            /\ lkg'[g][op[g][v].profile] = lkg[g][op[g][v].profile]
        BY <1>10, <2>2, <3>1
      <3>3. FoundInOrder(g, op[g][v])
        BY DEF HandoffInOrder, FoundInOrder
      <3> QED
        BY <2>2, <3>2, <3>3 DEF FoundInOrder
    <2> QED
      BY <1>4, <2>1, <2>2
  <1> QED
    BY <1>11, <1>12 DEF HandoffInOrder, CacheNotOlder, FoundInOrder

(* An edit touches neither; a crash empties the runtime, which no cache    *)
(* can be older than.                                                      *)
LEMMA OrderOtherwise ==
  ASSUME IInv, HandoffInOrder, NEW h \in Procs,
         \/ \E d \in DraftIds :
              (\E payload \in Payloads : EditDraft(h, d, payload)) \/ DiscardDraft(h, d)
         \/ Crash(h)
  PROVE  HandoffInOrder'
  <1>1. CASE UNCHANGED <<runtime, lkg, op>>
    BY <1>1 DEF HandoffInOrder, CacheNotOlder
  <1>2. CASE Crash(h)
    <2>1. /\ \A g \in Procs, v \in Workers : op'[g][v] = Idle \/ (g # h /\ op'[g][v] = op[g][v])
          /\ \A g \in Procs, q \in Profiles :
               runtime'[g][q] = IF g = h THEN Nothing ELSE runtime[g][q]
          /\ lkg' = lkg
      BY <1>2 DEF Crash, IInv, TypeOK
    <2>2. CacheNotOlder'
      BY <2>1, InstalledNotNewer, NothingsType DEF HandoffInOrder, CacheNotOlder
    <2>3. ASSUME NEW g \in Procs, NEW v \in Workers PROVE FoundInOrder(g, op[g][v])'
      <3>1. CASE op'[g][v] = Idle
        BY <3>1 DEF FoundInOrder, Idle
      <3>2. CASE g # h /\ op'[g][v] = op[g][v] /\ op[g][v] # Idle
        <4>1. op[g][v].profile \in Profiles
          BY <3>2 DEF IInv, TypeOK, Op
        <4>2. runtime'[g][op[g][v].profile] = runtime[g][op[g][v].profile]
          BY <2>1, <3>2, <4>1
        <4>3. FoundInOrder(g, op[g][v])
          BY DEF HandoffInOrder, FoundInOrder
        <4> QED
          BY <2>1, <3>2, <4>2, <4>3 DEF FoundInOrder
      <3> QED
        BY <2>1, <3>1, <3>2
    <2> QED
      BY <2>2, <2>3 DEF HandoffInOrder, FoundInOrder
  <1> QED
    BY <1>1, <1>2 DEF EditDraft, DiscardDraft

(* The steps that touch neither the cache nor the runtime of a living      *)
(* process.                                                                *)
LEMMA RuntimeUntouched ==
  ASSUME NEW h \in Procs, NEW w \in Workers,
         \/ \E kind \in Readers, p \in Profiles : BeginRead(h, w, kind, p)
         \/ QueryActive(h, w) \/ QueryNothing(h, w) \/ LoadLkg(h, w)
         \/ \E d \in DraftIds : BeginSave(h, w, d)
         \/ CreateRevision(h, w)
         \/ \E r \in Revisions, e \in 0..MaxRev \cup {Unchecked} : BeginRollback(h, w, r, e)
         \/ RaiseConflict(h, w) \/ KeepActive(h, w) \/ ActivateRevision(h, w)
         \/ CallFails(h, w)
  PROVE  runtime' = runtime
  BY DEF BeginRead, QueryActive, QueryNothing, LoadLkg, BeginSave, CreateRevision, BeginRollback,
     RaiseConflict, KeepActive, ActivateRevision, CallFails

NeverRegresses ==
  \A h \in Procs, p \in Profiles :
    runtime[h][p] # Nothing /\ runtime'[h][p] # Nothing
    => runtime'[h][p].index >= runtime[h][p].index

LEMMA OrderStep ==
  ASSUME IInv, HandoffInOrder, Next, ~CacheMayFail
  PROVE  HandoffInOrder' /\ NeverRegresses
  <1>1. PICK h \in Procs :
          \/ \E d \in DraftIds :
               (\E payload \in Payloads : EditDraft(h, d, payload)) \/ DiscardDraft(h, d)
          \/ Crash(h)
          \/ \E w \in Workers :
               \/ \E kind \in Readers, p \in Profiles : BeginRead(h, w, kind, p)
               \/ QueryActive(h, w) \/ QueryNothing(h, w) \/ LoadLkg(h, w)
               \/ DeliverRead(h, w)
               \/ \E d \in DraftIds : BeginSave(h, w, d)
               \/ CreateRevision(h, w)
               \/ \E r \in Revisions, e \in 0..MaxRev \cup {Unchecked} : BeginRollback(h, w, r, e)
               \/ RaiseConflict(h, w) \/ KeepActive(h, w) \/ ActivateRevision(h, w)
               \/ DeliverActivated(h, w)
               \/ CallFails(h, w)
    BY DEF Next
  <1>2. /\ \A g \in Procs, p \in Profiles : runtime[g][p].index \in Nat
        /\ runtime' = runtime => NeverRegresses
    <2>1. \A g \in Procs, p \in Profiles : runtime[g][p].index \in Nat
      BY InstalledNotNewer
    <2> QED
      BY <2>1 DEF NeverRegresses
  <1>3. ASSUME NEW d \in DraftIds,
               (\E payload \in Payloads : EditDraft(h, d, payload)) \/ DiscardDraft(h, d)
        PROVE  HandoffInOrder' /\ NeverRegresses
    <2>1. runtime' = runtime
      BY <1>3 DEF EditDraft, DiscardDraft
    <2> QED
      BY <1>2, <1>3, <2>1, OrderOtherwise
  <1>4. CASE Crash(h)
    <2>1. \A g \in Procs, p \in Profiles : runtime'[g][p] \in {Nothing, runtime[g][p]}
      BY <1>4 DEF Crash, IInv, TypeOK
    <2>2. NeverRegresses
      BY <1>2, <2>1 DEF NeverRegresses
    <2> QED
      BY <1>4, <2>2, OrderOtherwise
  <1>5. ASSUME NEW w \in Workers,
               \/ \E kind \in Readers, p \in Profiles : BeginRead(h, w, kind, p)
               \/ \E d \in DraftIds : BeginSave(h, w, d)
               \/ \E r \in Revisions, e \in 0..MaxRev \cup {Unchecked} : BeginRollback(h, w, r, e)
        PROVE  HandoffInOrder' /\ NeverRegresses
    <2>1. runtime' = runtime
      BY <1>5, RuntimeUntouched
    <2> QED
      BY <1>2, <1>5, <2>1, OrderWhenBeginning
  <1>6. ASSUME NEW w \in Workers,
               \/ QueryActive(h, w) \/ QueryNothing(h, w) \/ LoadLkg(h, w)
               \/ CreateRevision(h, w) \/ RaiseConflict(h, w) \/ KeepActive(h, w)
               \/ ActivateRevision(h, w) \/ CallFails(h, w)
        PROVE  HandoffInOrder' /\ NeverRegresses
    <2>1. runtime' = runtime
      BY <1>6, RuntimeUntouched
    <2> QED
      BY <1>2, <1>6, <2>1, OrderWhenStopping, OrderWhenFound, OrderWhenLoaded
  <1>7. ASSUME NEW w \in Workers, DeliverRead(h, w) \/ DeliverActivated(h, w)
        PROVE  HandoffInOrder' /\ NeverRegresses
    BY <1>7, OrderWhenDelivered DEF NeverRegresses
  <1> QED
    BY <1>1, <1>3, <1>4, <1>5, <1>6, <1>7

(* As long as the cache can be written, a process that loses the database  *)
(* finds in its cache what it ran last or something newer; and it never    *)
(* goes back to an older activation while it runs.                         *)
THEOREM ServiceHandsOverInOrder ==
  ASSUME ~CacheMayFail
  PROVE  Spec => []CacheNotOlder /\ RuntimeNeverRegresses
  <1>1. Init => HandoffInOrder
    BY DEF Init, HandoffInOrder, CacheNotOlder, Nothing, Idle
  <1>2. IInv /\ HandoffInOrder /\ [Next]_vars => HandoffInOrder' /\ [NeverRegresses]_vars
    <2>1. CASE UNCHANGED vars
      BY <2>1 DEF vars, HandoffInOrder, CacheNotOlder
    <2> QED
      BY <2>1, OrderStep
  <1>3. HandoffInOrder => CacheNotOlder
    BY DEF HandoffInOrder
  <1>4. Spec => []CacheNotOlder /\ [][NeverRegresses]_vars
    BY <1>1, <1>2, <1>3, ServiceInvariant, PTL DEF Spec
  <1> QED
    BY <1>4 DEF RuntimeNeverRegresses, NeverRegresses

-----------------------------------------------------------------------------
(* The history below                                                       *)

(* Every step of the service is a Create, an Activate or none to the table. *)
LEMMA ServiceHistoryStep == IInv /\ [Next]_vars => [HistoryNext]_rows
  <1> SUFFICES ASSUME IInv, Next PROVE [HistoryNext]_rows
    BY DEF vars
  <1>1. ASSUME NEW h \in Procs, NEW w \in Workers, CreateRevision(h, w) PROVE HistoryNext
    <2>1. /\ Create(nextRev, op[h][w].profile, op[h][w].copy.payload)
          /\ nextRev \in Revisions /\ op[h][w].profile \in Profiles
          /\ op[h][w].copy.payload \in Payloads
      BY <1>1, CreateRevisionInv DEF CreateRevision
    <2> QED
      BY <2>1 DEF HistoryNext
  <1>2. ASSUME NEW h \in Procs, NEW w \in Workers, ActivateRevision(h, w) PROVE HistoryNext
    <2>1. Activate(op[h][w].candidate) /\ op[h][w].candidate \in Revisions
      BY <1>2, ActivateRevisionInv DEF ActivateRevision
    <2> QED
      BY <2>1 DEF HistoryNext
  <1>3. \/ UNCHANGED rows
        \/ \E h \in Procs, w \in Workers : CreateRevision(h, w) \/ ActivateRevision(h, w)
    BY WhoWrites
  <1> QED
    BY <1>1, <1>2, <1>3

(* The service, in however many processes, implements the history that     *)
(* RegistryStore implements below it.                                      *)
THEOREM ServiceImplementsHistory == Spec => HistorySpec
  <1>1. Init => HistoryInit
    BY DEF Init
  <1> QED
    BY <1>1, ServiceHistoryStep, ServiceInvariant, PTL DEF Spec, HistorySpec

(* So through all processes together a household that is configured stays  *)
(* so, with at most one active revision, and no revision is rewritten.     *)
THEOREM ServiceKeepsHistory ==
  Spec => [](OneActivePerProfile /\ ActivatedMeansValidated)
          /\ ActiveNeverVanishes /\ HistoryAppendOnly
  <1>1. HistoryInv => OneActivePerProfile /\ ActivatedMeansValidated
    BY DEF HistoryInv
  <1> QED
    BY <1>1, ServiceImplementsHistory, HistorySafe, HistoryKeepsItsPromises, PTL
=============================================================================
