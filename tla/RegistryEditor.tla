--------------------------- MODULE RegistryEditor ---------------------------
(***************************************************************************)
(* One browser page that edits a registry: RegistryEditor                  *)
(* (registry.svelte.ts), the websocket commands it sends (websocket_api.py)*)
(* and the drafts of RegistryDomainService those commands work on          *)
(* (registry_service.py).                                                  *)
(*                                                                         *)
(* A call of the page runs statement by statement: each statement is one   *)
(* request, and page, network and service take their steps in between      *)
(* others: another administrator activates, the user of the page changes,  *)
(* the connection drops, Home Assistant restarts.  RegistryService has the *)
(* database below the commands; here a command is one step of the service. *)
(*                                                                         *)
(* A payload is a function from the items configured to their content.  A  *)
(* page knows a draft by an unguessable id and holds at most one, so only  *)
(* that one is kept here: a draft the page forgets can no longer be named  *)
(* by anybody.  Ids of new items are generated; the page never offers one  *)
(* that its payload holds already.                                         *)
(*                                                                         *)
(* The form checks that precede a request, the validation report shown,    *)
(* export, migration hints and the candidate list are left out: they       *)
(* change neither draft nor base.                                          *)
(***************************************************************************)
EXTENDS Integers, Sequences, FiniteSets, SequencesExt

CONSTANTS
  Profiles,   (* households                                                *)
  Default,    (* the one a page shows first                                *)
  Users,      (* users of Home Assistant                                   *)
  Admins,     (* those of them with is_admin                               *)
  Items,      (* bindings, contract instances, fusions                     *)
  KindOf,     (* item -> its kind                                          *)
  Contents,   (* item -> what an administrator may enter for it            *)
  Inputs,     (* fusion -> the bindings and fusions it reads               *)
  ContractOf, (* fusion -> its contract instance                           *)
  Misfits,    (* pairs of fusion and a content of its contract that lacks  *)
              (* the field of the fusion                                   *)
  Documents,  (* pairs of profile and payload that may be imported         *)
  Existing,   (* profile -> the payloads of its revisions so far           *)
  None,       (* null                                                      *)
  MaxRev,     (* bound: profile -> revisions                               *)
  MaxFaults   (* bound: failed requests, lost answers, restarts            *)

Kinds == {"binding", "instance", "fusion"}

VARIABLES
  rows,     (* profile -> the payloads of its revisions, in order          *)
  active,   (* profile -> the number of its active revision, 0 if none     *)
  served,   (* the draft the service holds for the page, or None           *)
  page,     (* the fields of the RegistryEditor                            *)
  call,     (* what the page is executing: None unless busy                *)
  faults    (* failures so far                                             *)

vars == <<rows, active, served, page, call, faults>>

Entered == UNION {Contents[i] : i \in Items}

Payloads == UNION {{f \in [S -> Entered] : \A i \in S : f[i] \in Contents[i]} :
                     S \in SUBSET Items}

Nothing == [i \in {} |-> None]

AllRevs == UNION {0..MaxRev[p] : p \in Profiles}

Draft == [owner : Users, profile : Profiles, base : AllRevs, payload : Payloads]

(* What was read last: the active revision, the revisions there were.      *)
View == [active : AllRevs, last : AllRevs]

(* An open form: original is None for a new item.                          *)
Form == [item : Items, content : Entered, original : Entered \cup {None}]

Page == [user : Users \cup {None}, profile : Profiles, view : View \cup {None},
         draft : Draft \cup {None}, forms : [Kinds -> Form \cup {None}],
         changed : BOOLEAN, editBase : AllRevs \cup {None},
         document : Documents \cup {None}]

(* What a page may do next, and the command it sends for it.               *)
Statements ==
       [do : {"ensure", "contract", "validate", "save", "drop", "clearAndRead"},
        kind : {None}, item : {None}, with : {None}]
  \cup [do : {"put"}, kind : Kinds, item : {None}, with : {None}]
  \cup [do : {"set"}, kind : {None}, item : Items, with : Entered]
  \cup [do : {"delete"}, kind : {None}, item : Items, with : {None}]
  \cup [do : {"read"}, kind : {None}, item : {None}, with : Profiles]
  \cup [do : {"import"}, kind : {None}, item : {None}, with : Documents]
  \cup [do : {"rollback"}, kind : {None}, item : {None}, with : AllRevs]

Command(dos, items, withs) ==
  [user : Users, do : dos, profile : Profiles, base : AllRevs, item : items,
   with : withs, new : BOOLEAN]

Commands ==
       Command({"ensure", "validate", "save", "drop", "clearAndRead"}, {None}, {None})
  \cup Command({"put", "contract", "set"}, Items, Entered)
  \cup Command({"delete"}, Items, {None})
  \cup Command({"read"}, {None}, Profiles)
  \cup Command({"import"}, {None}, Documents)
  \cup Command({"rollback"}, {None}, AllRevs)

Answer == [ok : BOOLEAN, draft : Draft \cup {None}, view : View \cup {None}]

Call == [todo : Seq(Statements), current : BOOLEAN, at : {"request", "answer"},
         message : Commands, answer : Answer \cup {None}]

ASSUME EditorConstants ==
  /\ Default \in Profiles /\ Admins \subseteq Users
  /\ KindOf \in [Items -> Kinds]
  /\ \A i \in Items :
       /\ Contents[i] # {}
       /\ KindOf[i] = "fusion" => Inputs[i] \subseteq Items /\ ContractOf[i] \in Items
  /\ Documents \subseteq [profile : Profiles, payload : Payloads]
  /\ MaxRev \in [Profiles -> Nat] /\ MaxFaults \in Nat
  /\ Existing \in [Profiles -> Seq(Payloads)]
  /\ \A p \in Profiles : Len(Existing[p]) <= MaxRev[p]

ASSUME NoneIsNothing ==
  /\ None \notin Users /\ None \notin AllRevs
  /\ None \notin Draft /\ None \notin Answer /\ None \notin Call

Blank(user, profile) ==
  [user |-> user, profile |-> profile, view |-> None, draft |-> None,
   forms |-> [k \in Kinds |-> None], changed |-> FALSE, editBase |-> None,
   document |-> None]

TypeOK ==
  /\ rows \in [Profiles -> Seq(Payloads)]
  /\ active \in [Profiles -> AllRevs]
  /\ \A p \in Profiles : active[p] <= Len(rows[p]) /\ Len(rows[p]) <= MaxRev[p]
  /\ served \in Draft \cup {None}
  /\ page \in Page
  /\ call \in Call \cup {None}
  /\ call # None => call.todo # <<>>
  /\ faults \in 0..MaxFaults

-----------------------------------------------------------------------------
(* What the page derives from its fields *)

PayloadAt(p, rev) == IF rev = 0 THEN Nothing ELSE rows[p][rev]

(* bindings, fusions, instances: of the draft, or of the active revision.  *)
Shown(s) ==
  IF s.draft # None THEN s.draft.payload
  ELSE IF s.view # None THEN PayloadAt(s.profile, s.view.active) ELSE Nothing

FormDirty(s, k) == s.forms[k] # None /\ s.forms[k].content # s.forms[k].original

Dirty(s) == s.changed \/ \E k \in Kinds : FormDirty(s, k)

(* Faulty: the base follows what the page shows.                           *)
Base_Shown(s) ==
  IF s.draft # None THEN s.draft.base ELSE IF s.view # None THEN s.view.active ELSE 0

(* Faulty: a page that has read nothing has no base.                       *)
Base_Unset(s) ==
  IF s.draft # None THEN s.draft.base ELSE IF s.editBase # None THEN s.editBase
  ELSE IF s.view # None THEN s.view.active ELSE None

Base(s) ==
  IF s.draft # None THEN s.draft.base
  ELSE IF s.editBase # None THEN s.editBase
  ELSE IF s.view # None THEN s.view.active ELSE 0

(* clear()                                                                 *)
Cleared(s) == [Blank(s.user, s.profile) EXCEPT !.view = s.view, !.document = s.document]

-----------------------------------------------------------------------------
(* A call is a list of statements.  A statement that has nothing to do is  *)
(* skipped; every other one sends a request and waits for its answer.      *)

Statement(do) == [do |-> do, kind |-> None, item |-> None, with |-> None]
Put(k) == [Statement("put") EXCEPT !.kind = k]
On(do, i, v) == [Statement(do) EXCEPT !.item = i, !.with = v]
Read(p) == On("read", None, p)

(* Faulty: save takes over the forms it knew when it was written.          *)
ApplyAll_NoFusion == <<Statement("ensure"), Put("binding"), Put("instance")>>

(* applyEditor, applyInstanceEditor, applyFusionEditor, ensureDraft        *)
ApplyAll ==
  <<Statement("ensure"), Put("binding"), Put("instance"), Statement("contract"), Put("fusion")>>

MissingContract(s) ==
  /\ FormDirty(s, "fusion")
  /\ s.draft # None => ContractOf[s.forms["fusion"].item] \notin DOMAIN s.draft.payload

Skipped(s, statement) ==
  CASE statement.do = "ensure" -> s.draft # None
    [] statement.do = "put" -> ~FormDirty(s, statement.kind)
    [] statement.do = "contract" -> ~MissingContract(s)
    [] statement.do = "drop" -> s.draft = None
    [] OTHER -> FALSE

Needed(s, script) ==
  LET todo == {i \in DOMAIN script : ~Skipped(s, script[i])} IN
  IF todo = {} THEN <<>>
  ELSE SubSeq(script, CHOOSE i \in todo : \A j \in todo : i <= j, Len(script))

(* What the page changes of itself before it sends a statement: it clears  *)
(* itself, or turns to the other profile, once the draft is gone.          *)
Prepared(s, statement) ==
  CASE statement.do = "clearAndRead" -> [Blank(s.user, s.profile) EXCEPT !.view = s.view]
    [] statement.do = "read" /\ statement.with # s.profile -> Blank(s.user, statement.with)
    [] OTHER -> s

(* The request of a statement: its sender and its arguments.               *)
Request(s, statement) ==
  LET form == s.forms[statement.kind]
      request == [user |-> s.user, do |-> statement.do, profile |-> s.profile,
                  base |-> Base(s), item |-> statement.item, with |-> statement.with,
                  new |-> FALSE]
  IN CASE statement.do = "put" ->
            [request EXCEPT !.item = form.item, !.with = form.content,
                            !.new = (form.original = None)]
       [] statement.do = "contract" ->
            LET c == ContractOf[s.forms["fusion"].item] IN
            [request EXCEPT !.item = c, !.new = TRUE, !.with = CHOOSE v \in Contents[c] : TRUE]
       [] OTHER -> request

(* Continue with the statements left, or leave run().                      *)
Proceed(s, script) ==
  LET todo == Needed(s, script) IN
  IF todo = <<>> THEN page' = s /\ call' = None
  ELSE LET next == Prepared(s, todo[1]) IN
       /\ page' = next
       /\ call' = [todo |-> todo, current |-> TRUE, at |-> "request",
                   message |-> Request(next, todo[1]), answer |-> None]

Begin(script) ==
  /\ call = None /\ page.user # None
  /\ Needed(page, script) # <<>>
  /\ page.user \notin Admins => Needed(page, script)[1].do \in {"read", "clearAndRead"}
  /\ Proceed(page, script)
  /\ UNCHANGED <<rows, active, served, faults>>

-----------------------------------------------------------------------------
(* The service *)

Has(payload, kind) == \E i \in DOMAIN payload : KindOf[i] = kind

FusionsOf(payload) == {f \in DOMAIN payload : KindOf[f] = "fusion"}

(* validate_registry_payload: the topology; the contracts, once there are  *)
(* any.                                                                    *)
Valid(payload) ==
  \A f \in FusionsOf(payload) :
    /\ Inputs[f] \subseteq DOMAIN payload
    /\ Has(payload, "instance") =>
         /\ ContractOf[f] \in DOMAIN payload
         /\ <<f, payload[ContractOf[f]]>> \notin Misfits

With(payload, i, v) == [j \in DOMAIN payload \cup {i} |-> IF j = i THEN v ELSE payload[j]]

Without(payload, i) == [j \in DOMAIN payload \ {i} |-> payload[j]]

(* _get_draft                                                              *)
Holds(m) == served # None /\ served.owner = m.user

(* create and update; a fusion is put only into a payload that is valid.   *)
CanPut(payload, m) ==
  /\ m.new <=> m.item \notin DOMAIN payload
  /\ KindOf[m.item] = "fusion" => Valid(With(payload, m.item, m.with))

(* Faulty: an item that is there may go.                                   *)
CanDelete_Referenced(payload, m) == m.item \in DOMAIN payload

CanDelete(payload, m) ==
  /\ m.item \in DOMAIN payload
  /\ \A f \in FusionsOf(payload) : m.item \notin Inputs[f] /\ m.item # ContractOf[f]

CanOpen(m) == m.base = active[m.profile]

CanSave(m) ==
  /\ m.base = served.base /\ m.base = active[served.profile]
  /\ Valid(served.payload)

CanRollBack(m) == m.base = active[m.profile] /\ Valid(rows[m.profile][m.with])

Accepts(m) ==
  CASE m.do \in {"read", "clearAndRead"} -> TRUE
    [] m.do = "ensure" -> CanOpen(m)
    [] m.do = "import" -> m.with.profile = m.profile /\ Valid(m.with.payload) /\ CanOpen(m)
    [] m.do = "rollback" -> CanRollBack(m)
    [] m.do \in {"put", "contract"} -> Holds(m) /\ CanPut(served.payload, m)
    [] m.do = "set" -> Holds(m) /\ m.item \in DOMAIN served.payload
    [] m.do = "delete" -> Holds(m) /\ CanDelete(served.payload, m)
    [] m.do = "save" -> Holds(m) /\ CanSave(m)
    [] OTHER -> Holds(m)

Opened(m, payload) ==
  [owner |-> m.user, profile |-> m.profile, base |-> m.base, payload |-> payload]

ServedAfter(m) ==
  CASE m.do = "ensure" -> Opened(m, PayloadAt(m.profile, active[m.profile]))
    [] m.do = "import" -> Opened(m, m.with.payload)
    [] m.do \in {"put", "contract", "set"} ->
         [served EXCEPT !.payload = With(@, m.item, m.with)]
    [] m.do = "delete" -> [served EXCEPT !.payload = Without(@, m.item)]
    [] m.do \in {"save", "drop"} -> None
    [] OTHER -> served

Failed == [call EXCEPT !.at = "answer", !.answer = [ok |-> FALSE, draft |-> None, view |-> None]]

Succeeded(m) ==
  [call EXCEPT !.at = "answer",
               !.answer = [ok |-> TRUE, draft |-> ServedAfter(m),
                            view |-> [active |-> active[m.profile], last |-> Len(rows[m.profile])]]]

Refuse == ~Accepts(call.message) /\ call' = Failed /\ UNCHANGED <<rows, active, served>>

Comply ==
  LET m == call.message IN
  /\ Accepts(m)
  /\ served' = ServedAfter(m)
  /\ rows' = IF m.do = "save" THEN [rows EXCEPT ![m.profile] = Append(@, served.payload)]
             ELSE rows
  /\ active' = CASE m.do = "save" -> [active EXCEPT ![m.profile] = Len(rows[m.profile]) + 1]
                 [] m.do = "rollback" -> [active EXCEPT ![m.profile] = m.with]
                 [] OTHER -> active
  /\ call' = Succeeded(m)

(* One command runs at the service.                                        *)
Serve ==
  /\ call # None /\ call.at = "request"
  /\ Comply \/ Refuse
  /\ UNCHANGED <<page, faults>>

-----------------------------------------------------------------------------
(* The page takes an answer *)

Closed(s, i) ==
  [s EXCEPT !.forms[KindOf[i]] = IF @ # None /\ @.item = i THEN None ELSE @]

After(s, statement, answer) ==
  LET edited == [s EXCEPT !.draft = answer.draft, !.changed = TRUE] IN
  CASE statement.do = "ensure" -> [s EXCEPT !.draft = answer.draft]
    [] statement.do = "put" ->
         [edited EXCEPT !.forms[statement.kind].original = call.message.with]
    [] statement.do \in {"contract", "set"} -> edited
    [] statement.do = "delete" -> Closed(edited, statement.item)
    [] statement.do = "drop" -> [s EXCEPT !.draft = None]
    [] statement.do = "import" ->
         [Cleared(s) EXCEPT !.draft = answer.draft, !.changed = TRUE, !.document = None]
    [] statement.do \in {"save", "rollback"} -> Cleared(s)
    [] statement.do \in {"read", "clearAndRead"} -> [s EXCEPT !.view = answer.view]
    [] OTHER -> s

(* Faulty: the answer counts whoever is in front of the page by now.       *)
Usable_Always == call.answer.ok

(* The generation is the one the request was sent in.                      *)
Usable == call.answer.ok /\ call.current

(* The draft of the service, as long as the page can name it.              *)
Named == IF page'.draft = None THEN None ELSE served

Receive ==
  /\ call # None /\ call.at = "answer"
  /\ IF Usable THEN Proceed(After(page, call.todo[1], call.answer), Tail(call.todo))
     ELSE call' = None /\ UNCHANGED page
  /\ served' = Named
  /\ UNCHANGED <<rows, active, faults>>

-----------------------------------------------------------------------------
(* The user in front of the page *)

AtWork == page.user \in Admins

(* Faulty: the fields stay open while the page waits.                      *)
Frozen_Never == FALSE

(* Fields and buttons are disabled while the page waits.                   *)
Frozen == call # None

(* Bound: nobody edits towards a revision there is no room for.            *)
Room ==
  Base(page) = active[page.profile] => Len(rows[page.profile]) < MaxRev[page.profile]

(* Bound: nobody opens a form that leaves nothing to enter.                *)
Opens(i, new) == new \/ Cardinality(Contents[i]) > 1

(* select, selectInstance, selectFusion                                    *)
OpenForm(i, v) ==
  LET k == KindOf[i]
      shown == Shown(page)
      new == i \notin DOMAIN shown
  IN /\ AtWork /\ ~Frozen /\ ~FormDirty(page, k) /\ Room /\ Opens(i, new)
     /\ ~new => v = shown[i]
     /\ page' = [page EXCEPT
          !.editBase = IF @ # None THEN @ ELSE Base(page),
          !.forms[k] = [item |-> i, content |-> v, original |-> IF new THEN None ELSE v]]
     /\ UNCHANGED <<rows, active, served, call, faults>>

Type(k, v) ==
  /\ AtWork /\ ~Frozen
  /\ page.forms[k] # None /\ v \in Contents[page.forms[k].item] \ {page.forms[k].content}
  /\ page' = [page EXCEPT !.forms[k].content = v]
  /\ UNCHANGED <<rows, active, served, call, faults>>

(* The text of an import is not frozen; nobody pastes one into unsaved     *)
(* work (bound).                                                           *)
Paste(document) ==
  /\ AtWork /\ page.document # document /\ ~Dirty(page)
  /\ page' = [page EXCEPT !.document = document]
  /\ UNCHANGED <<rows, active, served, call, faults>>

Refresh == Begin(<<Read(page.profile)>>)

Apply(k) ==
  /\ FormDirty(page, k)
  /\ Begin(<<Statement("ensure")>> \o
           (IF k = "fusion" THEN <<Statement("contract")>> ELSE <<>>) \o <<Put(k)>>)

Validate == Begin(ApplyAll \o <<Statement("validate")>>)

Save ==
  /\ Dirty(page) /\ Room
  /\ Begin(ApplyAll \o <<Statement("save"), Read(page.profile)>>)

RemoveItem(i) ==
  /\ Room /\ i \in DOMAIN Shown(page)
  /\ KindOf[i] = "instance" /\ FormDirty(page, "instance") => page.forms["instance"].item # i
  /\ Begin(<<Statement("ensure"), On("delete", i, None)>>)

(* Only bindings have an enabled flag.                                     *)
Toggle(i, v) ==
  /\ Room /\ i \in DOMAIN Shown(page) /\ KindOf[i] = "binding" /\ v \in Contents[i] \ {Shown(page)[i]}
  /\ page.forms["binding"] # None /\ page.forms["binding"].item = i => ~Dirty(page)
  /\ Begin(<<Statement("ensure"), On("set", i, v)>>)

Discard ==
  /\ AtWork /\ (Dirty(page) \/ page.draft # None \/ page.document # None)
  /\ Begin(<<Statement("drop"), Statement("clearAndRead")>>)

SwitchProfile(p) ==
  /\ p # page.profile /\ ~Dirty(page) /\ page.document = None
  /\ Begin(<<Statement("drop"), Read(p)>>)

Import ==
  /\ ~Dirty(page) /\ page.document # None
  /\ Begin(<<Statement("drop"), On("import", None, page.document)>>)

(* The list of revisions is the one of the last read.                      *)
Rollback(rev) ==
  /\ ~Dirty(page) /\ page.view # None /\ rev \in 1..page.view.last \ {page.view.active}
  /\ Begin(<<On("rollback", None, rev), Read(page.profile)>>)

(* setHass with another user, or none.                                     *)
ChangeUser(user) ==
  /\ page.user # user
  /\ IF page.user = None THEN page' = [page EXCEPT !.user = user] /\ UNCHANGED call
     ELSE /\ page' = Blank(user, page.profile)
          /\ call' = IF call = None THEN None ELSE [call EXCEPT !.current = FALSE]
  /\ served' = IF call = None THEN Named ELSE served
  /\ UNCHANGED <<rows, active, faults>>

-----------------------------------------------------------------------------
(* The others, and what goes wrong *)

(* Another administrator activates a revision; there stays room for a save *)
(* that is under way (bound).                                              *)
OtherSaves(p, document) ==
  /\ Len(rows[p]) + (IF call # None THEN 1 ELSE 0) < MaxRev[p]
  /\ document.profile = p /\ Valid(document.payload)
  /\ rows' = [rows EXCEPT ![p] = Append(@, document.payload)]
  /\ active' = [active EXCEPT ![p] = Len(rows[p]) + 1]
  /\ UNCHANGED <<served, page, call, faults>>

Fault == faults < MaxFaults /\ faults' = faults + 1

(* The connection or the database fails before the command did anything.   *)
LoseRequest ==
  /\ Fault /\ call # None /\ call.at = "request"
  /\ call' = Failed
  /\ UNCHANGED <<rows, active, served, page>>

LoseAnswer ==
  /\ Fault /\ call # None /\ call.at = "answer" /\ call.answer.ok
  /\ call' = Failed
  /\ UNCHANGED <<rows, active, served, page>>

(* Home Assistant restarts: drafts are in memory only.                     *)
Restart ==
  /\ Fault
  /\ served' = None
  /\ call' = IF call = None THEN None ELSE Failed
  /\ UNCHANGED <<rows, active, page>>

-----------------------------------------------------------------------------

(* A household runs on a revision that was validated when it was activated. *)
ASSUME ActiveWasValidated ==
  \A p \in Profiles : Existing[p] # <<>> => Valid(Existing[p][Len(Existing[p])])

Init ==
  /\ rows = Existing /\ active = [p \in Profiles |-> Len(rows[p])]
  /\ served = None /\ call = None /\ faults = 0
  /\ page = Blank(None, Default)

Next ==
  \/ Serve \/ Receive
  \/ \E i \in Items : \E v \in Contents[i] : OpenForm(i, v)
  \/ \E k \in Kinds, i \in Items : \E v \in Contents[i] : Type(k, v)
  \/ \E document \in Documents : Paste(document)
  \/ Refresh
  \/ \E k \in Kinds : Apply(k)
  \/ Validate \/ Save
  \/ \E i \in Items : RemoveItem(i)
  \/ \E i \in Items : \E v \in Contents[i] : Toggle(i, v)
  \/ Discard
  \/ \E p \in Profiles : SwitchProfile(p)
  \/ Import
  \/ \E rev \in AllRevs : Rollback(rev)
  \/ \E user \in Users \cup {None} : ChangeUser(user)
  \/ \E p \in Profiles, document \in Documents : OtherSaves(p, document)
  \/ LoseRequest \/ LoseAnswer \/ Restart

Spec == Init /\ [][Next]_vars

(* Commands run and are answered; whoever keeps pressing discard is not    *)
(* kept from it for ever.                                                  *)
Fairness == WF_vars(Serve \/ Receive) /\ SF_vars(Discard)

FairSpec == Spec /\ Fairness

-----------------------------------------------------------------------------
(* Properties *)

(* While there is unsaved work, the revision it is based on stays what it  *)
(* was, whatever is read, refused or activated meanwhile: the conflict     *)
(* check of draft/create and draft/save compares the base the work began   *)
(* on (select's editBase, Draft.base_revision).                            *)
NoSilentRebase == [][Dirty(page) /\ Dirty(page') => Base(page') = Base(page)]_vars

(* What a page shows as its draft was opened by the user in front of it,   *)
(* for the household it shows: an answer to an earlier user, or to the     *)
(* page of the other household, is dropped (generation, switchProfile).    *)
SessionIsOwn ==
  page.draft # None => page.draft.owner = page.user /\ page.draft.profile = page.profile

(* A fusion of a draft finds every binding and fusion it reads in it, at   *)
(* any point of an edit session: the checks of put and delete keep it so   *)
(* without validating the draft as a whole.                                *)
DraftsHangTogether ==
  served # None =>
    \A f \in FusionsOf(served.payload) : Inputs[f] \subseteq DOMAIN served.payload

Acknowledged(do) == call.todo[1].do = do /\ call.at = "answer" /\ call.answer.ok

(* Unsaved work ends on purpose only: the user leaves, takes it back by    *)
(* hand, discards it, or it is saved, and then no form holds anything that *)
(* went into the saved draft no more: no failure, conflict or refresh      *)
(* takes it away (registry-ux-v1.md).                                      *)
WorkEndsOnPurpose ==
  [][Dirty(page) /\ ~Dirty(page') =>
       \/ page'.user # page.user
       \/ call = None /\ call' = None
       \/ call' # None /\ call'.todo[1].do = "clearAndRead"
       \/ Acknowledged("save") /\ \A k \in Kinds : ~FormDirty(page, k)]_vars

(* What the page presents: its payload, and over it what its forms hold.   *)
Presented(s) ==
  LET forms == {s.forms[k] : k \in {k \in Kinds : FormDirty(s, k)}}
      items == {form.item : form \in forms}
  IN [i \in DOMAIN Shown(s) \cup items |->
        IF i \in items THEN (CHOOSE form \in forms : form.item = i).content ELSE Shown(s)[i]]

(* As long as no answer was lost, a save activates exactly what the page   *)
(* of its user presents at that moment: no more, and nothing left behind.  *)
SavedIsPresented ==
  [][\A p \in Profiles :
       /\ faults = 0 /\ call # None /\ call.current /\ call.at = "request"
       /\ call.message.do = "save" /\ Len(rows'[p]) > Len(rows[p]) /\ call'.at = "answer"
       => rows'[p] = Append(rows[p], Presented(page))]_vars

(* Discarding helps: whoever keeps discarding gets rid of the unsaved work *)
(* (discard, registry-ux-v1.md: to begin again on a new base takes only a  *)
(* deliberate discard).                                                    *)
DiscardHelps == Dirty(page) ~> ~Dirty(page)

=============================================================================
