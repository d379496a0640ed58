------------------------ MODULE RegistryEditor_proofs ------------------------
(***************************************************************************)
(* The edit session of a page, for any households, users, items, contents, *)
(* documents and numbers of revisions and faults.                          *)
(*                                                                         *)
(* What the service holds, what the page shows and what a request names    *)
(* are the same draft: opened by one user, for one household, on one base. *)
(* The invariant follows the three through a call, together with what the  *)
(* rest of the call may still do to the unsaved work.                      *)
(***************************************************************************)
EXTENDS RegistryEditor, SequenceTheorems, WellFoundedInduction, TLAPS

(* ---------------------------------------------------------------------- *)
(* The invariant *)

(* What every household runs on passed validation.                         *)
ActiveValid ==
  \A p \in Profiles : active[p] # 0 => Valid(rows[p][active[p]])

FormsFit(s) ==
  \A k \in Kinds : s.forms[k] # None =>
    /\ KindOf[s.forms[k].item] = k /\ s.forms[k].content \in Contents[s.forms[k].item]
    /\ s.editBase # None

(* Unsaved work knows its base.                                            *)
WorkHasBase(s) ==
  /\ FormsFit(s)
  /\ s.changed => s.draft # None

(* A list of revisions that was read once names revisions that exist.      *)
SeenExists ==
  /\ page.view # None => page.view.last <= Len(rows[page.profile])
  /\ call # None /\ call.answer # None /\ call.answer.view # None =>
       call.answer.view.last <= Len(rows[call.message.profile])

Matches(draft, user, profile, base) ==
  draft.owner = user /\ draft.profile = profile /\ draft.base = base

MatchesPage(draft) == Matches(draft, page.user, page.profile, Base(page))

MatchesCall(draft) ==
  Matches(draft, call.message.user, call.message.profile, call.message.base)

(* Between calls, the draft of the service is the one of the page.         *)
IdleSession ==
  call = None =>
    /\ served # None => MatchesPage(served)
    /\ page.draft = None => served = None

PageSession ==
  /\ page.draft # None => MatchesPage(page.draft)
  /\ page.user = None => page.draft = None

(* During a call, it is the one of the request.                            *)
CallSession ==
  call # None =>
    /\ served # None => MatchesCall(served)
    /\ call.message.do = call.todo[1].do
    /\ call.at = "answer" =>
         /\ call.answer \in Answer
         /\ call.answer.ok /\ call.answer.draft # None => MatchesCall(call.answer.draft)
         /\ call.answer.ok
            /\ call.message.do \in {"ensure", "put", "contract", "set", "delete", "import"} =>
              call.answer.draft # None

(* The page is the one that sent the request, or it has started afresh.    *)
CurrentSession ==
  call # None =>
    /\ call.current =>
         /\ page.user # None /\ call.message.user = page.user
         /\ call.message.profile = page.profile /\ call.message.base = Base(page)
         /\ call.at = "request" /\ page.draft = None => served = None
    /\ ~call.current => page.draft = None

(* A statement that is not about what the page has in hand.                *)
Replaces(s, statement) ==
  \/ statement.do \in {"import", "rollback"}
  \/ statement.do = "read" /\ statement.with # s.profile

(* What is left of a call is safe for the unsaved work of the page: it is  *)
(* saved whole, and it is replaced only where there is none or with the    *)
(* intention to discard it.                                                *)
FitSave(s, script) ==
  \A j \in DOMAIN script : script[j].do = "save" =>
    /\ \A k \in Kinds : FormDirty(s, k) =>
         \E i \in 1..(j-1) : script[i].do = "put" /\ script[i].kind = k
    /\ \A i \in 1..(j-1) : script[i].do \in {"ensure", "put", "contract"}

FitReplace(s, script) ==
  \A j \in DOMAIN script : Replaces(s, script[j]) =>
    ~Dirty(s) /\ \A i \in 1..(j-1) : script[i].do = "drop"

FitDrop(s, script) ==
  \A j \in DOMAIN script : script[j].do = "drop" =>
    /\ j = 1
    /\ ~Dirty(s) \/ (Len(script) >= 2 /\ script[2].do = "clearAndRead")

FitOrder(script) ==
  \A j \in DOMAIN script :
    /\ script[j].do \in {"read", "clearAndRead"} => j = Len(script)
    /\ script[j].do = "rollback" => j = 1
    /\ script[j].do = "set" => script[j].with \in Contents[script[j].item]

Fit(s, script) ==
  /\ script \in Seq(Statements)
  /\ FitSave(s, script) /\ FitReplace(s, script) /\ FitDrop(s, script) /\ FitOrder(script)

CallFits ==
  call # None /\ call.current => Fit(page, call.todo) /\ ~Skipped(page, call.todo[1])

(* The arguments of the request under way.                                 *)
RequestFits ==
  call # None =>
    /\ call.message.do \in {"put", "contract", "set"} =>
         call.message.with \in Contents[call.message.item]
    /\ call.message.do = "rollback" =>
         call.message.with \in 1..Len(rows[call.message.profile])
    /\ call.current /\ call.message.do = "put" =>
         /\ call.message.item = page.forms[call.todo[1].kind].item
         /\ call.message.with = page.forms[call.todo[1].kind].content

(* Room for the revision of a save that is under way.                      *)
RoomKept ==
  /\ call # None
  /\ \/ call.message.do = "save"
     \/ call.current /\ \E j \in DOMAIN call.todo : call.todo[j].do = "save"
  /\ call.message.base = active[call.message.profile]
  => Len(rows[call.message.profile]) < MaxRev[call.message.profile]

(* Unless an answer was lost, the page shows the draft as it is.           *)
ShowsDraft ==
  faults = 0 =>
    /\ served # None /\ page.draft # None =>
         \/ page.draft = served
         \/ call # None /\ ~(call.current /\ call.at = "request")
    /\ call # None /\ call.current /\ call.at = "answer" =>
         /\ call.answer.ok => call.answer.draft = served
         /\ served # None /\ page.draft # None
            /\ (~call.answer.ok \/ call.message.do \in {"read", "clearAndRead", "validate"})
            => page.draft = served

EInv ==
  /\ TypeOK /\ ActiveValid /\ DraftsHangTogether
  /\ WorkHasBase(page) /\ SeenExists
  /\ IdleSession /\ PageSession /\ CallSession /\ CurrentSession
  /\ CallFits /\ RequestFits /\ RoomKept /\ ShowsDraft

(* ---------------------------------------------------------------------- *)
(* Payloads *)

LEMMA PayloadIs ==
  ASSUME NEW f
  PROVE  f \in Payloads <=>
           /\ f = [i \in DOMAIN f |-> f[i]] /\ DOMAIN f \subseteq Items
           /\ \A i \in DOMAIN f : f[i] \in Contents[i]
<1>1. ASSUME f \in Payloads
      PROVE  /\ f = [i \in DOMAIN f |-> f[i]] /\ DOMAIN f \subseteq Items
             /\ \A i \in DOMAIN f : f[i] \in Contents[i]
  <2>1. PICK S \in SUBSET Items : f \in {g \in [S -> Entered] : \A i \in S : g[i] \in Contents[i]}
    BY <1>1 DEF Payloads
  <2> QED
    BY <2>1
<1>2. ASSUME f = [i \in DOMAIN f |-> f[i]], DOMAIN f \subseteq Items,
             \A i \in DOMAIN f : f[i] \in Contents[i]
      PROVE  f \in Payloads
  <2>1. f \in [DOMAIN f -> Entered]
    BY <1>2 DEF Entered
  <2> QED
    BY <1>2, <2>1 DEF Payloads
<1> QED
  BY <1>1, <1>2

LEMMA WithIs ==
  ASSUME NEW f \in Payloads, NEW i \in Items, NEW v \in Contents[i]
  PROVE  /\ With(f, i, v) \in Payloads /\ DOMAIN With(f, i, v) = DOMAIN f \cup {i}
         /\ \A j \in DOMAIN f \ {i} : With(f, i, v)[j] = f[j]
<1>1. DOMAIN f \subseteq Items /\ \A j \in DOMAIN f : f[j] \in Contents[j]
  BY PayloadIs
<1>2. /\ DOMAIN With(f, i, v) = DOMAIN f \cup {i}
      /\ \A j \in DOMAIN f \cup {i} : With(f, i, v)[j] = IF j = i THEN v ELSE f[j]
      /\ With(f, i, v) = [j \in DOMAIN With(f, i, v) |-> With(f, i, v)[j]]
  BY DEF With
<1>3. With(f, i, v) \in Payloads
  <2>1. /\ DOMAIN With(f, i, v) \subseteq Items
        /\ \A j \in DOMAIN With(f, i, v) : With(f, i, v)[j] \in Contents[j]
    BY <1>1, <1>2
  <2> QED
    BY <1>2, <2>1, PayloadIs
<1> QED
  BY <1>2, <1>3

LEMMA WithoutIs ==
  ASSUME NEW f \in Payloads, NEW i
  PROVE  /\ Without(f, i) \in Payloads /\ DOMAIN Without(f, i) = DOMAIN f \ {i}
<1>1. DOMAIN f \subseteq Items /\ \A j \in DOMAIN f : f[j] \in Contents[j]
  BY PayloadIs
<1>2. /\ DOMAIN Without(f, i) = DOMAIN f \ {i}
      /\ \A j \in DOMAIN f \ {i} : Without(f, i)[j] = f[j]
      /\ Without(f, i) = [j \in DOMAIN Without(f, i) |-> Without(f, i)[j]]
  BY DEF Without
<1>3. Without(f, i) \in Payloads
  <2>1. /\ DOMAIN Without(f, i) \subseteq Items
        /\ \A j \in DOMAIN Without(f, i) : Without(f, i)[j] \in Contents[j]
    BY <1>1, <1>2
  <2> QED
    BY <1>2, <2>1, PayloadIs
<1> QED
  BY <1>2, <1>3

LEMMA NothingIs == Nothing \in Payloads /\ DOMAIN Nothing = {}
<1>1. DOMAIN Nothing = {} /\ Nothing = [i \in DOMAIN Nothing |-> Nothing[i]]
  BY DEF Nothing
<1> QED
  BY <1>1, PayloadIs

LEMMA RevsAre ==
  /\ 0 \in AllRevs /\ AllRevs \subseteq Nat
  /\ \A p \in Profiles : \A n \in 0..MaxRev[p] : n \in AllRevs
<1>1. \A p \in Profiles : \A n \in 0..MaxRev[p] : n \in AllRevs
  BY EditorConstants DEF AllRevs
<1>2. Default \in Profiles /\ 0 \in 0..MaxRev[Default]
  BY EditorConstants
<1>3. AllRevs \subseteq Nat
  BY EditorConstants DEF AllRevs
<1> QED
  BY <1>1, <1>2, <1>3

(* What a draft is opened with.                                            *)
LEMMA PayloadAtIs ==
  ASSUME TypeOK, NEW p \in Profiles, NEW n \in 0..Len(rows[p])
  PROVE  PayloadAt(p, n) \in Payloads
<1>1. rows[p] \in Seq(Payloads)
  BY DEF TypeOK
<1>2. CASE n = 0
  BY <1>2, NothingIs DEF PayloadAt
<1>3. CASE n # 0
  <2>1. n \in 1..Len(rows[p])
    BY <1>1, <1>3
  <2>2. rows[p][n] \in Payloads
    BY <1>1, <2>1, ElementOfSeq
  <2> QED
    BY <1>3, <2>2 DEF PayloadAt
<1> QED
  BY <1>2, <1>3

LEMMA BaseIs == ASSUME NEW s \in Page PROVE Base(s) \in AllRevs
<1>1. /\ s.draft \in Draft \cup {None} /\ s.editBase \in AllRevs \cup {None}
      /\ s.view \in View \cup {None}
  BY DEF Page
<1>2. s.draft # None => s.draft.base \in AllRevs
  BY <1>1 DEF Draft
<1>3. s.view # None => s.view.active \in AllRevs
  BY <1>1 DEF View
<1> QED
  BY <1>1, <1>2, <1>3, RevsAre DEF Base

(* ---------------------------------------------------------------------- *)
(* Calls *)

LEMMA SmallestOf ==
  ASSUME NEW S \in SUBSET Nat, S # {}
  PROVE  \E x \in S : \A y \in S : x <= y
<1> DEFINE R == OpToRel(<, Nat)
<1>1. IsWellFoundedOn(R, Nat)
  BY NatLessThanWellFounded
<1>2. PICK x \in S : \A y \in S : ~ (<<y, x>> \in R)
  <2> HIDE DEF R
  <2> QED
    BY <1>1, WFMin
<1>3. \A y \in S : ~ (y < x)
  BY <1>2 DEF OpToRel
<1> HIDE DEF R
<1>4. \A y \in S : x <= y
  BY <1>3, S \subseteq Nat
<1> QED
  BY <1>4

(* The statements left: those from the first that has something to do.     *)
LEMMA NeededIs ==
  ASSUME NEW s, NEW script \in Seq(Statements), Needed(s, script) # <<>>
  PROVE  \E n \in 0..(Len(script) - 1) :
           /\ Needed(s, script) \in Seq(Statements)
           /\ Len(Needed(s, script)) = Len(script) - n
           /\ \A i \in 1..(Len(script) - n) : Needed(s, script)[i] = script[i + n]
           /\ \A i \in 1..n : Skipped(s, script[i])
           /\ ~Skipped(s, Needed(s, script)[1])
<1> DEFINE todo == {i \in DOMAIN script : ~Skipped(s, script[i])}
           first == CHOOSE i \in todo : \A j \in todo : i <= j
<1>1. Len(script) \in Nat /\ DOMAIN script = 1..Len(script)
  BY LenProperties
<1>2. todo # {} /\ Needed(s, script) = SubSeq(script, first, Len(script))
  BY DEF Needed
<1>3. \E i \in todo : \A j \in todo : i <= j
  <2>1. todo \in SUBSET Nat
    BY <1>1
  <2> HIDE DEF todo
  <2> QED
    BY <1>2, <2>1, SmallestOf
<1>4. first \in todo /\ \A j \in todo : first <= j
  <2> HIDE DEF todo
  <2> QED
    BY <1>3
<1>5. first \in 1..Len(script) /\ ~Skipped(s, script[first])
  BY <1>1, <1>4
<1>6. \A i \in 1..(first - 1) : Skipped(s, script[i])
  <2> TAKE i \in 1..(first - 1)
  <2>1. i \in 1..Len(script) /\ ~(first <= i)
    BY <1>1, <1>5
  <2> QED
    BY <1>1, <1>4, <2>1
<1> HIDE DEF first, todo
<1>7. \A i \in first..Len(script) : script[i] \in Statements
  BY <1>1, <1>5, ElementOfSeq
<1>8. /\ Needed(s, script) \in Seq(Statements)
      /\ Len(Needed(s, script)) = Len(script) - first + 1
      /\ \A i \in 1..(Len(script) - first + 1) : Needed(s, script)[i] = script[first + i - 1]
  <2>1. /\ SubSeq(script, first, Len(script)) \in Seq(Statements)
        /\ Len(SubSeq(script, first, Len(script))) =
             IF first <= Len(script) THEN Len(script) - first + 1 ELSE 0
        /\ \A i \in 1..(Len(script) - first + 1) :
             SubSeq(script, first, Len(script))[i] = script[first + i - 1]
    BY <1>1, <1>5, <1>7, SubSeqProperties
  <2> QED
    BY <1>1, <1>2, <1>5, <2>1
<1>9. \A i \in 1..(Len(script) - (first - 1)) : Needed(s, script)[i] = script[i + (first - 1)]
  <2> TAKE i \in 1..(Len(script) - (first - 1))
  <2>1. i \in 1..(Len(script) - first + 1) /\ first + i - 1 = i + (first - 1)
    BY <1>1, <1>5
  <2> QED
    BY <1>8, <2>1
<1>10. Needed(s, script)[1] = script[first]
  BY <1>1, <1>5, <1>8
<1>11. first - 1 \in 0..(Len(script) - 1) /\ Len(script) - first + 1 = Len(script) - (first - 1)
  BY <1>1, <1>5
<1> QED
  BY <1>5, <1>6, <1>8, <1>9, <1>10, <1>11

(* Skipping what has nothing to do keeps a script fit.                     *)
LEMMA FitNeeded ==
  ASSUME NEW s, NEW script, Fit(s, script), Needed(s, script) # <<>>
  PROVE  Fit(s, Needed(s, script)) /\ ~Skipped(s, Needed(s, script)[1])
<1> DEFINE todo == Needed(s, script)
<1>1. script \in Seq(Statements)
  BY DEF Fit
<1>2. Len(script) \in Nat /\ DOMAIN script = 1..Len(script)
  BY <1>1, LenProperties
<1>3. PICK n \in 0..(Len(script) - 1) :
        /\ todo \in Seq(Statements)
        /\ Len(todo) = Len(script) - n
        /\ \A i \in 1..(Len(script) - n) : todo[i] = script[i + n]
        /\ \A i \in 1..n : Skipped(s, script[i])
        /\ ~Skipped(s, todo[1])
  BY <1>1, NeededIs
<1> HIDE DEF todo
<1>4. DOMAIN todo = 1..(Len(script) - n)
  BY <1>2, <1>3, LenProperties
<1>5. FitSave(s, todo)
  <2>1. SUFFICES ASSUME NEW j \in DOMAIN todo, todo[j].do = "save"
                 PROVE  /\ \A k \in Kinds : FormDirty(s, k) =>
                             \E i \in 1..(j-1) : todo[i].do = "put" /\ todo[i].kind = k
                        /\ \A i \in 1..(j-1) : todo[i].do \in {"ensure", "put", "contract"}
    BY DEF FitSave
  <2>2. j \in 1..(Len(script) - n) /\ j + n \in DOMAIN script /\ script[j + n].do = "save"
    BY <1>2, <1>3, <1>4, <2>1
  <2>3. /\ \A k \in Kinds : FormDirty(s, k) =>
             \E i \in 1..(j+n-1) : script[i].do = "put" /\ script[i].kind = k
        /\ \A i \in 1..(j+n-1) : script[i].do \in {"ensure", "put", "contract"}
    BY <2>2 DEF Fit, FitSave
  <2>4. \A i \in 1..(j-1) : todo[i].do \in {"ensure", "put", "contract"}
    <3> TAKE i \in 1..(j-1)
    <3>1. i \in 1..(Len(script) - n) /\ i + n \in 1..(j+n-1)
      BY <1>2, <2>2
    <3> QED
      BY <1>3, <2>3, <3>1
  <2>5. ASSUME NEW k \in Kinds, FormDirty(s, k)
        PROVE  \E i \in 1..(j-1) : todo[i].do = "put" /\ todo[i].kind = k
    <3>1. PICK i \in 1..(j+n-1) : script[i].do = "put" /\ script[i].kind = k
      BY <2>3, <2>5
    <3>2. ~Skipped(s, script[i])
      BY <2>5, <3>1 DEF Skipped
    <3>3. i \notin 1..n
      BY <1>3, <3>2
    <3>4. i - n \in 1..(j-1) /\ i - n \in 1..(Len(script) - n) /\ (i - n) + n = i
      BY <1>2, <2>2, <3>3
    <3> QED
      BY <1>3, <3>1, <3>4
  <2> QED
    BY <2>4, <2>5
<1>6. FitReplace(s, todo)
  <2>1. SUFFICES ASSUME NEW j \in DOMAIN todo, Replaces(s, todo[j])
                 PROVE  ~Dirty(s) /\ \A i \in 1..(j-1) : todo[i].do = "drop"
    BY DEF FitReplace
  <2>2. j \in 1..(Len(script) - n) /\ j + n \in DOMAIN script /\ todo[j] = script[j + n]
    BY <1>2, <1>3, <1>4, <2>1
  <2>3. ~Dirty(s) /\ \A i \in 1..(j+n-1) : script[i].do = "drop"
    BY <2>1, <2>2 DEF Fit, FitReplace
  <2>4. \A i \in 1..(j-1) : todo[i].do = "drop"
    <3> TAKE i \in 1..(j-1)
    <3>1. i \in 1..(Len(script) - n) /\ i + n \in 1..(j+n-1)
      BY <1>2, <2>2
    <3> QED
      BY <1>3, <2>3, <3>1
  <2> QED
    BY <2>3, <2>4
<1>7. FitDrop(s, todo)
  <2>1. SUFFICES ASSUME NEW j \in DOMAIN todo, todo[j].do = "drop"
                 PROVE  /\ j = 1
                        /\ ~Dirty(s) \/ (Len(todo) >= 2 /\ todo[2].do = "clearAndRead")
    BY DEF FitDrop
  <2>2. j \in 1..(Len(script) - n) /\ j + n \in DOMAIN script /\ script[j + n].do = "drop"
    BY <1>2, <1>3, <1>4, <2>1
  <2>3. /\ j + n = 1
        /\ ~Dirty(s) \/ (Len(script) >= 2 /\ script[2].do = "clearAndRead")
    BY <2>2 DEF Fit, FitDrop
  <2>4. n = 0 /\ j = 1
    BY <2>2, <2>3
  <2>5. Len(script) >= 2 => todo[2] = script[2]
    BY <1>2, <1>3, <2>4
  <2> QED
    BY <1>3, <2>3, <2>4, <2>5
<1>8. FitOrder(todo)
  <2>1. SUFFICES ASSUME NEW j \in DOMAIN todo
                 PROVE  /\ todo[j].do \in {"read", "clearAndRead"} => j = Len(todo)
                        /\ todo[j].do = "rollback" => j = 1
                        /\ todo[j].do = "set" => todo[j].with \in Contents[todo[j].item]
    BY DEF FitOrder
  <2>2. j \in 1..(Len(script) - n) /\ j + n \in DOMAIN script /\ todo[j] = script[j + n]
    BY <1>2, <1>3, <1>4, <2>1
  <2>3. /\ script[j + n].do \in {"read", "clearAndRead"} => j + n = Len(script)
        /\ script[j + n].do = "rollback" => j + n = 1
        /\ script[j + n].do = "set" => script[j + n].with \in Contents[script[j + n].item]
    BY <2>2 DEF Fit, FitOrder
  <2> QED
    BY <1>2, <1>3, <2>2, <2>3
<1> QED
  BY <1>3, <1>5, <1>6, <1>7, <1>8 DEF Fit, todo

Verbs == {"ensure", "contract", "validate", "save", "drop", "clearAndRead", "put", "set",
          "delete", "read", "import", "rollback"}

LEMMA StatementIs ==
  ASSUME NEW st \in Statements
  PROVE  /\ st.do \in Verbs
         /\ st.do = "put" => st.kind \in Kinds
         /\ st.do \in {"set", "delete"} => st.item \in Items
         /\ st.do = "read" => st.with \in Profiles
         /\ st.do = "import" => st.with \in Documents
         /\ st.do = "rollback" => st.with \in AllRevs
         /\ st.do \in {"ensure", "validate", "save", "drop", "clearAndRead", "delete"} =>
              st.with = None
         /\ st.do = "set" => st.with \in Entered
         /\ st.do \in {"ensure", "validate", "save", "drop", "clearAndRead", "read", "import",
                       "rollback"} => st.item = None
BY DEF Statements, Verbs

(* What a page makes of an answer: it keeps its user and its household.   *)
Taken(s, st, answer, new) ==
  /\ new \in Page /\ new.user = s.user /\ new.profile = s.profile
  /\ st.do = "ensure" => new = [s EXCEPT !.draft = answer.draft]
  /\ st.do \in {"put", "contract", "set", "delete"} =>
       /\ new.draft = answer.draft /\ new.changed = TRUE
       /\ new.view = s.view /\ new.editBase = s.editBase
  /\ st.do = "put" => new.forms = [s.forms EXCEPT ![st.kind].original = call.message.with]
  /\ st.do \in {"contract", "set"} => new.forms = s.forms
  /\ st.do = "delete" => \A k \in Kinds : new.forms[k] \in {s.forms[k], None}
  /\ st.do = "drop" => new = [s EXCEPT !.draft = None]
  /\ st.do = "import" =>
       /\ new.draft = answer.draft /\ new.changed = TRUE /\ new.view = s.view
       /\ new.forms = [k \in Kinds |-> None] /\ new.editBase = None
  /\ st.do \in {"save", "rollback"} =>
       /\ new.draft = None /\ new.changed = FALSE /\ new.view = s.view
       /\ new.forms = [k \in Kinds |-> None] /\ new.editBase = None
  /\ st.do \in {"read", "clearAndRead"} => new = [s EXCEPT !.view = answer.view]
  /\ st.do = "validate" => new = s

LEMMA AfterIs ==
  ASSUME NEW s \in Page, NEW st \in Statements, NEW answer \in Answer,
         st.do = "put" => s.forms[st.kind] # None /\ call.message.with \in Entered,
         NEW new, new = After(s, st, answer)
  PROVE  Taken(s, st, answer, new)
<1> DEFINE edited == [s EXCEPT !.draft = answer.draft, !.changed = TRUE]
           cleared == Cleared(s)
<1>1. /\ st.do \in Verbs
      /\ st.do = "put" => st.kind \in Kinds
      /\ st.do \in {"set", "delete"} => st.item \in Items
  BY StatementIs
<1>2. /\ answer.draft \in Draft \cup {None} /\ answer.view \in View \cup {None}
  BY DEF Answer
<1>3. /\ edited \in Page /\ edited.user = s.user /\ edited.profile = s.profile
      /\ edited.draft = answer.draft /\ edited.changed = TRUE
      /\ edited.view = s.view /\ edited.editBase = s.editBase /\ edited.forms = s.forms
  BY <1>2 DEF Page
<1>4. /\ cleared \in Page /\ cleared.user = s.user /\ cleared.profile = s.profile
      /\ cleared.draft = None /\ cleared.changed = FALSE /\ cleared.view = s.view
      /\ cleared.forms = [k \in Kinds |-> None] /\ cleared.editBase = None
  BY DEF Page, Cleared, Blank
<1> HIDE DEF edited, cleared
<1>5. CASE st.do = "ensure"
  <2>1. new = [s EXCEPT !.draft = answer.draft]
    BY <1>5 DEF After
  <2> QED
    BY <1>2, <1>5, <2>1 DEF Page, Taken
<1>6. CASE st.do = "put"
  <2>1. new = [edited EXCEPT !.forms[st.kind].original = call.message.with]
    BY <1>6 DEF After, edited
  <2> st.kind \in Kinds /\ s.forms[st.kind] # None
    BY <1>1, <1>6
  <2> s.forms \in [Kinds -> Form \cup {None}]
    BY DEF Page
  <2>2. s.forms \in [Kinds -> Form \cup {None}] /\ s.forms[st.kind] \in Form
    OBVIOUS
  <2> DEFINE forms == [s.forms EXCEPT ![st.kind].original = call.message.with]
  <2>3. [s.forms[st.kind] EXCEPT !.original = call.message.with] \in Form
    BY <1>6, <2>2 DEF Form
  <2>4. forms \in [Kinds -> Form \cup {None}]
    BY <2>2, <2>3
  <2>5. new = [edited EXCEPT !.forms = forms]
    BY <1>3, <2>1
  <2> HIDE DEF forms
  <2>6. /\ new \in Page /\ new.user = edited.user /\ new.profile = edited.profile
        /\ new.draft = edited.draft /\ new.changed = edited.changed
        /\ new.view = edited.view /\ new.editBase = edited.editBase /\ new.forms = forms
    BY <1>3, <2>4, <2>5 DEF Page
  <2> QED
    BY <1>3, <1>6, <2>6 DEF forms, Taken
<1>7. CASE st.do \in {"contract", "set"}
  <2>1. new = edited
    BY <1>7 DEF After, edited
  <2> QED
    BY <1>3, <1>7, <2>1 DEF Taken
<1>8. CASE st.do = "delete"
  <2>1. new = Closed(edited, st.item)
    BY <1>8 DEF After, edited
  <2> DEFINE k == KindOf[st.item]
             left == IF edited.forms[k] # None /\ edited.forms[k].item = st.item
                       THEN None ELSE edited.forms[k]
  <2>2. new = [edited EXCEPT !.forms = [@ EXCEPT ![k] = left]]
    BY <1>3, <2>1 DEF Closed
  <2>3. k \in Kinds /\ edited.forms \in [Kinds -> Form \cup {None}]
    BY <1>1, <1>3, <1>8, EditorConstants DEF Page
  <2>4. left \in {edited.forms[k], None}
    OBVIOUS
  <2> HIDE DEF k, left
  <2>5. /\ [edited.forms EXCEPT ![k] = left] \in [Kinds -> Form \cup {None}]
        /\ \A l \in Kinds : [edited.forms EXCEPT ![k] = left][l] \in {edited.forms[l], None}
    BY <2>3, <2>4
  <2>6. /\ new \in Page /\ new.user = edited.user /\ new.profile = edited.profile
        /\ new.draft = edited.draft /\ new.changed = edited.changed
        /\ new.view = edited.view /\ new.editBase = edited.editBase
        /\ new.forms = [edited.forms EXCEPT ![k] = left]
    BY <1>3, <2>2, <2>5 DEF Page
  <2> QED
    BY <1>3, <1>8, <2>5, <2>6 DEF Taken
<1>9. CASE st.do = "drop"
  <2>1. new = [s EXCEPT !.draft = None]
    BY <1>9 DEF After
  <2> QED
    BY <1>9, <2>1 DEF Page, Taken
<1>10. CASE st.do = "import"
  <2>1. new = [cleared EXCEPT !.draft = answer.draft, !.changed = TRUE, !.document = None]
    BY <1>10 DEF After, cleared
  <2>2. /\ new \in Page /\ new.user = cleared.user /\ new.profile = cleared.profile
        /\ new.draft = answer.draft /\ new.changed = TRUE /\ new.view = cleared.view
        /\ new.editBase = cleared.editBase /\ new.forms = cleared.forms
    BY <1>2, <1>4, <2>1 DEF Page
  <2> QED
    BY <1>4, <1>10, <2>2 DEF Taken
<1>11. CASE st.do \in {"save", "rollback"}
  <2>1. new = cleared
    BY <1>11 DEF After, cleared
  <2> QED
    BY <1>4, <1>11, <2>1 DEF Taken
<1>12. CASE st.do \in {"read", "clearAndRead"}
  <2>1. new = [s EXCEPT !.view = answer.view]
    BY <1>12 DEF After
  <2> QED
    BY <1>2, <1>12, <2>1 DEF Page, Taken
<1>13. CASE st.do = "validate"
  <2>1. new = s
    BY <1>13 DEF After
  <2> QED
    BY <1>13, <2>1 DEF Taken
<1> QED
  BY <1>1, <1>5, <1>6, <1>7, <1>8, <1>9, <1>10, <1>11, <1>12, <1>13 DEF Verbs

(* No answer makes a form dirty, and the one of a put settles its form.    *)
LEMMA FormsAfter ==
  ASSUME NEW s \in Page, NEW st \in Statements, NEW answer, NEW new,
         Taken(s, st, answer, new),
         st.do = "put" => s.forms[st.kind] # None /\ call.message.with = s.forms[st.kind].content
  PROVE  /\ \A k \in Kinds : FormDirty(new, k) =>
              FormDirty(s, k) /\ ~(st.do = "put" /\ st.kind = k)
         /\ \A k \in Kinds : new.forms[k] # None =>
              /\ s.forms[k] # None
              /\ new.forms[k].item = s.forms[k].item /\ new.forms[k].content = s.forms[k].content
         /\ st.do = "drop" /\ ~Dirty(s) => ~Dirty(new)
<1>1. /\ st.do \in Verbs
      /\ st.do = "put" => st.kind \in Kinds
  BY StatementIs
<1>2. s.forms \in [Kinds -> Form \cup {None}] /\ new.forms \in [Kinds -> Form \cup {None}]
  BY DEF Page, Taken
<1>3. CASE st.do = "put"
  <2>1. /\ st.kind \in Kinds /\ new.forms = [s.forms EXCEPT ![st.kind].original = call.message.with]
        /\ call.message.with = s.forms[st.kind].content
    BY <1>1, <1>3 DEF Taken
  <2>2. \A k \in Kinds : k # st.kind => new.forms[k] = s.forms[k]
    BY <1>2, <2>1
  <2>3. new.forms[st.kind] = [s.forms[st.kind] EXCEPT !.original = call.message.with]
    BY <1>2, <2>1
  <2>4. s.forms[st.kind] \in Form
    BY <1>2, <1>3, <2>1
  <2>5. /\ new.forms[st.kind].content = s.forms[st.kind].content
        /\ new.forms[st.kind].item = s.forms[st.kind].item
        /\ new.forms[st.kind].original = call.message.with
    BY <2>3, <2>4 DEF Form
  <2> QED
    BY <1>3, <2>1, <2>2, <2>5 DEF FormDirty
<1>4. CASE st.do \in {"save", "rollback", "import"}
  BY <1>4 DEF Taken, FormDirty
<1>5. CASE st.do = "delete"
  BY <1>5 DEF Taken, FormDirty
<1>6. CASE st.do \in {"ensure", "validate", "drop", "clearAndRead", "read", "contract", "set"}
  <2>1. new.forms = s.forms /\ (st.do = "drop" => new.changed = s.changed)
    BY <1>6 DEF Taken, Page
  <2> QED
    BY <1>6, <2>1 DEF FormDirty, Dirty
<1> QED
  BY <1>1, <1>3, <1>4, <1>5, <1>6 DEF Verbs

(* An answer keeps what is left of the call fit.                           *)
LEMMA FitAfter ==
  ASSUME NEW s \in Page, NEW todo, Fit(s, todo), todo # <<>>, NEW answer, NEW new,
         Taken(s, todo[1], answer, new),
         todo[1].do = "put" =>
           s.forms[todo[1].kind] # None /\ call.message.with = s.forms[todo[1].kind].content
  PROVE  Fit(new, Tail(todo))
<1> DEFINE rest == Tail(todo)
<1>1. todo \in Seq(Statements)
  BY DEF Fit
<1>2. Len(todo) \in Nat \ {0} /\ DOMAIN todo = 1..Len(todo) /\ todo[1] \in Statements
  BY <1>1, EmptySeq, LenProperties, ElementOfSeq
<1>3. /\ rest \in Seq(Statements) /\ Len(rest) = Len(todo) - 1
      /\ \A i \in 1..Len(rest) : rest[i] = todo[i+1]
  BY <1>1, HeadTailProperties
<1> HIDE DEF rest
<1>4. DOMAIN rest = 1..(Len(todo) - 1)
  BY <1>2, <1>3, LenProperties
<1>5. /\ \A k \in Kinds : FormDirty(new, k) =>
           FormDirty(s, k) /\ ~(todo[1].do = "put" /\ todo[1].kind = k)
      /\ todo[1].do = "drop" /\ ~Dirty(s) => ~Dirty(new)
  BY <1>2, FormsAfter
<1>6. new.profile = s.profile
  BY DEF Taken
<1>7. FitSave(new, rest)
  <2>1. SUFFICES ASSUME NEW j \in DOMAIN rest, rest[j].do = "save"
                 PROVE  /\ \A k \in Kinds : FormDirty(new, k) =>
                             \E i \in 1..(j-1) : rest[i].do = "put" /\ rest[i].kind = k
                        /\ \A i \in 1..(j-1) : rest[i].do \in {"ensure", "put", "contract"}
    BY DEF FitSave
  <2>2. j \in 1..(Len(todo) - 1) /\ j + 1 \in DOMAIN todo /\ todo[j+1].do = "save"
    BY <1>2, <1>3, <1>4, <2>1
  <2>3. /\ \A k \in Kinds : FormDirty(s, k) =>
             \E i \in 1..j : todo[i].do = "put" /\ todo[i].kind = k
        /\ \A i \in 1..j : todo[i].do \in {"ensure", "put", "contract"}
    <3>1. (j+1)-1 = j
      BY <2>2
    <3> QED
      BY <2>2, <3>1 DEF Fit, FitSave
  <2>4. \A i \in 1..(j-1) : rest[i].do \in {"ensure", "put", "contract"}
    <3> TAKE i \in 1..(j-1)
    <3>1. i \in 1..Len(rest) /\ i + 1 \in 1..j
      BY <1>2, <1>3, <2>2
    <3> QED
      BY <1>3, <2>3, <3>1
  <2>5. ASSUME NEW k \in Kinds, FormDirty(new, k)
        PROVE  \E i \in 1..(j-1) : rest[i].do = "put" /\ rest[i].kind = k
    <3>1. PICK i \in 1..j : todo[i].do = "put" /\ todo[i].kind = k
      BY <1>5, <2>3, <2>5
    <3>2. i # 1
      BY <1>5, <2>5, <3>1
    <3>3. i - 1 \in 1..(j-1) /\ i - 1 \in 1..Len(rest) /\ (i - 1) + 1 = i
      BY <1>2, <1>3, <2>2, <3>2
    <3> QED
      BY <1>3, <3>1, <3>3
  <2> QED
    BY <2>4, <2>5
<1>8. FitReplace(new, rest)
  <2>1. SUFFICES ASSUME NEW j \in DOMAIN rest, Replaces(new, rest[j])
                 PROVE  ~Dirty(new) /\ \A i \in 1..(j-1) : rest[i].do = "drop"
    BY DEF FitReplace
  <2>2. j \in 1..(Len(todo) - 1) /\ j + 1 \in DOMAIN todo /\ rest[j] = todo[j+1]
    BY <1>2, <1>3, <1>4
  <2>3. Replaces(s, todo[j+1])
    BY <1>6, <2>1, <2>2 DEF Replaces
  <2>4. ~Dirty(s) /\ \A i \in 1..j : todo[i].do = "drop"
    <3>1. (j+1)-1 = j
      BY <2>2
    <3> QED
      BY <2>2, <2>3, <3>1 DEF Fit, FitReplace
  <2>5. \A i \in 1..(j-1) : rest[i].do = "drop"
    <3> TAKE i \in 1..(j-1)
    <3>1. i \in 1..Len(rest) /\ i + 1 \in 1..j
      BY <1>2, <1>3, <2>2
    <3> QED
      BY <1>3, <2>4, <3>1
  <2>6. todo[1].do = "drop"
    BY <2>2, <2>4
  <2> QED
    BY <1>5, <2>4, <2>5, <2>6
<1>9. FitDrop(new, rest)
  <2>1. SUFFICES ASSUME NEW j \in DOMAIN rest, rest[j].do = "drop"
                 PROVE  FALSE
    BY DEF FitDrop
  <2>2. j \in 1..(Len(todo) - 1) /\ j + 1 \in DOMAIN todo /\ todo[j+1].do = "drop"
    BY <1>2, <1>3, <1>4, <2>1
  <2>3. j + 1 = 1
    BY <2>2 DEF Fit, FitDrop
  <2> QED
    BY <2>2, <2>3
<1>10. FitOrder(rest)
  <2>1. SUFFICES ASSUME NEW j \in DOMAIN rest
                 PROVE  /\ rest[j].do \in {"read", "clearAndRead"} => j = Len(rest)
                        /\ rest[j].do = "rollback" => j = 1
                        /\ rest[j].do = "set" => rest[j].with \in Contents[rest[j].item]
    BY DEF FitOrder
  <2>2. j \in 1..(Len(todo) - 1) /\ j + 1 \in DOMAIN todo /\ rest[j] = todo[j+1]
    BY <1>2, <1>3, <1>4, <2>1
  <2>3. /\ todo[j+1].do \in {"read", "clearAndRead"} => j + 1 = Len(todo)
        /\ todo[j+1].do = "rollback" => j + 1 = 1
        /\ todo[j+1].do = "set" => todo[j+1].with \in Contents[todo[j+1].item]
    BY <2>2 DEF Fit, FitOrder
  <2> QED
    BY <1>2, <1>3, <2>2, <2>3
<1> QED
  BY <1>3, <1>7, <1>8, <1>9, <1>10 DEF Fit, rest

(* A page that starts afresh: with another household, or to read again.    *)
Fresh(s, st, next) ==
  /\ next.draft = None /\ next.changed = FALSE /\ next.editBase = None
  /\ next.forms = [k \in Kinds |-> None] /\ ~Dirty(next)
  /\ \/ st.do = "clearAndRead" /\ next.profile = s.profile /\ next.view = s.view
     \/ st.do = "read" /\ st.with # s.profile /\ next.profile = st.with /\ next.view = None

LEMMA BlankIs ==
  ASSUME NEW user \in Users \cup {None}, NEW p \in Profiles, NEW view \in View \cup {None}
  PROVE  /\ Blank(user, p) \in Page
         /\ [Blank(user, p) EXCEPT !.view = view] \in Page
<1> DEFINE forms == [k \in Kinds |-> None]
<1>1. forms \in [Kinds -> Form \cup {None}]
  OBVIOUS
<1>2. Blank(user, p) = [user |-> user, profile |-> p, view |-> None, draft |-> None,
                        forms |-> forms, changed |-> FALSE, editBase |-> None,
                        document |-> None]
  BY DEF Blank
<1> HIDE DEF forms
<1>3. Blank(user, p) \in Page
  BY <1>1, <1>2 DEF Page
<1>4. [Blank(user, p) EXCEPT !.view = view] \in Page
  BY <1>3 DEF Page
<1> QED
  BY <1>3, <1>4

LEMMA PreparedIs ==
  ASSUME NEW s \in Page, NEW todo, Fit(s, todo), todo # <<>>, ~Skipped(s, todo[1]),
         NEW next, next = Prepared(s, todo[1])
  PROVE  /\ next \in Page /\ next.user = s.user
         /\ Fit(next, todo) /\ ~Skipped(next, todo[1])
         /\ next = s \/ Fresh(s, todo[1], next)
<1>1. todo \in Seq(Statements)
  BY DEF Fit
<1>2. /\ Len(todo) \in Nat \ {0} /\ DOMAIN todo = 1..Len(todo)
      /\ 1 \in DOMAIN todo /\ todo[1] \in Statements
  BY <1>1, EmptySeq, LenProperties, ElementOfSeq
<1>3. CASE todo[1].do = "clearAndRead"
  <2>1. next = [Blank(s.user, s.profile) EXCEPT !.view = s.view]
    BY <1>3 DEF Prepared
  <2>2. next \in Page /\ next.user = s.user
    <3>1. s.user \in Users \cup {None} /\ s.profile \in Profiles /\ s.view \in View \cup {None}
      BY DEF Page
    <3>2. next.user = s.user
      BY <2>1 DEF Blank
    <3>3. next \in Page
      BY <2>1, <3>1, BlankIs
    <3> QED
      BY <3>2, <3>3
  <2>3. /\ next.draft = None /\ next.changed = FALSE /\ next.editBase = None
        /\ next.forms = [k \in Kinds |-> None] /\ next.profile = s.profile /\ next.view = s.view
    BY <2>1 DEF Blank
  <2>4. ~Dirty(next) /\ \A k \in Kinds : ~FormDirty(next, k)
    BY <2>3 DEF Dirty, FormDirty
  <2>5. ~Skipped(next, todo[1])
    BY <1>3 DEF Skipped
  <2>6. FitSave(next, todo)
    BY <2>4 DEF Fit, FitSave
  <2>7. FitReplace(next, todo) /\ FitDrop(next, todo)
    BY <2>3, <2>4 DEF Fit, FitReplace, FitDrop, Replaces
  <2> QED
    BY <1>3, <2>2, <2>3, <2>4, <2>5, <2>6, <2>7 DEF Fit, Fresh
<1>4. CASE todo[1].do = "read" /\ todo[1].with # s.profile
  <2>1. next = Blank(s.user, todo[1].with)
    BY <1>4 DEF Prepared
  <2>2. todo[1].with \in Profiles
    BY <1>2, <1>4, StatementIs
  <2>3. next \in Page /\ next.user = s.user
    <3>1. s.user \in Users \cup {None}
      BY DEF Page
    <3>2. next.user = s.user
      BY <2>1 DEF Blank
    <3> QED
      BY <2>1, <2>2, <3>1, <3>2, BlankIs
  <2>4. /\ next.draft = None /\ next.changed = FALSE /\ next.editBase = None
        /\ next.forms = [k \in Kinds |-> None] /\ next.profile = todo[1].with /\ next.view = None
    BY <2>1 DEF Blank
  <2>5. ~Dirty(next) /\ \A k \in Kinds : ~FormDirty(next, k)
    BY <2>4 DEF Dirty, FormDirty
  <2>6. ~Skipped(next, todo[1])
    BY <1>4 DEF Skipped
  <2>7. Len(todo) = 1 /\ \A j \in DOMAIN todo : j = 1
    BY <1>2, <1>4 DEF Fit, FitOrder
  <2>8. FitSave(next, todo)
    BY <2>5 DEF Fit, FitSave
  <2>9. FitReplace(next, todo) /\ FitDrop(next, todo)
    BY <1>4, <2>4, <2>5, <2>7 DEF Fit, FitReplace, FitDrop, Replaces
  <2> QED
    BY <1>4, <2>3, <2>4, <2>5, <2>6, <2>8, <2>9 DEF Fit, Fresh
<1>5. CASE ~(todo[1].do = "clearAndRead" \/ (todo[1].do = "read" /\ todo[1].with # s.profile))
  <2>1. next = s
    BY <1>5 DEF Prepared
  <2> QED
    BY <2>1
<1> QED
  BY <1>3, <1>4, <1>5

(* What a page asks for.                                                   *)
LEMMA RequestIs ==
  ASSUME NEW s \in Page, FormsFit(s), s.user # None,
         NEW st \in Statements, ~Skipped(s, st),
         st.do = "set" => st.with \in Contents[st.item],
         NEW m, m = Request(s, st)
  PROVE  /\ m \in Commands /\ m.do = st.do
         /\ m.user = s.user /\ m.profile = s.profile /\ m.base = Base(s)
         /\ m.do \in {"put", "contract", "set"} => m.with \in Contents[m.item]
         /\ st.do = "put" =>
              /\ st.kind \in Kinds /\ s.forms[st.kind] # None
              /\ m.item = s.forms[st.kind].item /\ m.with = s.forms[st.kind].content
         /\ st.do \notin {"put", "contract"} => m.with = st.with /\ m.item = st.item
<1> DEFINE request == [user |-> s.user, do |-> st.do, profile |-> s.profile,
                       base |-> Base(s), item |-> st.item, with |-> st.with, new |-> FALSE]
<1>1. s.user \in Users /\ s.profile \in Profiles /\ Base(s) \in AllRevs
  BY BaseIs DEF Page
<1>2. /\ st.do \in Verbs
      /\ st.do = "put" => st.kind \in Kinds
      /\ st.do = "set" => st.item \in Items /\ st.with \in Entered
  BY StatementIs
<1>3. \A k \in Kinds : s.forms[k] # None =>
        /\ s.forms[k] \in Form /\ s.forms[k].item \in Items
        /\ KindOf[s.forms[k].item] = k /\ s.forms[k].content \in Contents[s.forms[k].item]
  BY DEF Page, Form, FormsFit
<1>4. \A i \in Items : \A v \in Contents[i] : v \in Entered
  BY DEF Entered
<1>5. CASE st.do = "put"
  <2>1. st.kind \in Kinds /\ s.forms[st.kind] # None
    BY <1>2, <1>5 DEF Skipped, FormDirty
  <2> DEFINE form == s.forms[st.kind]
  <2>2. m = [request EXCEPT !.item = form.item, !.with = form.content,
                            !.new = (form.original = None)]
    BY <1>5 DEF Request
  <2>3. form.item \in Items /\ form.content \in Contents[form.item] /\ form.content \in Entered
    BY <1>3, <1>4, <2>1
  <2> HIDE DEF form
  <2>4. /\ m.user = s.user /\ m.do = "put" /\ m.profile = s.profile /\ m.base = Base(s)
        /\ m.item = form.item /\ m.with = form.content
    BY <1>5, <2>2
  <2>5. m \in Command({"put", "contract", "set"}, Items, Entered)
    BY <1>1, <1>5, <2>2, <2>3 DEF Command
  <2> QED
    BY <1>5, <2>1, <2>3, <2>4, <2>5 DEF Commands, form
<1>6. CASE st.do = "contract"
  <2> DEFINE c == ContractOf[s.forms["fusion"].item]
             v == CHOOSE v \in Contents[c] : TRUE
  <2>1. m = [request EXCEPT !.item = c, !.new = TRUE, !.with = v]
    BY <1>6 DEF Request
  <2>2. s.forms["fusion"] # None /\ "fusion" \in Kinds
    BY <1>6 DEF Skipped, MissingContract, FormDirty, Kinds
  <2>3. c \in Items
    BY <1>3, <2>2, EditorConstants
  <2>4. v \in Contents[c] /\ v \in Entered
    BY <1>4, <2>3, EditorConstants
  <2> HIDE DEF c, v
  <2>5. /\ m.user = s.user /\ m.do = "contract" /\ m.profile = s.profile /\ m.base = Base(s)
        /\ m.item = c /\ m.with = v
    BY <1>6, <2>1
  <2>6. m \in Command({"put", "contract", "set"}, Items, Entered)
    BY <1>1, <1>6, <2>1, <2>3, <2>4 DEF Command
  <2> QED
    BY <1>6, <2>4, <2>5, <2>6 DEF Commands
<1>7. CASE st.do \notin {"put", "contract"}
  <2>1. m = request
    BY <1>7 DEF Request
  <2>2. /\ m.user = s.user /\ m.do = st.do /\ m.profile = s.profile /\ m.base = Base(s)
        /\ m.item = st.item /\ m.with = st.with
    BY <2>1
  <2>3. m \in Commands
    <3>1. CASE st.do \in {"ensure", "validate", "save", "drop", "clearAndRead"}
      <4>1. m \in Command({"ensure", "validate", "save", "drop", "clearAndRead"}, {None}, {None})
        BY <1>1, <2>1, <3>1, StatementIs DEF Command
      <4> QED
        BY <4>1 DEF Commands
    <3>2. CASE st.do = "set"
      <4>1. m \in Command({"put", "contract", "set"}, Items, Entered)
        BY <1>1, <2>1, <3>2, StatementIs DEF Command
      <4> QED
        BY <4>1 DEF Commands
    <3>3. CASE st.do = "delete"
      <4>1. m \in Command({"delete"}, Items, {None})
        BY <1>1, <2>1, <3>3, StatementIs DEF Command
      <4> QED
        BY <4>1 DEF Commands
    <3>4. CASE st.do = "read"
      <4>1. m \in Command({"read"}, {None}, Profiles)
        BY <1>1, <2>1, <3>4, StatementIs DEF Command
      <4> QED
        BY <4>1 DEF Commands
    <3>5. CASE st.do = "import"
      <4>1. m \in Command({"import"}, {None}, Documents)
        BY <1>1, <2>1, <3>5, StatementIs DEF Command
      <4> QED
        BY <4>1 DEF Commands
    <3>6. CASE st.do = "rollback"
      <4>1. m \in Command({"rollback"}, {None}, AllRevs)
        BY <1>1, <2>1, <3>6, StatementIs DEF Command
      <4> QED
        BY <4>1 DEF Commands
    <3> QED
      BY <1>2, <1>7, <3>1, <3>2, <3>3, <3>4, <3>5, <3>6 DEF Verbs
  <2> QED
    BY <1>7, <2>2, <2>3
<1> QED
  BY <1>5, <1>6, <1>7

(* A page sends the next request of a call.                                *)
Sent(s, script) ==
  /\ call' \in Call /\ call' # None /\ call'.todo # <<>>
  /\ call'.current = TRUE /\ call'.at = "request" /\ call'.answer = None
  /\ page' \in Page /\ page'.user = s.user
  /\ Fit(page', call'.todo) /\ ~Skipped(page', call'.todo[1])
  /\ page' = s \/ Fresh(s, call'.todo[1], page')
  /\ \E i \in DOMAIN script :
       call'.todo[1] = script[i] /\ \A j \in 1..(i-1) : Skipped(s, script[j])
  /\ \A j \in DOMAIN call'.todo : \E i \in DOMAIN script : call'.todo[j] = script[i]
  /\ call'.message.do = call'.todo[1].do
  /\ call'.message.user = s.user /\ call'.message.profile = page'.profile
  /\ call'.message.base = Base(page')
  /\ call'.message.do \in {"put", "contract", "set"} =>
       call'.message.with \in Contents[call'.message.item]
  /\ call'.message.do = "put" =>
       /\ call'.message.item = page'.forms[call'.todo[1].kind].item
       /\ call'.message.with = page'.forms[call'.todo[1].kind].content
  /\ call'.message.do \notin {"put", "contract"} => call'.message.with = call'.todo[1].with

LEMMA Sends ==
  ASSUME NEW s \in Page, FormsFit(s), s.user # None, NEW script, Fit(s, script),
         Proceed(s, script), Needed(s, script) # <<>>
  PROVE  Sent(s, script)
<1> DEFINE todo == Needed(s, script)
           m == Request(page', todo[1])
<1>1. /\ page' = Prepared(s, todo[1])
      /\ call' = [todo |-> todo, current |-> TRUE, at |-> "request",
                  message |-> m, answer |-> None]
  BY DEF Proceed
<1>2. Fit(s, todo) /\ ~Skipped(s, todo[1])
  BY FitNeeded
<1>3. script \in Seq(Statements) /\ todo \in Seq(Statements)
  BY <1>2 DEF Fit
<1>4. /\ DOMAIN script = 1..Len(script) /\ Len(script) \in Nat
      /\ DOMAIN todo = 1..Len(todo) /\ todo[1] \in Statements
  BY <1>3, EmptySeq, LenProperties, ElementOfSeq
<1>5. PICK n \in 0..(Len(script) - 1) :
        /\ Len(todo) = Len(script) - n
        /\ \A i \in 1..(Len(script) - n) : todo[i] = script[i + n]
        /\ \A i \in 1..n : Skipped(s, script[i])
  BY <1>3, NeededIs
<1> HIDE DEF todo
<1>6. /\ page' \in Page /\ page'.user = s.user
      /\ Fit(page', todo) /\ ~Skipped(page', todo[1])
      /\ page' = s \/ Fresh(s, todo[1], page')
  <2>1. todo # <<>>
    BY DEF todo
  <2> QED
    BY <1>1, <1>2, <2>1, PreparedIs
<1>7. FormsFit(page')
  BY <1>6 DEF FormsFit, Fresh
<1>8. todo[1].do = "set" => todo[1].with \in Contents[todo[1].item]
  <2>1. 1 \in DOMAIN todo
    BY <1>4, <1>5
  <2> QED
    BY <1>2, <2>1 DEF Fit, FitOrder
<1>9. /\ m \in Commands /\ m.do = todo[1].do
      /\ m.user = s.user /\ m.profile = page'.profile /\ m.base = Base(page')
      /\ m.do \in {"put", "contract", "set"} => m.with \in Contents[m.item]
      /\ todo[1].do = "put" =>
           /\ m.item = page'.forms[todo[1].kind].item
           /\ m.with = page'.forms[todo[1].kind].content
      /\ todo[1].do \notin {"put", "contract"} => m.with = todo[1].with
  BY <1>4, <1>6, <1>7, <1>8, RequestIs
<1> HIDE DEF m
<1>10. /\ call' \in Call /\ call'.todo = todo /\ call'.current = TRUE /\ call'.at = "request"
       /\ call'.message = m /\ call'.answer = None
  BY <1>1, <1>3, <1>9 DEF Call
<1>11. call' # None /\ todo # <<>>
  BY <1>10, NoneIsNothing DEF todo
<1>12. \E i \in DOMAIN script :
         todo[1] = script[i] /\ \A j \in 1..(i-1) : Skipped(s, script[j])
  <2>1. 1 \in 1..(Len(script) - n) /\ n + 1 \in DOMAIN script /\ (n + 1) - 1 = n /\ 1 + n = n + 1
    BY <1>4, <1>5
  <2> QED
    BY <1>5, <2>1
<1>13. \A j \in DOMAIN todo : \E i \in DOMAIN script : todo[j] = script[i]
  <2> TAKE j \in DOMAIN todo
  <2>1. j \in 1..(Len(script) - n) /\ j + n \in DOMAIN script
    BY <1>4, <1>5
  <2> QED
    BY <1>5, <2>1
<1> QED
  BY <1>6, <1>9, <1>10, <1>11, <1>12, <1>13 DEF Sent

(* ---------------------------------------------------------------------- *)
(* A call begins *)

(* A call that saves has not begun to do anything else.                    *)
LEMMA SaveAhead ==
  ASSUME NEW s, NEW todo, Fit(s, todo), NEW j \in DOMAIN todo, todo[j].do = "save"
  PROVE  todo[1].do \in {"ensure", "put", "contract", "save"}
<1>1. todo \in Seq(Statements) /\ FitSave(s, todo)
  BY DEF Fit
<1>2. DOMAIN todo = 1..Len(todo) /\ Len(todo) \in Nat
  BY <1>1, LenProperties
<1>3. CASE j = 1
  BY <1>3
<1>4. CASE j # 1
  <2>1. 1 \in 1..(j-1)
    BY <1>2, <1>4
  <2> QED
    BY <1>1, <2>1 DEF FitSave
<1> QED
  BY <1>3, <1>4

(* What a script must be like for a call to begin with it.                 *)
Startable(script) ==
  /\ Fit(page, script)
  /\ \A j \in DOMAIN script :
       /\ script[j].do = "save" => Room
       /\ script[j].do = "rollback" => script[j].with \in 1..Len(rows[page.profile])
       /\ script[j].do = "clearAndRead" \/ (script[j].do = "read" /\ script[j].with # page.profile)
          => j # 1 /\ script[1].do = "drop"

LEMMA BeginInv ==
  ASSUME EInv, NEW script, Begin(script), Startable(script)
  PROVE  EInv'
<1>1. /\ call = None /\ page.user # None /\ Needed(page, script) # <<>>
      /\ Proceed(page, script)
      /\ rows' = rows /\ active' = active /\ served' = served /\ faults' = faults
  BY DEF Begin
<1>2. /\ TypeOK /\ ActiveValid /\ DraftsHangTogether /\ WorkHasBase(page) /\ SeenExists
      /\ IdleSession /\ PageSession /\ ShowsDraft
  BY DEF EInv
<1>3. page \in Page
  BY <1>2 DEF TypeOK
<1>4. Fit(page, script) /\ FormsFit(page)
  BY <1>2 DEF Startable, WorkHasBase
<1>5. Sent(page, script)
  BY <1>1, <1>3, <1>4, Sends
<1>6. /\ call' \in Call /\ call' # None /\ call'.todo # <<>>
      /\ call'.current = TRUE /\ call'.at = "request" /\ call'.answer = None
      /\ page' \in Page /\ page'.user = page.user
      /\ Fit(page', call'.todo) /\ ~Skipped(page', call'.todo[1])
      /\ page' = page \/ Fresh(page, call'.todo[1], page')
      /\ call'.message.do = call'.todo[1].do
      /\ call'.message.user = page.user /\ call'.message.profile = page'.profile
      /\ call'.message.base = Base(page')
  BY <1>5 DEF Sent
<1>7. Fresh(page, call'.todo[1], page') => page.draft = None /\ served = None
  <2>1. SUFFICES ASSUME Fresh(page, call'.todo[1], page') PROVE page.draft = None
    BY <1>1, <1>2 DEF IdleSession
  <2>2. PICK i \in DOMAIN script :
          call'.todo[1] = script[i] /\ \A j \in 1..(i-1) : Skipped(page, script[j])
    BY <1>5 DEF Sent
  <2>3. i # 1 /\ script[1].do = "drop"
    BY <2>1, <2>2 DEF Startable, Fresh
  <2>4. DOMAIN script = 1..Len(script) /\ Len(script) \in Nat
    BY <1>4, LenProperties DEF Fit
  <2>5. 1 \in 1..(i-1)
    BY <2>3, <2>4
  <2> QED
    BY <2>2, <2>3, <2>5 DEF Skipped
<1>8. TypeOK'
  BY <1>1, <1>2, <1>6 DEF TypeOK
<1>9. ActiveValid' /\ DraftsHangTogether'
  BY <1>1, <1>2 DEF ActiveValid, DraftsHangTogether
<1>10. WorkHasBase(page)'
  <2>1. WorkHasBase(page')
    BY <1>2, <1>6 DEF WorkHasBase, FormsFit, Fresh
  <2> QED
    BY <2>1 DEF WorkHasBase, FormsFit
<1>11. SeenExists'
  BY <1>1, <1>2, <1>6 DEF SeenExists, Fresh
<1>12. IdleSession' /\ PageSession'
  BY <1>2, <1>6 DEF IdleSession, PageSession, MatchesPage, Matches, Fresh
<1>13. served # None => page' = page
  BY <1>6, <1>7
<1>14. CallSession'
  BY <1>1, <1>2, <1>6, <1>13 DEF CallSession, MatchesCall, Matches, IdleSession, MatchesPage
<1>15. CurrentSession'
  BY <1>1, <1>2, <1>6, <1>7 DEF CurrentSession, IdleSession
<1>16. CallFits'
  BY <1>6 DEF CallFits
<1>17. RequestFits'
  <2>1. /\ call'.message.do \in {"put", "contract", "set"} =>
             call'.message.with \in Contents[call'.message.item]
        /\ call'.message.do = "put" =>
             /\ call'.message.item = page'.forms[call'.todo[1].kind].item
             /\ call'.message.with = page'.forms[call'.todo[1].kind].content
    BY <1>5 DEF Sent
  <2>2. ASSUME call'.message.do = "rollback"
        PROVE  call'.message.with \in 1..Len(rows[page'.profile])
    <3>1. call'.todo[1].do = "rollback" /\ call'.message.with = call'.todo[1].with
      BY <1>5, <1>6, <2>2 DEF Sent
    <3>2. page' = page
      BY <1>6, <3>1 DEF Fresh
    <3>3. PICK i \in DOMAIN script : call'.todo[1] = script[i]
      BY <1>5 DEF Sent
    <3> QED
      BY <3>1, <3>2, <3>3 DEF Startable
  <2> QED
    BY <1>1, <1>6, <2>1, <2>2 DEF RequestFits
<1>18. RoomKept'
  <2>1. SUFFICES ASSUME NEW j \in DOMAIN call'.todo, call'.todo[j].do = "save",
                        call'.message.base = active[call'.message.profile]
                 PROVE  Len(rows[call'.message.profile]) < MaxRev[call'.message.profile]
    <3>1. call'.message.do = "save" =>
            1 \in DOMAIN call'.todo /\ call'.todo[1].do = "save"
      BY <1>6, EmptySeq, LenProperties DEF Fit
    <3> QED
      BY <1>1, <3>1 DEF RoomKept
  <2>2. call'.todo[1].do \in {"ensure", "put", "contract", "save"}
    BY <1>6, <2>1, SaveAhead
  <2>3. page' = page
    BY <1>6, <2>2 DEF Fresh
  <2>4. PICK i \in DOMAIN script : call'.todo[j] = script[i]
    BY <1>5 DEF Sent
  <2>5. Room
    BY <2>1, <2>4 DEF Startable
  <2> QED
    BY <1>6, <2>1, <2>3, <2>5 DEF Room
<1>19. ShowsDraft'
  BY <1>1, <1>2, <1>6, <1>13 DEF ShowsDraft
<1> QED
  BY <1>8, <1>9, <1>10, <1>11, <1>12, <1>14, <1>15, <1>16, <1>17, <1>18, <1>19 DEF EInv

LEMMA StatementsAre ==
  /\ \A do \in {"ensure", "contract", "validate", "save", "drop", "clearAndRead"} :
       Statement(do) \in Statements /\ Statement(do).do = do
  /\ \A k \in Kinds : Put(k) \in Statements /\ Put(k).do = "put" /\ Put(k).kind = k
  /\ \A p \in Profiles : Read(p) \in Statements /\ Read(p).do = "read" /\ Read(p).with = p
  /\ \A i \in Items : LET st == On("delete", i, None) IN
       st \in Statements /\ st.do = "delete"
  /\ \A i \in Items : \A v \in Contents[i] : LET st == On("set", i, v) IN
       st \in Statements /\ st.do = "set" /\ st.item = i /\ st.with = v
  /\ \A d \in Documents : LET st == On("import", None, d) IN
       st \in Statements /\ st.do = "import"
  /\ \A r \in AllRevs : LET st == On("rollback", None, r) IN
       st \in Statements /\ st.do = "rollback" /\ st.with = r
<1>1. \A do \in {"ensure", "contract", "validate", "save", "drop", "clearAndRead"} :
        Statement(do) \in Statements /\ Statement(do).do = do
  BY DEF Statement, Statements
<1>2. \A k \in Kinds : Put(k) \in Statements /\ Put(k).do = "put" /\ Put(k).kind = k
  BY DEF Statement, Put, Statements
<1>3. \A p \in Profiles : Read(p) \in Statements /\ Read(p).do = "read" /\ Read(p).with = p
  BY DEF Statement, On, Read, Statements
<1>4. \A i \in Items : LET st == On("delete", i, None) IN
        st \in Statements /\ st.do = "delete"
  BY DEF Statement, On, Statements
<1>5. \A i \in Items : \A v \in Contents[i] : LET st == On("set", i, v) IN
        st \in Statements /\ st.do = "set" /\ st.item = i /\ st.with = v
  BY DEF Statement, On, Statements, Entered
<1>6. \A d \in Documents : LET st == On("import", None, d) IN
        st \in Statements /\ st.do = "import"
  BY DEF Statement, On, Statements
<1>7. \A r \in AllRevs : LET st == On("rollback", None, r) IN
        st \in Statements /\ st.do = "rollback" /\ st.with = r
  BY DEF Statement, On, Statements
<1> QED
  BY <1>1, <1>2, <1>3, <1>4, <1>5, <1>6, <1>7

(* The scripts of one or two statements.                                   *)
LEMMA RefreshStarts ==
  ASSUME page \in Page
  PROVE  Startable(<<Read(page.profile)>>)
<1> DEFINE st == Read(page.profile)
           script == <<st>>
<1>1. st \in Statements /\ st.do = "read" /\ st.with = page.profile
  BY StatementsAre DEF Page
<1> HIDE DEF st
<1>2. script \in Seq(Statements) /\ Len(script) = 1 /\ DOMAIN script = {1} /\ script[1] = st
  BY <1>1
<1> HIDE DEF script
<1> QED
  BY <1>1, <1>2 DEF Startable, Fit, FitSave, FitReplace, FitDrop, FitOrder, Replaces, script, st

LEMMA RollbackStarts ==
  ASSUME page \in Page, ~Dirty(page), NEW rev \in AllRevs, rev \in 1..Len(rows[page.profile])
  PROVE  Startable(<<On("rollback", None, rev), Read(page.profile)>>)
<1> DEFINE st == On("rollback", None, rev)
           rd == Read(page.profile)
           script == <<st, rd>>
<1>1. rd \in Statements /\ rd.do = "read" /\ rd.with = page.profile
  BY StatementsAre DEF Page
<1>2. st \in Statements /\ st.do = "rollback" /\ st.with = rev
  BY StatementsAre
<1> HIDE DEF st, rd
<1>3. /\ script \in Seq(Statements) /\ Len(script) = 2 /\ DOMAIN script = {1, 2}
      /\ script[1] = st /\ script[2] = rd
  BY <1>1, <1>2
<1> HIDE DEF script
<1>4. FitSave(page, script) /\ FitDrop(page, script) /\ FitOrder(script)
  BY <1>1, <1>2, <1>3 DEF FitSave, FitDrop, FitOrder
<1>5. FitReplace(page, script)
  BY <1>1, <1>2, <1>3 DEF FitReplace, Replaces
<1> QED
  BY <1>1, <1>2, <1>3, <1>4, <1>5 DEF Startable, Fit, script, st, rd

(* Statements that only work on the draft of the page.                     *)
Plain ==
  {st \in Statements : \/ st.do \in {"ensure", "contract", "put", "validate", "delete"}
                       \/ st.do = "set" /\ st.with \in Contents[st.item]}

LEMMA PlainStarts ==
  ASSUME NEW script \in Seq(Plain)
  PROVE  Startable(script)
<1>1. DOMAIN script = 1..Len(script) /\ Len(script) \in Nat /\ \A j \in DOMAIN script : script[j] \in Plain
  BY LenProperties, ElementOfSeq
<1>2. script \in Seq(Statements)
  BY DEF Plain
<1>3. \A j \in DOMAIN script :
        /\ script[j].do \notin {"save", "drop", "read", "clearAndRead", "rollback", "import"}
        /\ script[j].do = "set" => script[j].with \in Contents[script[j].item]
  BY <1>1 DEF Plain
<1> QED
  BY <1>2, <1>3 DEF Startable, Fit, FitSave, FitReplace, FitDrop, FitOrder, Replaces

LEMMA ApplyStarts ==
  ASSUME NEW k \in Kinds
  PROVE  Startable(<<Statement("ensure")>> \o
           (IF k = "fusion" THEN <<Statement("contract")>> ELSE <<>>) \o <<Put(k)>>)
<1> DEFINE a == <<Statement("ensure")>>
           b == IF k = "fusion" THEN <<Statement("contract")>> ELSE <<>>
           c == <<Put(k)>>
<1>1. Statement("ensure") \in Plain /\ Statement("contract") \in Plain /\ Put(k) \in Plain
  BY StatementsAre DEF Plain
<1>2. a \in Seq(Plain) /\ b \in Seq(Plain) /\ c \in Seq(Plain)
  BY <1>1
<1> HIDE DEF a, b, c
<1>3. (a \o b) \o c \in Seq(Plain)
  BY <1>2, ConcatProperties
<1> QED
  BY <1>3, PlainStarts DEF a, b, c

LEMMA ValidateStarts == Startable(ApplyAll \o <<Statement("validate")>>)
<1>1. /\ Statement("ensure") \in Plain /\ Statement("contract") \in Plain
      /\ Statement("validate") \in Plain
      /\ Put("binding") \in Plain /\ Put("instance") \in Plain /\ Put("fusion") \in Plain
  BY StatementsAre DEF Plain, Kinds
<1>2. ApplyAll \in Seq(Plain) /\ <<Statement("validate")>> \in Seq(Plain)
  BY <1>1 DEF ApplyAll
<1>3. ApplyAll \o <<Statement("validate")>> \in Seq(Plain)
  BY <1>2, ConcatProperties
<1> QED
  BY <1>3, PlainStarts

LEMMA RemoveStarts ==
  ASSUME NEW i \in Items
  PROVE  Startable(<<Statement("ensure"), On("delete", i, None)>>)
<1>1. Statement("ensure") \in Plain /\ On("delete", i, None) \in Plain
  BY StatementsAre DEF Plain
<1>2. <<Statement("ensure"), On("delete", i, None)>> \in Seq(Plain)
  BY <1>1
<1> QED
  BY <1>2, PlainStarts

LEMMA ToggleStarts ==
  ASSUME NEW i \in Items, NEW v \in Contents[i]
  PROVE  Startable(<<Statement("ensure"), On("set", i, v)>>)
<1>1. Statement("ensure") \in Plain /\ On("set", i, v) \in Plain
  BY StatementsAre DEF Plain
<1>2. <<Statement("ensure"), On("set", i, v)>> \in Seq(Plain)
  BY <1>1
<1> QED
  BY <1>2, PlainStarts

(* The scripts that begin with a drop.                                     *)
LEMMA DropStarts ==
  ASSUME page \in Page, NEW st \in Statements,
         \/ st.do = "clearAndRead"
         \/ ~Dirty(page) /\ st.do \in {"read", "import"}
  PROVE  Startable(<<Statement("drop"), st>>)
<1> DEFINE drop == Statement("drop")
           script == <<drop, st>>
<1>1. drop \in Statements /\ drop.do = "drop"
  BY StatementsAre
<1> HIDE DEF drop
<1>2. /\ script \in Seq(Statements) /\ Len(script) = 2 /\ DOMAIN script = {1, 2}
      /\ script[1] = drop /\ script[2] = st
  BY <1>1
<1> HIDE DEF script
<1>3. FitSave(page, script) /\ FitOrder(script)
  BY <1>1, <1>2 DEF FitSave, FitOrder
<1>4. FitDrop(page, script)
  BY <1>1, <1>2 DEF FitDrop
<1>5. FitReplace(page, script)
  BY <1>1, <1>2 DEF FitReplace, Replaces
<1> QED
  BY <1>1, <1>2, <1>3, <1>4, <1>5 DEF Startable, Fit, script, drop

(* Saving takes over every form before.                                    *)
LEMMA SaveStarts ==
  ASSUME page \in Page, Room
  PROVE  Startable(ApplyAll \o <<Statement("save"), Read(page.profile)>>)
<1> DEFINE ens == Statement("ensure")
           con == Statement("contract")
           sav == Statement("save")
           rd == Read(page.profile)
           end == <<sav, rd>>
           script == ApplyAll \o end
<1>1. /\ ens \in Statements /\ ens.do = "ensure" /\ con \in Statements /\ con.do = "contract"
      /\ sav \in Statements /\ sav.do = "save"
  BY StatementsAre
<1>2. rd \in Statements /\ rd.do = "read" /\ rd.with = page.profile
  BY StatementsAre DEF Page
<1>3. \A k \in Kinds : Put(k) \in Statements /\ Put(k).do = "put" /\ Put(k).kind = k
  BY StatementsAre
<1> HIDE DEF ens, con, sav, rd
<1>4. /\ ApplyAll \in Seq(Statements) /\ Len(ApplyAll) = 5
      /\ ApplyAll[1] = ens /\ ApplyAll[2] = Put("binding") /\ ApplyAll[3] = Put("instance")
      /\ ApplyAll[4] = con /\ ApplyAll[5] = Put("fusion")
  BY <1>1, <1>3 DEF ApplyAll, Kinds, ens, con
<1>5. end \in Seq(Statements) /\ Len(end) = 2 /\ end[1] = sav /\ end[2] = rd
  BY <1>1, <1>2
<1> HIDE DEF end
<1>6. /\ script \in Seq(Statements) /\ Len(script) = 7
      /\ \A i \in 1..7 : script[i] = IF i <= 5 THEN ApplyAll[i] ELSE end[i - 5]
  <2>1. /\ script \in Seq(Statements) /\ Len(script) = Len(ApplyAll) + Len(end)
        /\ \A i \in 1..(Len(ApplyAll) + Len(end)) :
             script[i] = IF i <= Len(ApplyAll) THEN ApplyAll[i] ELSE end[i - Len(ApplyAll)]
    BY <1>4, <1>5, ConcatProperties
  <2> QED
    BY <1>4, <1>5, <2>1
<1> HIDE DEF script
<1>7. /\ DOMAIN script = 1..7
      /\ script[1] = ens /\ script[2] = Put("binding") /\ script[3] = Put("instance")
      /\ script[4] = con /\ script[5] = Put("fusion") /\ script[6] = sav /\ script[7] = rd
  BY <1>4, <1>5, <1>6, LenProperties
<1>8. \A j \in 1..7 : j \in {1, 2, 3, 4, 5, 6, 7}
  OBVIOUS
<1>9. /\ \A j \in 1..5 : script[j].do \in {"ensure", "put", "contract"}
      /\ script[6].do = "save" /\ script[7].do = "read" /\ script[7].with = page.profile
  BY <1>1, <1>2, <1>3, <1>7 DEF Kinds
<1>10. \A k \in Kinds : \E i \in 1..5 : script[i].do = "put" /\ script[i].kind = k
  <2>1. ASSUME NEW k \in Kinds
        PROVE  \E i \in {2, 3, 5} : script[i] = Put(k)
    BY <1>7 DEF Kinds
  <2> QED
    BY <1>3, <2>1
<1>11. FitSave(page, script)
  <2>1. SUFFICES ASSUME NEW j \in DOMAIN script, script[j].do = "save"
                 PROVE  j = 6
    BY <1>9, <1>10 DEF FitSave
  <2>2. j \notin 1..5 /\ j # 7
    BY <1>9, <2>1
  <2> QED
    BY <1>7, <2>1, <2>2
<1>12. \A j \in DOMAIN script :
         /\ script[j].do \in {"ensure", "put", "contract", "save", "read"}
         /\ script[j].do = "read" => j = 7 /\ script[j].with = page.profile
  <2> TAKE j \in DOMAIN script
  <2>1. CASE j \in 1..5
    BY <1>9, <2>1
  <2>2. CASE j = 6
    BY <1>9, <2>2
  <2>3. CASE j = 7
    BY <1>9, <2>3
  <2> QED
    BY <1>7, <2>1, <2>2, <2>3
<1>13. FitReplace(page, script) /\ FitDrop(page, script) /\ FitOrder(script)
  BY <1>6, <1>12 DEF FitReplace, FitDrop, FitOrder, Replaces
<1>14. Startable(script)
  BY <1>6, <1>11, <1>12, <1>13 DEF Startable, Fit
<1> QED
  BY <1>14 DEF script, end, sav, rd

(* ---------------------------------------------------------------------- *)
(* The service *)

LEMMA CommandIs ==
  ASSUME NEW m \in Commands
  PROVE  /\ m.do \in Verbs /\ m.user \in Users /\ m.profile \in Profiles /\ m.base \in AllRevs
         /\ m.do \in {"put", "contract", "set"} => m.item \in Items
         /\ m.do = "import" => m.with \in Documents
BY DEF Commands, Command, Verbs

LEMMA CallIs ==
  ASSUME TypeOK, call # None
  PROVE  /\ call \in Call /\ call.message \in Commands /\ call.todo \in Seq(Statements)
         /\ 1 \in DOMAIN call.todo /\ call.todo[1] \in Statements
         /\ DOMAIN call.todo = 1..Len(call.todo) /\ Len(call.todo) \in Nat \ {0}
<1>1. call \in Call /\ call.todo # <<>>
  BY DEF TypeOK
<1>2. call.message \in Commands /\ call.todo \in Seq(Statements)
  BY <1>1 DEF Call
<1> QED
  BY <1>1, <1>2, EmptySeq, LenProperties, ElementOfSeq

Hangs(payload) == \A f \in FusionsOf(payload) : Inputs[f] \subseteq DOMAIN payload

LEMMA ValidHangs == ASSUME NEW payload, Valid(payload) PROVE Hangs(payload)
BY DEF Valid, Hangs

LEMMA PutHangs ==
  ASSUME NEW payload \in Payloads, Hangs(payload), NEW m, m.item \in Items,
         m.with \in Contents[m.item], CanPut(payload, m)
  PROVE  Hangs(With(payload, m.item, m.with))
<1> DEFINE next == With(payload, m.item, m.with)
<1>1. DOMAIN next = DOMAIN payload \cup {m.item}
  BY WithIs
<1>2. CASE KindOf[m.item] = "fusion"
  <2>1. Valid(next)
    BY <1>2 DEF CanPut
  <2> QED
    BY <2>1, ValidHangs
<1>3. CASE KindOf[m.item] # "fusion"
  <2>1. FusionsOf(next) = FusionsOf(payload)
    BY <1>1, <1>3 DEF FusionsOf
  <2> QED
    BY <1>1, <2>1 DEF Hangs
<1> QED
  BY <1>2, <1>3

LEMMA SetHangs ==
  ASSUME NEW payload \in Payloads, Hangs(payload), NEW i \in Items, NEW v \in Contents[i],
         i \in DOMAIN payload
  PROVE  Hangs(With(payload, i, v))
<1>1. DOMAIN With(payload, i, v) = DOMAIN payload
  BY WithIs
<1> QED
  BY <1>1 DEF Hangs, FusionsOf

LEMMA DeleteHangs ==
  ASSUME NEW payload \in Payloads, Hangs(payload), NEW m, CanDelete(payload, m)
  PROVE  Hangs(Without(payload, m.item))
<1>1. DOMAIN Without(payload, m.item) = DOMAIN payload \ {m.item}
  BY WithoutIs
<1> QED
  BY <1>1 DEF Hangs, FusionsOf, CanDelete

(* What the service holds after a command is the draft the command names.  *)
LEMMA ServedIs ==
  ASSUME EInv, call # None, call.at = "request", Accepts(call.message),
         NEW new, new = ServedAfter(call.message)
  PROVE  /\ new \in Draft \cup {None}
         /\ new # None => MatchesCall(new) /\ Hangs(new.payload)
         /\ call.message.do \in {"ensure", "put", "contract", "set", "delete", "import"} =>
              new # None
         /\ call.message.do \in {"read", "clearAndRead", "validate", "rollback"} => new = served
         /\ call.message.do \in {"save", "drop"} => new = None
<1> DEFINE m == call.message
<1>1. /\ TypeOK /\ ActiveValid /\ DraftsHangTogether /\ CallSession /\ RequestFits
  BY DEF EInv
<1>2. m \in Commands
  BY <1>1, CallIs
<1>3. /\ m.do \in Verbs /\ m.user \in Users /\ m.profile \in Profiles /\ m.base \in AllRevs
      /\ m.do \in {"put", "contract", "set"} => m.item \in Items
      /\ m.do = "import" => m.with \in Documents
  BY <1>2, CommandIs
<1>4. m.do \in {"put", "contract", "set"} => m.with \in Contents[m.item]
  BY <1>1 DEF RequestFits
<1>5. served \in Draft \cup {None} /\ (served # None => MatchesCall(served) /\ Hangs(served.payload))
  BY <1>1 DEF TypeOK, CallSession, DraftsHangTogether, Hangs
<1> HIDE DEF m
<1>6. \A payload \in Payloads :
        /\ Opened(m, payload) \in Draft /\ Opened(m, payload) # None
        /\ MatchesCall(Opened(m, payload)) /\ Opened(m, payload).payload = payload
  BY <1>3, NoneIsNothing DEF Opened, Draft, MatchesCall, Matches, m
<1>7. CASE m.do = "ensure"
  <2> DEFINE payload == PayloadAt(m.profile, active[m.profile])
  <2>1. new = Opened(m, payload)
    BY <1>7 DEF ServedAfter, m
  <2>2. active[m.profile] \in 0..Len(rows[m.profile]) /\ Len(rows[m.profile]) \in Nat
    <3>1. /\ active \in [Profiles -> AllRevs] /\ rows \in [Profiles -> Seq(Payloads)]
          /\ \A p \in Profiles : active[p] <= Len(rows[p])
      BY <1>1 DEF TypeOK
    <3>2. /\ active[m.profile] \in AllRevs /\ rows[m.profile] \in Seq(Payloads)
          /\ active[m.profile] <= Len(rows[m.profile])
      BY <1>3, <3>1
    <3>3. Len(rows[m.profile]) \in Nat
      BY <3>2, LenProperties
    <3>4. active[m.profile] \in Nat
      BY <3>2, RevsAre
    <3> QED
      BY <3>2, <3>3, <3>4
  <2>3. payload \in Payloads
    BY <1>1, <1>3, <2>2, PayloadAtIs
  <2>4. Hangs(payload)
    <3>1. CASE active[m.profile] = 0
      <4>1. payload = Nothing
        BY <3>1 DEF PayloadAt
      <4> HIDE DEF payload
      <4> QED
        BY <4>1, NothingIs DEF Hangs, FusionsOf
    <3>2. CASE active[m.profile] # 0
      <4>1. payload = rows[m.profile][active[m.profile]]
        BY <3>2 DEF PayloadAt
      <4>2. Valid(rows[m.profile][active[m.profile]])
        BY <1>1, <1>3, <3>2 DEF ActiveValid
      <4> QED
        BY <4>1, <4>2, ValidHangs
    <3> QED
      BY <3>1, <3>2
  <2> HIDE DEF payload
  <2> QED
    BY <1>6, <1>7, <2>1, <2>3, <2>4 DEF m
<1>8. CASE m.do = "import"
  <2>1. new = Opened(m, m.with.payload)
    BY <1>8 DEF ServedAfter, m
  <2>2. m.with.payload \in Payloads
    BY <1>3, <1>8, EditorConstants
  <2>3. Hangs(m.with.payload)
    <3>1. Valid(m.with.payload)
      BY <1>8 DEF Accepts, m
    <3> QED
      BY <3>1, ValidHangs
  <2> QED
    BY <1>6, <1>8, <2>1, <2>2, <2>3 DEF m
<1>9. ASSUME served \in Draft, NEW payload \in Payloads, new = [served EXCEPT !.payload = payload],
             Hangs(payload), MatchesCall(served)
      PROVE  new \in Draft /\ new # None /\ MatchesCall(new) /\ Hangs(new.payload)
  <2>1. /\ new \in Draft /\ new.owner = served.owner /\ new.profile = served.profile
        /\ new.base = served.base /\ new.payload = payload
    BY <1>9 DEF Draft
  <2> QED
    BY <1>9, <2>1, NoneIsNothing DEF MatchesCall, Matches
<1>10. CASE m.do \in {"put", "contract", "set"}
  <2> DEFINE payload == With(served.payload, m.item, m.with)
  <2>1. new = [served EXCEPT !.payload = payload]
    BY <1>10 DEF ServedAfter, m
  <2>2. served # None /\ (m.do # "set" => CanPut(served.payload, m))
        /\ (m.do = "set" => m.item \in DOMAIN served.payload)
    BY <1>10 DEF Accepts, Holds, m
  <2>3. served \in Draft /\ served.payload \in Payloads
    BY <1>5, <2>2 DEF Draft
  <2>4. payload \in Payloads
    BY <1>3, <1>4, <1>10, <2>3, WithIs
  <2>5. Hangs(payload)
    <3>1. m.item \in Items /\ m.with \in Contents[m.item] /\ Hangs(served.payload)
      BY <1>3, <1>4, <1>5, <1>10, <2>2
    <3> QED
      BY <2>2, <2>3, <3>1, PutHangs, SetHangs
  <2> HIDE DEF payload
  <2>6. new \in Draft /\ new # None /\ MatchesCall(new) /\ Hangs(new.payload)
    BY <1>5, <1>9, <2>1, <2>2, <2>3, <2>4, <2>5
  <2> QED
    BY <1>10, <2>6 DEF m
<1>11. CASE m.do = "delete"
  <2> DEFINE payload == Without(served.payload, m.item)
  <2>1. new = [served EXCEPT !.payload = payload]
    BY <1>11 DEF ServedAfter, m
  <2>2. served # None /\ CanDelete(served.payload, m)
    BY <1>11 DEF Accepts, Holds, m
  <2>3. served \in Draft /\ served.payload \in Payloads
    BY <1>5, <2>2 DEF Draft
  <2>4. payload \in Payloads /\ Hangs(payload)
    BY <1>5, <2>2, <2>3, WithoutIs, DeleteHangs
  <2> HIDE DEF payload
  <2>5. new \in Draft /\ new # None /\ MatchesCall(new) /\ Hangs(new.payload)
    BY <1>5, <1>9, <2>1, <2>2, <2>3, <2>4
  <2> QED
    BY <1>11, <2>5 DEF m
<1>12. CASE m.do \in {"save", "drop"}
  BY <1>12 DEF ServedAfter, m
<1>13. CASE m.do \in {"read", "clearAndRead", "validate", "rollback"}
  <2>1. new = served
    BY <1>13 DEF ServedAfter, m
  <2> QED
    BY <1>5, <1>13, <2>1 DEF m
<1> QED
  BY <1>3, <1>7, <1>8, <1>10, <1>11, <1>12, <1>13 DEF Verbs, m

(* A call that fails leaves page and service as they are, or the service   *)
(* without the draft.                                                      *)
LEMMA FailInv ==
  ASSUME EInv, call # None, call' = Failed, page' = page, rows' = rows, active' = active,
         served' \in {served, None}, faults' \in 0..MaxFaults,
         faults' # 0 \/ (faults' = faults /\ call.at = "request" /\ served' = served)
  PROVE  EInv'
<1> DEFINE answer == [ok |-> FALSE, draft |-> None, view |-> None]
<1>1. /\ TypeOK /\ ActiveValid /\ DraftsHangTogether /\ WorkHasBase(page) /\ SeenExists
      /\ PageSession /\ CallSession /\ CurrentSession /\ CallFits /\ RequestFits /\ RoomKept
      /\ ShowsDraft
  BY DEF EInv
<1>2. call \in Call
  BY <1>1, CallIs
<1>3. answer \in Answer /\ answer.ok = FALSE /\ answer.view = None
  BY DEF Answer
<1>4. /\ call' \in Call /\ call'.todo = call.todo /\ call'.current = call.current
      /\ call'.at = "answer" /\ call'.message = call.message /\ call'.answer = answer
  BY <1>2, <1>3 DEF Failed, Call
<1> HIDE DEF answer
<1>5. call' # None
  BY <1>4, NoneIsNothing
<1>6. TypeOK'
  BY <1>1, <1>4 DEF TypeOK
<1>7. ActiveValid' /\ DraftsHangTogether'
  BY <1>1 DEF ActiveValid, DraftsHangTogether
<1>8. WorkHasBase(page)' /\ PageSession'
  BY <1>1 DEF WorkHasBase, FormsFit, PageSession, MatchesPage, Matches, Base
<1>9. SeenExists'
  BY <1>1, <1>3, <1>4 DEF SeenExists
<1>10. IdleSession'
  BY <1>5 DEF IdleSession
<1>11. CallSession'
  BY <1>1, <1>3, <1>4 DEF CallSession, MatchesCall
<1>12. CurrentSession'
  BY <1>1, <1>4 DEF CurrentSession, Base
<1>13. CallFits' /\ RequestFits' /\ RoomKept'
  <2>1. CallFits'
    BY <1>1, <1>4 DEF CallFits
  <2>2. RequestFits'
    BY <1>1, <1>4 DEF RequestFits
  <2>3. RoomKept'
    BY <1>1, <1>4 DEF RoomKept
  <2> QED
    BY <2>1, <2>2, <2>3
<1>14. ShowsDraft'
  <2>1. CASE faults' # 0
    BY <2>1 DEF ShowsDraft
  <2>2. CASE faults' = 0
    <3>1. faults = 0 /\ call.at = "request" /\ served' = served
      BY <2>2
    <3>2. call.current /\ served # None /\ page.draft # None => page.draft = served
      BY <1>1, <3>1 DEF ShowsDraft
    <3> QED
      BY <1>3, <1>4, <1>5, <3>1, <3>2 DEF ShowsDraft
  <2> QED
    BY <2>1, <2>2
<1> QED
  BY <1>6, <1>7, <1>8, <1>9, <1>10, <1>11, <1>12, <1>13, <1>14 DEF EInv

LEMMA ComplyInv ==
  ASSUME EInv, call # None, call.at = "request", Comply, page' = page, faults' = faults
  PROVE  EInv'
<1> DEFINE m == call.message
           view == [active |-> active[m.profile], last |-> Len(rows[m.profile])]
           answer == [ok |-> TRUE, draft |-> ServedAfter(m), view |-> view]
<1>1. /\ TypeOK /\ ActiveValid /\ DraftsHangTogether /\ WorkHasBase(page) /\ SeenExists
      /\ PageSession /\ CallSession /\ CurrentSession /\ CallFits /\ RequestFits /\ RoomKept
      /\ ShowsDraft
  BY DEF EInv
<1>2. call \in Call /\ m \in Commands /\ 1 \in DOMAIN call.todo
  BY <1>1, CallIs
<1>3. m.do \in Verbs /\ m.profile \in Profiles /\ m.do = call.todo[1].do
  BY <1>1, <1>2, CommandIs DEF CallSession
<1>4. Accepts(m) /\ served' = ServedAfter(m) /\ call' = Succeeded(m)
  BY DEF Comply
<1>5. /\ served' \in Draft \cup {None}
      /\ served' # None => MatchesCall(served') /\ Hangs(served'.payload)
      /\ m.do \in {"ensure", "put", "contract", "set", "delete", "import"} => served' # None
      /\ m.do \in {"read", "clearAndRead", "validate", "rollback"} => served' = served
      /\ m.do \in {"save", "drop"} => served' = None
  BY <1>4, ServedIs
<1>6. /\ rows \in [Profiles -> Seq(Payloads)] /\ active \in [Profiles -> AllRevs]
      /\ \A p \in Profiles : active[p] <= Len(rows[p]) /\ Len(rows[p]) <= MaxRev[p]
      /\ \A p \in Profiles : Len(rows[p]) \in Nat /\ active[p] \in Nat
      /\ \A p \in Profiles : MaxRev[p] \in Nat
  BY <1>1, RevsAre, LenProperties, EditorConstants DEF TypeOK
<1>7. view \in View /\ view.last = Len(rows[m.profile])
  BY <1>3, <1>6, RevsAre DEF View
<1> HIDE DEF view
<1>8. answer \in Answer /\ answer.ok = TRUE /\ answer.draft = served' /\ answer.view = view
  BY <1>4, <1>5, <1>7 DEF Answer
<1>9. /\ call' \in Call /\ call'.todo = call.todo /\ call'.current = call.current
      /\ call'.at = "answer" /\ call'.message = m /\ call'.answer = answer
  <2>1. call' = [call EXCEPT !.at = "answer", !.answer = answer]
    BY <1>4 DEF Succeeded, view
  <2> HIDE DEF answer
  <2> QED
    BY <1>2, <1>8, <2>1 DEF Call
<1> HIDE DEF answer
<1>10. call' # None
  BY <1>9, NoneIsNothing
<1> DEFINE Typed == /\ rows' \in [Profiles -> Seq(Payloads)]
                    /\ active' \in [Profiles -> AllRevs]
           Bounded == \A p \in Profiles :
                        active'[p] <= Len(rows'[p]) /\ Len(rows'[p]) <= MaxRev[p]
           Validated == \A p \in Profiles : active'[p] # 0 => Valid(rows'[p][active'[p]])
           Grown == \A p \in Profiles : Len(rows[p]) <= Len(rows'[p]) /\ Len(rows'[p]) \in Nat
           Moved == m.do = "save" => m.base # active'[m.profile]
<1>11. ASSUME m.do = "save" PROVE Typed /\ Bounded /\ Validated /\ Grown /\ Moved
  <2> DEFINE n == Len(rows[m.profile])
             more == Append(rows[m.profile], served.payload)
  <2>1. /\ rows' = [rows EXCEPT ![m.profile] = more]
        /\ active' = [active EXCEPT ![m.profile] = n + 1]
    BY <1>11 DEF Comply
  <2>2. served # None /\ CanSave(m)
    BY <1>4, <1>11 DEF Accepts, Holds
  <2>3. /\ served \in Draft /\ served.payload \in Payloads /\ served.profile = m.profile
        /\ m.base = active[m.profile] /\ Valid(served.payload)
    BY <1>1, <2>2 DEF TypeOK, Draft, CallSession, MatchesCall, Matches, CanSave
  <2>4. n < MaxRev[m.profile] /\ n \in Nat /\ MaxRev[m.profile] \in Nat /\ active[m.profile] <= n
        /\ active[m.profile] \in Nat
    BY <1>1, <1>3, <1>6, <1>11, <2>3 DEF RoomKept
  <2>5. more \in Seq(Payloads) /\ Len(more) = n + 1 /\ more[n + 1] = served.payload
    BY <1>3, <1>6, <2>3
  <2>6. n + 1 \in AllRevs
    <3>1. n + 1 \in 0..MaxRev[m.profile]
      BY <2>4
    <3> QED
      BY <1>3, <3>1, RevsAre
  <2> HIDE DEF n, more
  <2>7. rows'[m.profile] = more /\ active'[m.profile] = n + 1
    BY <1>3, <1>6, <2>1
  <2>8. \A p \in Profiles : p # m.profile => rows'[p] = rows[p] /\ active'[p] = active[p]
    BY <1>6, <2>1
  <2>9. Typed
    BY <1>6, <2>1, <2>5, <2>6
  <2>10. Bounded
    <3> SUFFICES ASSUME NEW p \in Profiles
                 PROVE  active'[p] <= Len(rows'[p]) /\ Len(rows'[p]) <= MaxRev[p]
      OBVIOUS
    <3>1. CASE p = m.profile
      BY <2>4, <2>5, <2>7, <3>1
    <3>2. CASE p # m.profile
      BY <1>6, <2>8, <3>2
    <3> QED
      BY <3>1, <3>2
  <2>11. Validated
    <3> SUFFICES ASSUME NEW p \in Profiles, active'[p] # 0
                 PROVE  Valid(rows'[p][active'[p]])
      OBVIOUS
    <3>1. CASE p = m.profile
      BY <2>3, <2>5, <2>7, <3>1
    <3>2. CASE p # m.profile
      BY <1>1, <2>8, <3>2 DEF ActiveValid
    <3> QED
      BY <3>1, <3>2
  <2>12. Grown
    <3> SUFFICES ASSUME NEW p \in Profiles
                 PROVE  Len(rows[p]) <= Len(rows'[p]) /\ Len(rows'[p]) \in Nat
      OBVIOUS
    <3>1. CASE p = m.profile
      BY <2>4, <2>5, <2>7, <3>1 DEF n
    <3>2. CASE p # m.profile
      BY <1>6, <2>8, <3>2
    <3> QED
      BY <3>1, <3>2
  <2>13. Moved
    BY <2>3, <2>4, <2>7
  <2> QED
    BY <2>9, <2>10, <2>11, <2>12, <2>13
<1>12. ASSUME m.do = "rollback" PROVE Typed /\ Bounded /\ Validated /\ Grown /\ Moved
  <2>1. rows' = rows /\ active' = [active EXCEPT ![m.profile] = m.with]
    BY <1>12 DEF Comply
  <2>2. m.with \in 1..Len(rows[m.profile]) /\ Valid(rows[m.profile][m.with])
    BY <1>1, <1>4, <1>12 DEF RequestFits, Accepts, CanRollBack
  <2>3. m.with \in AllRevs /\ m.with <= Len(rows[m.profile])
    <3>1. m.with \in 0..MaxRev[m.profile] /\ m.with <= Len(rows[m.profile])
      BY <1>3, <1>6, <2>2
    <3> QED
      BY <1>3, <3>1, RevsAre
  <2>4. active'[m.profile] = m.with /\ \A p \in Profiles : p # m.profile => active'[p] = active[p]
    BY <1>3, <1>6, <2>1
  <2>5. Typed
    BY <1>6, <2>1, <2>3
  <2>6. Bounded
    BY <1>6, <2>1, <2>3, <2>4
  <2>7. Validated
    BY <1>1, <2>1, <2>2, <2>4 DEF ActiveValid
  <2>8. Grown
    BY <1>6, <2>1
  <2> QED
    BY <1>12, <2>5, <2>6, <2>7, <2>8
<1>13. ASSUME m.do \notin {"save", "rollback"} PROVE Typed /\ Bounded /\ Validated /\ Grown /\ Moved
  <2>1. rows' = rows /\ active' = active
    BY <1>13 DEF Comply
  <2>2. Validated
    BY <1>1, <2>1 DEF ActiveValid
  <2> QED
    BY <1>6, <1>13, <2>1, <2>2
<1>14. Typed /\ Bounded /\ Validated /\ Grown /\ Moved
  BY <1>11, <1>12, <1>13
<1>15. TypeOK'
  BY <1>1, <1>5, <1>9, <1>14 DEF TypeOK
<1>16. ActiveValid'
  BY <1>14 DEF ActiveValid
<1>17. DraftsHangTogether'
  BY <1>5 DEF DraftsHangTogether, Hangs
<1> HIDE DEF Typed, Bounded, Validated
<1>18. WorkHasBase(page)' /\ PageSession'
  BY <1>1 DEF WorkHasBase, FormsFit, PageSession, MatchesPage, Matches, Base
<1>19. SeenExists'
  <2>1. page.profile \in Profiles /\ (page.view # None => page.view.last \in Nat)
    BY <1>1, RevsAre DEF TypeOK, Page, View
  <2>2. page.view # None => page.view.last <= Len(rows'[page.profile])
    BY <1>1, <1>6, <1>14, <2>1 DEF SeenExists
  <2>3. Len(rows[m.profile]) <= Len(rows'[m.profile])
    BY <1>3, <1>14
  <2> QED
    BY <1>7, <1>8, <1>9, <2>2, <2>3 DEF SeenExists
<1>20. IdleSession'
  BY <1>10 DEF IdleSession
<1>21. CallSession'
  BY <1>3, <1>5, <1>8, <1>9 DEF CallSession, MatchesCall
<1>22. CurrentSession'
  BY <1>1, <1>9 DEF CurrentSession, Base
<1>23. CallFits'
  BY <1>1, <1>9 DEF CallFits
<1>24. RequestFits'
  <2>1. m.do = "rollback" => m.with \in 1..Len(rows'[m.profile])
    BY <1>1, <1>3, <1>6, <1>14 DEF RequestFits
  <2> QED
    BY <1>1, <1>9, <2>1 DEF RequestFits
<1>25. RoomKept'
  <2>1. CASE m.do = "save"
    BY <1>9, <1>14, <2>1 DEF RoomKept
  <2>2. CASE m.do = "rollback"
    <3>1. \A j \in DOMAIN call.todo : call.current => call.todo[j].do # "save"
      BY <1>1, <1>3, <2>2, SaveAhead DEF CallFits
    <3> QED
      BY <1>9, <2>2, <3>1 DEF RoomKept
  <2>3. CASE m.do \notin {"save", "rollback"}
    <3>1. rows' = rows /\ active' = active
      BY <2>3 DEF Comply
    <3> QED
      BY <1>1, <1>9, <3>1 DEF RoomKept
  <2> QED
    BY <2>1, <2>2, <2>3
<1>26. ShowsDraft'
  <2>1. SUFFICES ASSUME faults = 0 PROVE ShowsDraft'
    BY DEF ShowsDraft
  <2>2. call.current /\ served # None /\ page.draft # None => page.draft = served
    BY <1>1, <2>1 DEF ShowsDraft
  <2> QED
    BY <1>5, <1>8, <1>9, <1>10, <2>2 DEF ShowsDraft
<1> QED
  BY <1>15, <1>16, <1>17, <1>18, <1>19, <1>20, <1>21, <1>22, <1>23, <1>24, <1>25, <1>26 DEF EInv

LEMMA ServeInv == ASSUME EInv, Serve PROVE EInv'
<1>1. call # None /\ call.at = "request" /\ page' = page /\ faults' = faults
  BY DEF Serve
<1>2. CASE Comply
  BY <1>1, <1>2, ComplyInv
<1>3. CASE Refuse
  <2>1. call' = Failed /\ rows' = rows /\ active' = active /\ served' = served
    BY <1>3 DEF Refuse
  <2>2. faults \in 0..MaxFaults
    BY DEF EInv, TypeOK
  <2> QED
    BY <1>1, <2>1, <2>2, FailInv
<1> QED
  BY <1>2, <1>3 DEF Serve

(* ---------------------------------------------------------------------- *)
(* The page takes an answer *)

LEMMA NothingNeeded ==
  ASSUME NEW s, NEW script \in Seq(Statements), Needed(s, script) = <<>>
  PROVE  \A i \in DOMAIN script : Skipped(s, script[i])
<1> DEFINE todo == {i \in DOMAIN script : ~Skipped(s, script[i])}
           first == CHOOSE i \in todo : \A j \in todo : i <= j
<1>1. Len(script) \in Nat /\ DOMAIN script = 1..Len(script)
  BY LenProperties
<1>2. SUFFICES ASSUME todo # {} PROVE FALSE
  OBVIOUS
<1>3. Needed(s, script) = SubSeq(script, first, Len(script))
  BY <1>2 DEF Needed
<1>4. first \in 1..Len(script)
  <2>1. todo \in SUBSET Nat /\ todo \subseteq 1..Len(script)
    BY <1>1
  <2> HIDE DEF todo
  <2>2. \E i \in todo : \A j \in todo : i <= j
    BY <1>2, <2>1, SmallestOf
  <2> QED
    BY <2>1, <2>2
<1> HIDE DEF first, todo
<1>5. \A i \in first..Len(script) : script[i] \in Statements
  BY <1>1, <1>4, ElementOfSeq
<1>6. Len(SubSeq(script, first, Len(script))) = Len(script) - first + 1
  BY <1>1, <1>4, <1>5, SubSeqProperties
<1>7. Len(Needed(s, script)) > 0
  BY <1>1, <1>3, <1>4, <1>6
<1> QED
  BY <1>7

(* The page after an answer that counts, before it goes on.                *)
Answered(s) ==
  /\ s \in Page /\ s.user = page.user /\ s.profile = page.profile
  /\ FormsFit(s) /\ Fit(s, Tail(call.todo))
  /\ \A j \in DOMAIN Tail(call.todo) : Tail(call.todo)[j].do # "rollback"
  /\ s.changed => \/ s.draft # None
                  \/ Tail(call.todo) # <<>> /\ Tail(call.todo)[1].do = "clearAndRead"
  /\ s.draft # None => MatchesPage(s.draft)
  /\ s.view # None => s.view.last <= Len(rows[s.profile])
  /\ call.todo[1].do \in {"ensure", "put", "contract", "set", "delete", "import"} =>
       s.draft # None
  /\ faults = 0 /\ served # None /\ s.draft # None => s.draft = served

LEMMA AnsweredIs ==
  ASSUME EInv, call # None, call.at = "answer", Usable,
         NEW s, s = After(page, call.todo[1], call.answer)
  PROVE  Answered(s) /\ Taken(page, call.todo[1], call.answer, s)
<1> DEFINE st == call.todo[1]
           answer == call.answer
           m == call.message
           rest == Tail(call.todo)
<1>1. /\ TypeOK /\ WorkHasBase(page) /\ SeenExists /\ PageSession /\ CallSession
      /\ CurrentSession /\ CallFits /\ RequestFits /\ ShowsDraft
  BY DEF EInv
<1>2. /\ call.todo \in Seq(Statements) /\ st \in Statements /\ call.todo # <<>>
      /\ DOMAIN call.todo = 1..Len(call.todo) /\ Len(call.todo) \in Nat \ {0}
      /\ m \in Commands
  BY <1>1, CallIs DEF TypeOK
<1>3. /\ answer.ok /\ call.current /\ answer \in Answer /\ m.do = st.do
      /\ answer.draft # None => MatchesCall(answer.draft)
      /\ m.do \in {"ensure", "put", "contract", "set", "delete", "import"} => answer.draft # None
  BY <1>1 DEF Usable, CallSession
<1>4. page \in Page /\ page.profile \in Profiles
  BY <1>1 DEF TypeOK, Page
<1>5. Fit(page, call.todo) /\ ~Skipped(page, st)
  BY <1>1, <1>3 DEF CallFits
<1>6. page.user # None /\ m.user = page.user /\ m.profile = page.profile /\ m.base = Base(page)
  BY <1>1, <1>3 DEF CurrentSession
<1>7. st.do = "put" =>
        /\ page.forms[st.kind] # None /\ m.with = page.forms[st.kind].content
        /\ m.with \in Entered
  <2>1. ASSUME st.do = "put" PROVE page.forms[st.kind] # None
    BY <1>5, <2>1 DEF Skipped, FormDirty
  <2>2. ASSUME st.do = "put" PROVE m.with = page.forms[st.kind].content
    BY <1>1, <1>3, <2>2 DEF RequestFits
  <2>3. ASSUME st.do = "put" PROVE m.with \in Entered
    <3>1. m.item \in Items /\ m.with \in Contents[m.item]
      BY <1>1, <1>2, <1>3, <2>3, CommandIs DEF RequestFits
    <3> QED
      BY <3>1 DEF Entered
  <2> QED
    BY <2>1, <2>2, <2>3
<1>8. Taken(page, st, answer, s)
  BY <1>2, <1>3, <1>4, <1>7, AfterIs
<1>9. s \in Page /\ s.user = page.user /\ s.profile = page.profile
  BY <1>8 DEF Taken
<1>10. Fit(s, rest)
  BY <1>2, <1>4, <1>5, <1>7, <1>8, FitAfter
<1>11. st.do \in Verbs
  BY <1>2, StatementIs
<1>12. /\ \A k \in Kinds : s.forms[k] # None =>
            /\ page.forms[k] # None /\ s.forms[k].item = page.forms[k].item
            /\ s.forms[k].content = page.forms[k].content
       /\ st.do = "drop" /\ ~Dirty(page) => ~Dirty(s)
  BY <1>2, <1>4, <1>7, <1>8, FormsAfter
<1> HIDE DEF st, answer, m, rest
<1>13. FormsFit(s)
  <2>1. CASE st.do \in {"save", "rollback", "import"}
    BY <1>8, <2>1 DEF Taken, FormsFit
  <2>2. CASE st.do \notin {"save", "rollback", "import"}
    <3>1. s.editBase = page.editBase
      BY <1>4, <1>8, <1>11, <2>2 DEF Taken, Page, Verbs
    <3> QED
      BY <1>1, <1>12, <3>1 DEF WorkHasBase, FormsFit
  <2> QED
    BY <2>1, <2>2
<1>14. /\ DOMAIN rest = 1..(Len(call.todo) - 1) /\ Len(rest) = Len(call.todo) - 1
       /\ \A j \in DOMAIN rest : rest[j] = call.todo[j+1] /\ j + 1 \in DOMAIN call.todo
  <2>1. /\ rest \in Seq(Statements) /\ Len(rest) = Len(call.todo) - 1
        /\ \A i \in 1..Len(rest) : rest[i] = call.todo[i+1]
    BY <1>2, HeadTailProperties DEF rest
  <2>2. DOMAIN rest = 1..Len(rest)
    BY <2>1, LenProperties
  <2> QED
    BY <1>2, <2>1, <2>2
<1>15. \A j \in DOMAIN rest : rest[j].do # "rollback"
  <2> SUFFICES ASSUME NEW j \in DOMAIN rest, rest[j].do = "rollback" PROVE FALSE
    OBVIOUS
  <2>1. j + 1 = 1
    BY <1>5, <1>14 DEF Fit, FitOrder
  <2> QED
    BY <1>14, <2>1
<1>16. s.draft # None => MatchesPage(s.draft)
  <2>1. ASSUME answer.draft # None PROVE MatchesPage(answer.draft)
    BY <1>3, <1>6, <2>1 DEF MatchesCall, MatchesPage, Matches, m
  <2>2. s.draft \in {None, page.draft, answer.draft}
    BY <1>4, <1>8, <1>11 DEF Taken, Page, Verbs
  <2> QED
    BY <1>1, <2>1, <2>2 DEF PageSession
<1>17. s.view # None => s.view.last <= Len(rows[s.profile])
  <2>1. CASE st.do \in {"read", "clearAndRead"}
    <3>1. s.view = answer.view
      BY <1>4, <1>8, <2>1 DEF Taken, Page
    <3>2. answer # None
      BY <1>3, NoneIsNothing
    <3> QED
      BY <1>1, <1>6, <1>9, <3>1, <3>2 DEF SeenExists, answer, m
  <2>2. CASE st.do \notin {"read", "clearAndRead"}
    <3>1. s.view = page.view
      BY <1>4, <1>8, <1>11, <2>2 DEF Taken, Page, Verbs
    <3> QED
      BY <1>1, <1>9, <3>1 DEF SeenExists
  <2> QED
    BY <2>1, <2>2
<1>18. s.changed => s.draft # None \/ (rest # <<>> /\ rest[1].do = "clearAndRead")
  <2>1. CASE st.do = "drop"
    <3>1. s.changed = page.changed
      BY <1>4, <1>8, <2>1 DEF Taken, Page
    <3>2. CASE ~Dirty(page)
      BY <3>1, <3>2 DEF Dirty
    <3>3. CASE Dirty(page)
      <4>1. 1 \in DOMAIN call.todo
        BY <1>2
      <4>2. Len(call.todo) >= 2 /\ call.todo[2].do = "clearAndRead"
        BY <1>5, <2>1, <3>3, <4>1 DEF Fit, FitDrop, st
      <4>3. 1 \in DOMAIN rest /\ Len(rest) # 0
        BY <1>2, <1>14, <4>2
      <4>4. rest[1].do = "clearAndRead" /\ rest # <<>>
        BY <1>14, <4>2, <4>3
      <4> QED
        BY <4>4
    <3> QED
      BY <3>2, <3>3
  <2>2. CASE st.do \in {"ensure", "put", "contract", "set", "delete", "import"}
    <3>1. s.draft = answer.draft
      BY <1>4, <1>8, <2>2 DEF Taken, Page
    <3> QED
      BY <1>3, <2>2, <3>1
  <2>3. CASE st.do \in {"read", "clearAndRead", "validate"}
    <3>1. s.draft = page.draft /\ s.changed = page.changed
      BY <1>4, <1>8, <2>3 DEF Taken, Page
    <3> QED
      BY <1>1, <3>1 DEF WorkHasBase
  <2>4. CASE st.do \in {"save", "rollback"}
    BY <1>8, <2>4 DEF Taken
  <2> QED
    BY <1>11, <2>1, <2>2, <2>3, <2>4 DEF Verbs
<1>19. st.do \in {"ensure", "put", "contract", "set", "delete", "import"} => s.draft # None
  <2> SUFFICES ASSUME st.do \in {"ensure", "put", "contract", "set", "delete", "import"}
               PROVE  s.draft # None
    OBVIOUS
  <2>1. s.draft = answer.draft
    BY <1>4, <1>8 DEF Taken, Page
  <2> QED
    BY <1>3, <2>1
<1>20. faults = 0 /\ served # None /\ s.draft # None => s.draft = served
  <2> SUFFICES ASSUME faults = 0, served # None, s.draft # None PROVE s.draft = served
    OBVIOUS
  <2>1. CASE st.do \in {"ensure", "put", "contract", "set", "delete", "import"}
    <3>1. s.draft = answer.draft
      BY <1>4, <1>8, <2>1 DEF Taken, Page
    <3>2. answer.draft = served
      BY <1>1, <1>3 DEF ShowsDraft, answer
    <3> QED
      BY <3>1, <3>2
  <2>2. CASE st.do \in {"read", "clearAndRead", "validate"}
    <3>1. s.draft = page.draft
      BY <1>4, <1>8, <2>2 DEF Taken, Page
    <3> QED
      BY <1>1, <1>3, <2>2, <3>1 DEF ShowsDraft, m
  <2>3. CASE st.do \in {"save", "rollback", "drop"}
    BY <1>4, <1>8, <2>3 DEF Taken, Page
  <2> QED
    BY <1>11, <2>1, <2>2, <2>3 DEF Verbs
<1> QED
  BY <1>8, <1>9, <1>10, <1>13, <1>15, <1>16, <1>17, <1>18, <1>19, <1>20 DEF Answered, st, answer, rest

LEMMA ReceiveInv == ASSUME EInv, Receive PROVE EInv'
<1>1. /\ call # None /\ call.at = "answer" /\ served' = Named
      /\ rows' = rows /\ active' = active /\ faults' = faults
  BY DEF Receive
<1>2. /\ TypeOK /\ ActiveValid /\ DraftsHangTogether /\ WorkHasBase(page) /\ SeenExists
      /\ PageSession /\ CallSession /\ CurrentSession /\ CallFits /\ RoomKept /\ ShowsDraft
  BY DEF EInv
<1>3. /\ served' # None => served' = served /\ page'.draft # None
      /\ page'.draft = None => served' = None
  BY <1>1 DEF Named
<1>4. ActiveValid' /\ DraftsHangTogether'
  <2>1. ActiveValid'
    BY <1>1, <1>2 DEF ActiveValid
  <2>2. DraftsHangTogether'
    BY <1>2, <1>3 DEF DraftsHangTogether
  <2> QED
    BY <2>1, <2>2
<1>5. served' \in Draft \cup {None}
  BY <1>2, <1>3 DEF TypeOK
<1>6. CASE ~Usable
  <2>1. call' = None /\ page' = page
    BY <1>6 DEF Receive
  <2>2. TypeOK'
    BY <1>1, <1>2, <1>5, <2>1 DEF TypeOK
  <2>3. WorkHasBase(page)' /\ PageSession'
    BY <1>2, <2>1 DEF WorkHasBase, FormsFit, PageSession, MatchesPage, Matches, Base
  <2>4. SeenExists' /\ CallSession' /\ CurrentSession' /\ CallFits' /\ RequestFits' /\ RoomKept'
    BY <1>1, <1>2, <2>1 DEF SeenExists, CallSession, CurrentSession, CallFits, RequestFits, RoomKept
  <2>5. IdleSession'
    <3>1. served' # None => MatchesPage(served)
      BY <1>1, <1>2, <1>3, <2>1 DEF CallSession, CurrentSession, MatchesCall, MatchesPage, Matches
    <3> QED
      BY <1>3, <2>1, <3>1 DEF IdleSession, MatchesPage, Matches, Base
  <2>6. ShowsDraft'
    <3> SUFFICES ASSUME faults = 0, served' # None, page.draft # None PROVE page.draft = served
      BY <1>1, <1>3, <2>1 DEF ShowsDraft
    <3>1. call.current /\ ~call.answer.ok
      BY <1>1, <1>2, <1>6 DEF CurrentSession, Usable
    <3> QED
      BY <1>1, <1>2, <1>3, <3>1 DEF ShowsDraft
  <2> QED
    BY <1>4, <2>2, <2>3, <2>4, <2>5, <2>6 DEF EInv
<1>7. CASE Usable
  <2> DEFINE s == After(page, call.todo[1], call.answer)
             rest == Tail(call.todo)
  <2>1. Answered(s) /\ Proceed(s, rest)
    BY <1>1, <1>7, AnsweredIs DEF Receive
  <2> HIDE DEF s
  <2>2. /\ s \in Page /\ s.user = page.user /\ s.profile = page.profile
        /\ FormsFit(s) /\ Fit(s, rest)
        /\ \A j \in DOMAIN rest : rest[j].do # "rollback"
        /\ s.changed => s.draft # None \/ (rest # <<>> /\ rest[1].do = "clearAndRead")
        /\ s.draft # None => MatchesPage(s.draft)
        /\ s.view # None => s.view.last <= Len(rows[s.profile])
        /\ call.todo[1].do \in {"ensure", "put", "contract", "set", "delete", "import"} =>
             s.draft # None
        /\ faults = 0 /\ served # None /\ s.draft # None => s.draft = served
    BY <2>1 DEF Answered
  <2> HIDE DEF rest
  <2>3. s.draft # None => Base(s) = Base(page)
    BY <2>2 DEF Base, MatchesPage, Matches
  <2>4. /\ call.current /\ page.user # None /\ call.message.user = page.user
        /\ call.message.profile = page.profile /\ call.message.base = Base(page)
    BY <1>1, <1>2, <1>7 DEF Usable, CurrentSession
  <2>5. served # None => Matches(served, page.user, page.profile, Base(page))
    BY <1>1, <1>2, <2>4 DEF CallSession, MatchesCall
  <2>6. rest \in Seq(Statements)
    BY <2>2 DEF Fit
  <2>7. CASE Needed(s, rest) = <<>>
    <3>1. page' = s /\ call' = None
      BY <2>1, <2>7 DEF Proceed
    <3>2. s.changed => s.draft # None
      <4> SUFFICES ASSUME rest # <<>>, rest[1].do = "clearAndRead" PROVE FALSE
        BY <2>2
      <4>1. 1 \in DOMAIN rest
        BY <2>6, EmptySeq, LenProperties
      <4>2. Skipped(s, rest[1])
        BY <2>6, <2>7, <4>1, NothingNeeded
      <4> QED
        BY <4>2 DEF Skipped
    <3>3. TypeOK'
      BY <1>1, <1>2, <1>5, <2>2, <3>1 DEF TypeOK
    <3>4. WorkHasBase(page)'
      BY <2>2, <3>1, <3>2 DEF WorkHasBase, FormsFit
    <3>5. PageSession' /\ IdleSession'
      <4>1. page'.draft # None => MatchesPage(page.draft)'
        BY <2>2, <2>3, <3>1 DEF MatchesPage, Matches
      <4>2. served' # None => MatchesPage(served)'
        BY <1>3, <2>2, <2>3, <2>5, <3>1 DEF MatchesPage, Matches
      <4> QED
        BY <1>3, <2>2, <2>4, <3>1, <4>1, <4>2 DEF PageSession, IdleSession
    <3>6. SeenExists' /\ CallSession' /\ CurrentSession' /\ CallFits' /\ RequestFits' /\ RoomKept'
      BY <1>1, <2>2, <3>1 DEF SeenExists, CallSession, CurrentSession, CallFits, RequestFits, RoomKept
    <3>7. ShowsDraft'
      BY <1>1, <1>3, <2>2, <3>1 DEF ShowsDraft
    <3> QED
      BY <1>4, <3>3, <3>4, <3>5, <3>6, <3>7 DEF EInv
  <2>8. CASE Needed(s, rest) # <<>>
    <3>1. Sent(s, rest)
      BY <2>1, <2>2, <2>4, <2>8, Sends
    <3>2. /\ call' \in Call /\ call' # None /\ call'.todo # <<>>
          /\ call'.current = TRUE /\ call'.at = "request" /\ call'.answer = None
          /\ page' \in Page /\ page'.user = s.user
          /\ Fit(page', call'.todo) /\ ~Skipped(page', call'.todo[1])
          /\ page' = s \/ Fresh(s, call'.todo[1], page')
          /\ call'.message.do = call'.todo[1].do
          /\ call'.message.user = s.user /\ call'.message.profile = page'.profile
          /\ call'.message.base = Base(page')
      BY <3>1 DEF Sent
    <3>3. page'.draft # None => page' = s
      BY <3>2 DEF Fresh
    <3>4. TypeOK'
      BY <1>1, <1>2, <1>5, <3>2 DEF TypeOK
    <3>5. WorkHasBase(page)'
      <4>1. CASE Fresh(s, call'.todo[1], page')
        BY <4>1 DEF Fresh, WorkHasBase, FormsFit
      <4>2. CASE page' = s /\ s.draft # None
        BY <2>2, <4>2 DEF WorkHasBase, FormsFit
      <4>3. CASE page' = s /\ s.draft = None /\ ~Fresh(s, call'.todo[1], page')
        <5> SUFFICES ASSUME rest # <<>>, rest[1].do = "clearAndRead" PROVE FALSE
          BY <2>2, <4>3 DEF WorkHasBase, FormsFit
        <5>1. PICK i \in DOMAIN rest :
                call'.todo[1] = rest[i] /\ \A j \in 1..(i-1) : Skipped(s, rest[j])
          BY <3>1 DEF Sent
        <5>2. DOMAIN rest = 1..Len(rest) /\ Len(rest) \in Nat
          BY <2>6, LenProperties
        <5>3. ~Skipped(s, rest[1])
          BY DEF Skipped
        <5>4. i = 1
          BY <5>1, <5>2, <5>3
        <5>5. call'.todo[1].do = "clearAndRead"
          BY <5>1, <5>4
        <5>6. page' = [Blank(s.user, s.profile) EXCEPT !.view = s.view]
          <6>1. call'.todo = Needed(s, rest) /\ page' = Prepared(s, Needed(s, rest)[1])
            BY <2>1, <2>8 DEF Proceed
          <6> QED
            BY <5>5, <6>1 DEF Prepared
        <5>7. page'.changed = FALSE /\ page'.draft = None /\ page'.forms = [k \in Kinds |-> None]
              /\ page'.editBase = None /\ page'.profile = s.profile /\ page'.view = s.view
          BY <5>6 DEF Blank
        <5> QED
          BY <4>3, <5>5, <5>7 DEF Fresh, Dirty, FormDirty
      <4> QED
        BY <3>2, <4>1, <4>2, <4>3
    <3>6. SeenExists'
      BY <1>1, <2>2, <3>2 DEF SeenExists, Fresh
    <3>7. IdleSession'
      BY <3>2 DEF IdleSession
    <3>8. PageSession'
      BY <2>2, <2>3, <2>4, <3>2, <3>3 DEF PageSession, MatchesPage, Matches
    <3>9. CallSession'
      BY <1>3, <2>2, <2>3, <2>5, <3>2, <3>3 DEF CallSession, MatchesCall, Matches
    <3>10. CurrentSession'
      BY <1>3, <2>2, <2>4, <3>2 DEF CurrentSession
    <3>11. CallFits'
      BY <3>2 DEF CallFits
    <3>12. RequestFits'
      <4>1. call'.message.do # "rollback"
        BY <2>2, <3>1 DEF Sent
      <4> QED
        BY <3>1, <4>1 DEF Sent, RequestFits
    <3>13. RoomKept'
      <4>1. SUFFICES ASSUME NEW j \in DOMAIN call'.todo, call'.todo[j].do = "save",
                            call'.message.base = active[call'.message.profile]
                     PROVE  Len(rows[call'.message.profile]) < MaxRev[call'.message.profile]
        <5>1. call'.message.do = "save" =>
                1 \in DOMAIN call'.todo /\ call'.todo[1].do = "save"
          BY <3>2, EmptySeq, LenProperties DEF Fit
        <5> QED
          BY <1>1, <5>1 DEF RoomKept
      <4>2. call'.todo[1].do \in {"ensure", "put", "contract", "save"}
        BY <3>2, <4>1, SaveAhead
      <4>3. page' = s
        BY <3>2, <4>2 DEF Fresh
      <4>4. PICK i \in DOMAIN rest : call'.todo[j] = rest[i]
        BY <3>1 DEF Sent
      <4>5. i + 1 \in DOMAIN call.todo /\ call.todo[i+1] = rest[i] /\ 1 \in 1..((i+1)-1)
        <5>1. /\ call.todo \in Seq(Statements) /\ call.todo # <<>>
              /\ DOMAIN call.todo = 1..Len(call.todo) /\ Len(call.todo) \in Nat \ {0}
          BY <1>1, <1>2, CallIs DEF TypeOK
        <5>2. /\ Len(rest) = Len(call.todo) - 1
              /\ \A k \in 1..Len(rest) : rest[k] = call.todo[k+1]
          BY <5>1, HeadTailProperties DEF rest
        <5>3. i \in 1..Len(rest)
          BY <2>6, LenProperties
        <5> QED
          BY <5>1, <5>2, <5>3
      <4>6. call.todo[1].do \in {"ensure", "put", "contract"}
        BY <1>1, <1>2, <2>4, <4>1, <4>4, <4>5 DEF CallFits, Fit, FitSave
      <4>7. Base(page') = Base(page) /\ page'.profile = page.profile
        BY <2>2, <2>3, <4>3, <4>6
      <4>8. \E k \in DOMAIN call.todo : call.todo[k].do = "save"
        BY <4>1, <4>4, <4>5
      <4> QED
        BY <1>1, <1>2, <2>4, <3>2, <4>1, <4>7, <4>8 DEF RoomKept
    <3>14. ShowsDraft'
      BY <1>1, <1>3, <2>2, <3>2, <3>3 DEF ShowsDraft
    <3> QED
      BY <1>4, <3>4, <3>5, <3>6, <3>7, <3>8, <3>9, <3>10, <3>11, <3>12, <3>13, <3>14 DEF EInv
  <2> QED
    BY <2>7, <2>8
<1> QED
  BY <1>6, <1>7

(* ---------------------------------------------------------------------- *)
(* The user in front of the page *)

(* Between calls, the user fills in forms.                                 *)
LEMMA EntersInv ==
  ASSUME EInv, call = None, UNCHANGED <<rows, active, served, call, faults>>,
         page' \in Page, page'.user = page.user, page'.profile = page.profile,
         page'.view = page.view, page'.draft = page.draft, page'.changed = page.changed,
         Base(page') = Base(page), FormsFit(page')
  PROVE  EInv'
<1>1. /\ TypeOK /\ ActiveValid /\ DraftsHangTogether /\ WorkHasBase(page) /\ SeenExists
      /\ IdleSession /\ PageSession /\ ShowsDraft
  BY DEF EInv
<1>2. TypeOK' /\ ActiveValid' /\ DraftsHangTogether'
  BY <1>1 DEF TypeOK, ActiveValid, DraftsHangTogether
<1>3. WorkHasBase(page)'
  BY <1>1 DEF WorkHasBase, FormsFit
<1>4. IdleSession' /\ PageSession'
  BY <1>1 DEF IdleSession, PageSession, MatchesPage, Matches
<1>5. /\ SeenExists' /\ CallSession' /\ CurrentSession' /\ CallFits' /\ RequestFits'
      /\ RoomKept' /\ ShowsDraft'
  BY <1>1 DEF SeenExists, CallSession, CurrentSession, CallFits, RequestFits, RoomKept, ShowsDraft
<1> QED
  BY <1>2, <1>3, <1>4, <1>5 DEF EInv

LEMMA OpenFormIs ==
  ASSUME EInv, NEW i \in Items, NEW v \in Contents[i], OpenForm(i, v)
  PROVE  /\ EInv' /\ Base(page') = Base(page)
<1>1. /\ TypeOK /\ WorkHasBase(page)
  BY DEF EInv
<1> DEFINE k == KindOf[i]
           form == [item |-> i, content |-> v,
                    original |-> IF i \notin DOMAIN Shown(page) THEN None ELSE v]
           base == IF page.editBase # None THEN page.editBase ELSE Base(page)
<1>2. /\ call = None /\ UNCHANGED <<rows, active, served, call, faults>>
      /\ page' = [page EXCEPT !.editBase = base, !.forms[k] = form]
  BY DEF OpenForm, Frozen
<1>3. page \in Page /\ page.forms \in [Kinds -> Form \cup {None}] /\ k \in Kinds
  BY <1>1, EditorConstants DEF TypeOK, Page
<1>4. form \in Form /\ form.item = i /\ form.content = v
  BY DEF Form, Entered
<1>5. base \in AllRevs /\ base # None /\ (page.editBase # None => base = page.editBase)
      /\ (page.editBase = None => base = Base(page))
  BY <1>3, BaseIs, NoneIsNothing DEF Page
<1>6. KindOf[i] = k
  OBVIOUS
<1> HIDE DEF k, form, base
<1>7. /\ page' \in Page /\ page'.user = page.user /\ page'.profile = page.profile
      /\ page'.view = page.view /\ page'.draft = page.draft /\ page'.changed = page.changed
      /\ page'.editBase = base /\ page'.forms = [page.forms EXCEPT ![k] = form]
  BY <1>2, <1>3, <1>4, <1>5 DEF Page
<1>8. Base(page') = Base(page)
  BY <1>5, <1>7 DEF Base
<1>9. FormsFit(page')
  <2> SUFFICES ASSUME NEW l \in Kinds, page'.forms[l] # None
               PROVE  /\ KindOf[page'.forms[l].item] = l
                      /\ page'.forms[l].content \in Contents[page'.forms[l].item]
                      /\ page'.editBase # None
    BY DEF FormsFit
  <2>1. CASE l = k
    BY <1>3, <1>4, <1>5, <1>6, <1>7, <2>1
  <2>2. CASE l # k
    BY <1>1, <1>3, <1>5, <1>7, <2>2 DEF WorkHasBase, FormsFit
  <2> QED
    BY <2>1, <2>2
<1> QED
  BY <1>2, <1>7, <1>8, <1>9, EntersInv

LEMMA TypeIs ==
  ASSUME EInv, NEW k \in Kinds, NEW i \in Items, NEW v \in Contents[i], Type(k, v)
  PROVE  /\ EInv' /\ Base(page') = Base(page) /\ call = None
<1>1. /\ TypeOK /\ WorkHasBase(page)
  BY DEF EInv
<1> DEFINE form == [page.forms[k] EXCEPT !.content = v]
<1>2. /\ call = None /\ UNCHANGED <<rows, active, served, call, faults>>
      /\ page' = [page EXCEPT !.forms[k].content = v]
      /\ page.forms[k] # None /\ v \in Contents[page.forms[k].item]
  BY DEF Type, Frozen
<1>3. page \in Page /\ page.forms \in [Kinds -> Form \cup {None}]
  BY <1>1 DEF TypeOK, Page
<1>4. form \in Form /\ form.item = page.forms[k].item /\ form.content = v
  BY <1>2, <1>3 DEF Form, Entered
<1>5. page' = [page EXCEPT !.forms = [page.forms EXCEPT ![k] = form]]
  BY <1>2, <1>3 DEF Page
<1> HIDE DEF form
<1>6. /\ page' \in Page /\ page'.user = page.user /\ page'.profile = page.profile
      /\ page'.view = page.view /\ page'.draft = page.draft /\ page'.changed = page.changed
      /\ page'.editBase = page.editBase /\ page'.forms = [page.forms EXCEPT ![k] = form]
  BY <1>3, <1>4, <1>5 DEF Page
<1>7. Base(page') = Base(page)
  BY <1>6 DEF Base
<1>8. FormsFit(page')
  <2> SUFFICES ASSUME NEW l \in Kinds, page'.forms[l] # None
               PROVE  /\ KindOf[page'.forms[l].item] = l
                      /\ page'.forms[l].content \in Contents[page'.forms[l].item]
                      /\ page'.editBase # None
    BY DEF FormsFit
  <2>1. CASE l = k
    BY <1>1, <1>2, <1>3, <1>4, <1>6, <2>1 DEF WorkHasBase, FormsFit
  <2>2. CASE l # k
    BY <1>1, <1>3, <1>6, <2>2 DEF WorkHasBase, FormsFit
  <2> QED
    BY <2>1, <2>2
<1> QED
  BY <1>2, <1>6, <1>7, <1>8, EntersInv

LEMMA PasteIs ==
  ASSUME EInv, NEW document \in Documents, Paste(document)
  PROVE  EInv' /\ ~Dirty(page)
<1>1. /\ TypeOK /\ ActiveValid /\ DraftsHangTogether /\ WorkHasBase(page) /\ SeenExists
      /\ IdleSession /\ PageSession /\ CallSession /\ CurrentSession /\ CallFits /\ RequestFits
      /\ RoomKept /\ ShowsDraft
  BY DEF EInv
<1>2. /\ page' = [page EXCEPT !.document = document]
      /\ UNCHANGED <<rows, active, served, call, faults>> /\ ~Dirty(page)
  BY DEF Paste
<1>3. page \in Page
  BY <1>1 DEF TypeOK
<1>4. /\ page' \in Page /\ page'.user = page.user /\ page'.profile = page.profile
      /\ page'.view = page.view /\ page'.draft = page.draft /\ page'.changed = page.changed
      /\ page'.editBase = page.editBase /\ page'.forms = page.forms
  BY <1>2, <1>3 DEF Page
<1>5. Base(page') = Base(page)
  BY <1>4 DEF Base
<1>6. TypeOK' /\ ActiveValid' /\ DraftsHangTogether'
  BY <1>1, <1>2, <1>4 DEF TypeOK, ActiveValid, DraftsHangTogether
<1>7. WorkHasBase(page)'
  BY <1>1, <1>4 DEF WorkHasBase, FormsFit
<1>8. IdleSession' /\ PageSession'
  BY <1>1, <1>2, <1>4, <1>5 DEF IdleSession, PageSession, MatchesPage, Matches
<1>9. SeenExists' /\ RequestFits'
  BY <1>1, <1>2, <1>4 DEF SeenExists, RequestFits
<1>10. CallSession' /\ CurrentSession'
  BY <1>1, <1>2, <1>4, <1>5 DEF CallSession, MatchesCall, CurrentSession
<1>11. CallFits'
  <2> SUFFICES ASSUME call # None, call.current
               PROVE  Fit(page', call.todo) /\ ~Skipped(page', call.todo[1])
    BY <1>2 DEF CallFits
  <2>1. Fit(page, call.todo) /\ ~Skipped(page, call.todo[1])
    BY <1>1 DEF CallFits
  <2>2. \A k : FormDirty(page', k) <=> FormDirty(page, k)
    BY <1>4 DEF FormDirty
  <2>3. Dirty(page') <=> Dirty(page)
    BY <1>4, <2>2 DEF Dirty
  <2>4. Skipped(page', call.todo[1]) <=> Skipped(page, call.todo[1])
    BY <1>4, <2>2 DEF Skipped, MissingContract
  <2>5. Fit(page', call.todo)
    BY <1>4, <2>1, <2>2, <2>3 DEF Fit, FitSave, FitReplace, FitDrop, Replaces
  <2> QED
    BY <2>1, <2>4, <2>5
<1>12. RoomKept' /\ ShowsDraft'
  BY <1>1, <1>2, <1>4 DEF RoomKept, ShowsDraft
<1> QED
  BY <1>2, <1>6, <1>7, <1>8, <1>9, <1>10, <1>11, <1>12 DEF EInv

(* The page passes to another user.                                        *)
LEMMA ChangeUserInv ==
  ASSUME EInv, NEW user \in Users \cup {None}, ChangeUser(user)
  PROVE  EInv'
<1>1. /\ TypeOK /\ ActiveValid /\ DraftsHangTogether /\ WorkHasBase(page) /\ SeenExists
      /\ IdleSession /\ PageSession /\ CallSession /\ CurrentSession /\ CallFits /\ RequestFits
      /\ RoomKept /\ ShowsDraft
  BY DEF EInv
<1>2. /\ page.user # user /\ rows' = rows /\ active' = active /\ faults' = faults
      /\ served' = IF call = None THEN Named ELSE served
  BY DEF ChangeUser
<1>3. page \in Page
  BY <1>1 DEF TypeOK
<1>4. call # None => call \in Call /\ 1 \in DOMAIN call.todo
  BY <1>1, CallIs
<1>5. /\ page' \in Page /\ page'.profile = page.profile /\ page'.draft = None
      /\ page'.view # None => page'.view = page.view
      /\ WorkHasBase(page')
  <2>1. CASE page.user = None
    <3>1. page' = [page EXCEPT !.user = user] /\ page.draft = None
      BY <1>1, <2>1 DEF ChangeUser, PageSession
    <3>2. /\ page' \in Page /\ page'.profile = page.profile /\ page'.draft = None
          /\ page'.view = page.view /\ page'.forms = page.forms /\ page'.changed = page.changed
          /\ page'.editBase = page.editBase
      BY <1>3, <3>1 DEF Page
    <3> QED
      BY <1>1, <3>1, <3>2 DEF WorkHasBase, FormsFit
  <2>2. CASE page.user # None
    <3>1. page' = Blank(user, page.profile)
      BY <2>2 DEF ChangeUser
    <3>2. page' \in Page /\ page'.profile = page.profile /\ page'.draft = None
          /\ page'.view = None /\ page'.changed = FALSE /\ page'.forms = [k \in Kinds |-> None]
      BY <1>3, <3>1 DEF Blank, Page
    <3> QED
      BY <3>2 DEF WorkHasBase, FormsFit
  <2> QED
    BY <2>1, <2>2
<1>6. call = None => call' = None /\ served' = None
  BY <1>2, <1>5 DEF ChangeUser, Named
<1>7. call # None =>
        /\ call' \in Call /\ call' # None /\ call'.todo = call.todo /\ call'.current = FALSE
        /\ call'.at = call.at /\ call'.message = call.message /\ call'.answer = call.answer
        /\ served' = served
  <2> SUFFICES ASSUME call # None
               PROVE  /\ call' \in Call /\ call' # None /\ call'.todo = call.todo
                      /\ call'.current = FALSE /\ call'.at = call.at
                      /\ call'.message = call.message /\ call'.answer = call.answer
    BY <1>2
  <2>1. CASE page.user = None
    <3>1. call' = call
      BY <2>1 DEF ChangeUser
    <3>2. call.current = FALSE
      BY <1>1, <1>4, <2>1 DEF CurrentSession, Call
    <3> QED
      BY <1>4, <3>1, <3>2
  <2>2. CASE page.user # None
    <3>1. call' = [call EXCEPT !.current = FALSE]
      BY <2>2 DEF ChangeUser
    <3> QED
      BY <1>4, <3>1, NoneIsNothing DEF Call
  <2> QED
    BY <2>1, <2>2
<1>8. TypeOK'
  BY <1>1, <1>2, <1>5, <1>6, <1>7 DEF TypeOK
<1>9. ActiveValid' /\ DraftsHangTogether'
  BY <1>1, <1>2, <1>6, <1>7 DEF ActiveValid, DraftsHangTogether
<1>10. WorkHasBase(page)'
  BY <1>5 DEF WorkHasBase, FormsFit
<1>11. SeenExists'
  BY <1>1, <1>2, <1>5, <1>6, <1>7 DEF SeenExists
<1>12. IdleSession' /\ PageSession'
  BY <1>5, <1>6, <1>7 DEF IdleSession, PageSession
<1>13. CallSession'
  BY <1>1, <1>6, <1>7 DEF CallSession, MatchesCall
<1>14. CurrentSession' /\ CallFits'
  BY <1>5, <1>6, <1>7 DEF CurrentSession, CallFits
<1>15. RequestFits'
  BY <1>1, <1>2, <1>6, <1>7 DEF RequestFits
<1>16. RoomKept' /\ ShowsDraft'
  BY <1>1, <1>2, <1>5, <1>6, <1>7 DEF RoomKept, ShowsDraft
<1> QED
  BY <1>8, <1>9, <1>10, <1>11, <1>12, <1>13, <1>14, <1>15, <1>16 DEF EInv

(* Every call of the page begins with a script that it may begin with.     *)
Begins ==
  \/ Refresh
  \/ \E k \in Kinds : Apply(k)
  \/ Validate \/ Save
  \/ \E i \in Items : RemoveItem(i)
  \/ \E i \in Items : \E v \in Contents[i] : Toggle(i, v)
  \/ Discard
  \/ \E p \in Profiles : SwitchProfile(p)
  \/ Import
  \/ \E rev \in AllRevs : Rollback(rev)

LEMMA BeginsStartable ==
  ASSUME EInv, Begins
  PROVE  \E script : Begin(script) /\ Startable(script)
<1>1. page \in Page /\ SeenExists
  BY DEF EInv, TypeOK
<1>2. CASE Refresh
  BY <1>1, <1>2, RefreshStarts DEF Refresh
<1>3. ASSUME NEW k \in Kinds, Apply(k) PROVE \E script : Begin(script) /\ Startable(script)
  BY <1>3, ApplyStarts DEF Apply
<1>4. CASE Validate
  BY <1>4, ValidateStarts DEF Validate
<1>5. CASE Save
  BY <1>1, <1>5, SaveStarts DEF Save
<1>6. ASSUME NEW i \in Items, RemoveItem(i) PROVE \E script : Begin(script) /\ Startable(script)
  BY <1>6, RemoveStarts DEF RemoveItem
<1>7. ASSUME NEW i \in Items, NEW v \in Contents[i], Toggle(i, v)
      PROVE  \E script : Begin(script) /\ Startable(script)
  BY <1>7, ToggleStarts DEF Toggle
<1>8. CASE Discard
  <2>1. Statement("clearAndRead") \in Statements /\ Statement("clearAndRead").do = "clearAndRead"
    BY StatementsAre
  <2>2. Startable(<<Statement("drop"), Statement("clearAndRead")>>)
    BY <1>1, <2>1, DropStarts
  <2> QED
    BY <1>8, <2>2 DEF Discard
<1>9. ASSUME NEW p \in Profiles, SwitchProfile(p)
      PROVE  \E script : Begin(script) /\ Startable(script)
  <2>1. Read(p) \in Statements /\ Read(p).do = "read"
    BY StatementsAre
  <2>2. Startable(<<Statement("drop"), Read(p)>>)
    BY <1>1, <1>9, <2>1, DropStarts DEF SwitchProfile
  <2> QED
    BY <1>9, <2>2 DEF SwitchProfile
<1>10. CASE Import
  <2>1. page.document \in Documents
    BY <1>1, <1>10 DEF Import, Page
  <2>2. /\ On("import", None, page.document) \in Statements
        /\ On("import", None, page.document).do = "import"
    BY <2>1, StatementsAre
  <2>3. Startable(<<Statement("drop"), On("import", None, page.document)>>)
    BY <1>1, <1>10, <2>2, DropStarts DEF Import
  <2> QED
    BY <1>10, <2>3 DEF Import
<1>11. ASSUME NEW rev \in AllRevs, Rollback(rev)
       PROVE  \E script : Begin(script) /\ Startable(script)
  <2>1. /\ page.view # None /\ rev \in 1..page.view.last /\ ~Dirty(page)
    BY <1>11 DEF Rollback
  <2>2. page.view.last <= Len(rows[page.profile]) /\ page.view.last \in Nat
    BY <1>1, <2>1, RevsAre DEF SeenExists, Page, View
  <2>3. Len(rows[page.profile]) \in Nat
    BY <1>1, LenProperties DEF EInv, TypeOK, Page
  <2>4. rev \in 1..Len(rows[page.profile])
    BY <2>1, <2>2, <2>3
  <2>5. Startable(<<On("rollback", None, rev), Read(page.profile)>>)
    BY <1>1, <2>1, <2>4, RollbackStarts
  <2> QED
    BY <1>11, <2>5 DEF Rollback
<1> QED
  BY <1>2, <1>3, <1>4, <1>5, <1>6, <1>7, <1>8, <1>9, <1>10, <1>11 DEF Begins

(* ---------------------------------------------------------------------- *)
(* The others, and what goes wrong *)

LEMMA OtherSavesInv ==
  ASSUME EInv, NEW p \in Profiles, NEW document \in Documents, OtherSaves(p, document)
  PROVE  EInv'
<1> DEFINE n == Len(rows[p])
           more == Append(rows[p], document.payload)
<1>1. /\ TypeOK /\ ActiveValid /\ DraftsHangTogether /\ WorkHasBase(page) /\ SeenExists
      /\ IdleSession /\ PageSession /\ CallSession /\ CurrentSession /\ CallFits /\ RequestFits
      /\ RoomKept /\ ShowsDraft
  BY DEF EInv
<1>2. /\ n + (IF call # None THEN 1 ELSE 0) < MaxRev[p]
      /\ Valid(document.payload)
      /\ rows' = [rows EXCEPT ![p] = more] /\ active' = [active EXCEPT ![p] = n + 1]
      /\ UNCHANGED <<served, page, call, faults>>
  BY DEF OtherSaves
<1>3. /\ rows \in [Profiles -> Seq(Payloads)] /\ active \in [Profiles -> AllRevs]
      /\ \A q \in Profiles : active[q] <= Len(rows[q]) /\ Len(rows[q]) <= MaxRev[q]
      /\ \A q \in Profiles : Len(rows[q]) \in Nat /\ MaxRev[q] \in Nat
  BY <1>1, LenProperties, EditorConstants DEF TypeOK
<1>4. document.payload \in Payloads
  BY EditorConstants
<1>5. n \in Nat /\ n < MaxRev[p] /\ (call # None => n + 1 < MaxRev[p]) /\ MaxRev[p] \in Nat
  BY <1>2, <1>3
<1>6. more \in Seq(Payloads) /\ Len(more) = n + 1 /\ more[n + 1] = document.payload
  BY <1>3, <1>4
<1>7. n + 1 \in AllRevs
  <2>1. n + 1 \in 0..MaxRev[p]
    BY <1>5
  <2> QED
    BY <2>1, RevsAre
<1> HIDE DEF n, more
<1>8. /\ rows'[p] = more /\ active'[p] = n + 1
      /\ \A q \in Profiles : q # p => rows'[q] = rows[q] /\ active'[q] = active[q]
  BY <1>2, <1>3
<1>9. /\ rows' \in [Profiles -> Seq(Payloads)] /\ active' \in [Profiles -> AllRevs]
  BY <1>2, <1>3, <1>6, <1>7
<1>10. ASSUME NEW q \in Profiles
       PROVE  /\ active'[q] <= Len(rows'[q]) /\ Len(rows'[q]) <= MaxRev[q]
              /\ Len(rows[q]) <= Len(rows'[q]) /\ Len(rows'[q]) \in Nat
              /\ active'[q] # 0 => Valid(rows'[q][active'[q]])
  <2>1. CASE q = p
    BY <1>2, <1>5, <1>6, <1>8, <2>1 DEF n
  <2>2. CASE q # p
    BY <1>1, <1>3, <1>8, <2>2 DEF ActiveValid
  <2> QED
    BY <2>1, <2>2
<1>11. TypeOK' /\ ActiveValid' /\ DraftsHangTogether'
  <2>1. TypeOK'
    BY <1>1, <1>2, <1>9, <1>10 DEF TypeOK
  <2>2. ActiveValid' /\ DraftsHangTogether'
    BY <1>1, <1>2, <1>10 DEF ActiveValid, DraftsHangTogether
  <2> QED
    BY <2>1, <2>2
<1>12. page \in Page /\ page.profile \in Profiles
  BY <1>1 DEF TypeOK, Page
<1>13. call # None => /\ call \in Call /\ call.message \in Commands
                      /\ call.message.profile \in Profiles
  BY <1>1, CallIs, CommandIs
<1>14. SeenExists'
  <2>1. page.view # None => page.view.last <= Len(rows'[page.profile])
    <3>1. page.view # None => page.view.last \in Nat
      BY <1>12, RevsAre DEF Page, View
    <3> QED
      BY <1>1, <1>3, <1>10, <1>12, <3>1 DEF SeenExists
  <2>2. ASSUME call # None, call.answer # None, call.answer.view # None
        PROVE  call.answer.view.last <= Len(rows'[call.message.profile])
    <3>1. call.answer.view.last \in Nat
      BY <1>13, <2>2, RevsAre DEF Call, Answer, View
    <3> QED
      BY <1>1, <1>3, <1>10, <1>13, <2>2, <3>1 DEF SeenExists
  <2> QED
    BY <1>2, <2>1, <2>2 DEF SeenExists
<1>15. WorkHasBase(page)' /\ IdleSession' /\ PageSession'
  <2>1. WorkHasBase(page)'
    BY <1>1, <1>2 DEF WorkHasBase, FormsFit
  <2>2. IdleSession' /\ PageSession'
    BY <1>1, <1>2 DEF IdleSession, PageSession, MatchesPage, Matches, Base
  <2> QED
    BY <2>1, <2>2
<1>16. CallSession' /\ CurrentSession' /\ CallFits'
  <2>1. CallSession'
    BY <1>1, <1>2 DEF CallSession, MatchesCall
  <2>2. CurrentSession'
    BY <1>1, <1>2 DEF CurrentSession, Base
  <2>3. CallFits'
    BY <1>1, <1>2 DEF CallFits
  <2> QED
    BY <2>1, <2>2, <2>3
<1>17. RequestFits'
  <2>1. ASSUME call # None, call.message.do = "rollback"
        PROVE  call.message.with \in 1..Len(rows'[call.message.profile])
    <3>1. call.message.with \in 1..Len(rows[call.message.profile])
      BY <1>1, <2>1 DEF RequestFits
    <3> QED
      BY <1>3, <1>10, <1>13, <2>1, <3>1
  <2> QED
    BY <1>1, <1>2, <2>1 DEF RequestFits
<1>18. RoomKept'
  <2>1. SUFFICES ASSUME call # None,
                        \/ call.message.do = "save"
                        \/ call.current /\ \E j \in DOMAIN call.todo : call.todo[j].do = "save",
                        call.message.base = active'[call.message.profile]
                 PROVE  Len(rows'[call.message.profile]) < MaxRev[call.message.profile]
    BY <1>2 DEF RoomKept
  <2>2. CASE call.message.profile = p
    BY <1>5, <1>6, <1>8, <2>1, <2>2
  <2>3. CASE call.message.profile # p
    BY <1>1, <1>8, <1>13, <2>1, <2>3 DEF RoomKept
  <2> QED
    BY <2>2, <2>3
<1>19. ShowsDraft'
  BY <1>1, <1>2 DEF ShowsDraft
<1> QED
  BY <1>11, <1>14, <1>15, <1>16, <1>17, <1>18, <1>19 DEF EInv

LEMMA FaultsInv == ASSUME EInv, LoseRequest \/ LoseAnswer \/ Restart PROVE EInv'
<1>1. /\ faults' \in 0..MaxFaults /\ faults' # 0
  <2>1. faults \in 0..MaxFaults /\ faults < MaxFaults /\ faults' = faults + 1 /\ MaxFaults \in Nat
    BY EditorConstants DEF EInv, TypeOK, LoseRequest, LoseAnswer, Restart, Fault
  <2> QED
    BY <2>1
<1>2. CASE LoseRequest \/ LoseAnswer
  <2>1. /\ call # None /\ call' = Failed /\ page' = page /\ rows' = rows /\ active' = active
        /\ served' = served
    BY <1>2 DEF LoseRequest, LoseAnswer
  <2> QED
    BY <1>1, <2>1, FailInv
<1>3. CASE Restart /\ call # None
  <2>1. /\ call' = Failed /\ page' = page /\ rows' = rows /\ active' = active /\ served' = None
    BY <1>3 DEF Restart
  <2> QED
    BY <1>1, <1>3, <2>1, FailInv
<1>4. CASE Restart /\ call = None
  <2>1. /\ call' = None /\ page' = page /\ rows' = rows /\ active' = active /\ served' = None
    BY <1>4 DEF Restart
  <2>2. /\ TypeOK /\ ActiveValid /\ WorkHasBase(page) /\ SeenExists /\ PageSession
    BY DEF EInv
  <2>3. TypeOK' /\ ActiveValid' /\ DraftsHangTogether' /\ SeenExists'
    BY <1>1, <2>1, <2>2 DEF TypeOK, ActiveValid, DraftsHangTogether, SeenExists
  <2>4. WorkHasBase(page)' /\ PageSession' /\ IdleSession'
    BY <2>1, <2>2 DEF WorkHasBase, FormsFit, PageSession, IdleSession, MatchesPage, Matches, Base
  <2>5. /\ CallSession' /\ CurrentSession' /\ CallFits' /\ RequestFits' /\ RoomKept'
        /\ ShowsDraft'
    BY <1>1, <2>1 DEF CallSession, CurrentSession, CallFits, RequestFits, RoomKept, ShowsDraft
  <2> QED
    BY <2>3, <2>4, <2>5 DEF EInv
<1> QED
  BY <1>2, <1>3, <1>4

(* ---------------------------------------------------------------------- *)
(* The theorems *)

LEMMA EditorInit == Init => EInv
<1> SUFFICES ASSUME Init PROVE EInv
  OBVIOUS
<1>1. /\ rows = Existing /\ active = [p \in Profiles |-> Len(rows[p])]
      /\ served = None /\ call = None /\ faults = 0 /\ page = Blank(None, Default)
  BY DEF Init
<1>2. \A p \in Profiles : /\ Existing[p] \in Seq(Payloads) /\ Len(Existing[p]) \in Nat
                          /\ Len(Existing[p]) \in 0..MaxRev[p] /\ Len(Existing[p]) \in AllRevs
  <2> TAKE p \in Profiles
  <2>1. /\ Existing[p] \in Seq(Payloads) /\ Len(Existing[p]) \in Nat
        /\ Len(Existing[p]) \in 0..MaxRev[p]
    BY EditorConstants, LenProperties
  <2> QED
    BY <2>1, RevsAre
<1>3. /\ page \in Page /\ page.draft = None /\ page.view = None /\ page.changed = FALSE
      /\ page.forms = [k \in Kinds |-> None]
  BY <1>1, EditorConstants DEF Blank, Page
<1>4. TypeOK
  <2>1. rows \in [Profiles -> Seq(Payloads)] /\ active \in [Profiles -> AllRevs]
    BY <1>1, <1>2, EditorConstants
  <2>2. \A p \in Profiles : active[p] <= Len(rows[p]) /\ Len(rows[p]) <= MaxRev[p]
    BY <1>1, <1>2
  <2>3. faults \in 0..MaxFaults
    BY <1>1, EditorConstants
  <2> QED
    BY <1>1, <1>3, <2>1, <2>2, <2>3 DEF TypeOK
<1>5. ActiveValid
  <2> SUFFICES ASSUME NEW p \in Profiles, active[p] # 0 PROVE Valid(rows[p][active[p]])
    BY DEF ActiveValid
  <2>1. Existing[p] # <<>> /\ active[p] = Len(Existing[p]) /\ rows[p] = Existing[p]
    BY <1>1, <1>2
  <2> QED
    BY <2>1, ActiveWasValidated
<1>6. DraftsHangTogether /\ WorkHasBase(page) /\ SeenExists
  BY <1>1, <1>3 DEF DraftsHangTogether, WorkHasBase, FormsFit, SeenExists
<1>7. /\ IdleSession /\ PageSession /\ CallSession /\ CurrentSession /\ CallFits
      /\ RequestFits /\ RoomKept /\ ShowsDraft
  BY <1>1, <1>3 DEF IdleSession, PageSession, CallSession, CurrentSession, CallFits, RequestFits,
                    RoomKept, ShowsDraft
<1> QED
  BY <1>4, <1>5, <1>6, <1>7 DEF EInv

(* ---------------------------------------------------------------------- *)
(* What a step does to unsaved work *)

(* A page that is to be cleared is cleared.                                *)
LEMMA ClearsNow ==
  ASSUME NEW s \in Page, FormsFit(s), s.user # None, NEW script, Fit(s, script),
         script # <<>>, script[1].do = "clearAndRead", Proceed(s, script)
  PROVE  call' # None /\ call'.todo[1].do = "clearAndRead" /\ ~Dirty(page')
<1>1. script \in Seq(Statements) /\ ~Skipped(s, script[1])
  BY DEF Fit, Skipped
<1>2. DOMAIN script = 1..Len(script) /\ 1 \in DOMAIN script /\ Len(script) \in Nat
  BY <1>1, EmptySeq, LenProperties
<1>3. Needed(s, script) # <<>>
  BY <1>1, <1>2, NothingNeeded
<1>4. Sent(s, script)
  BY <1>3, Sends
<1>5. call'.todo[1] = script[1]
  <2>1. PICK i \in DOMAIN script :
          call'.todo[1] = script[i] /\ \A j \in 1..(i-1) : Skipped(s, script[j])
    BY <1>4 DEF Sent
  <2>2. i = 1
    BY <1>1, <1>2, <2>1
  <2> QED
    BY <2>1, <2>2
<1>6. page' = [Blank(s.user, s.profile) EXCEPT !.view = s.view]
  <2>1. call'.todo = Needed(s, script) /\ page' = Prepared(s, Needed(s, script)[1])
    BY <1>3 DEF Proceed
  <2> QED
    BY <1>5, <2>1 DEF Prepared
<1>7. page'.changed = FALSE /\ page'.forms = [k \in Kinds |-> None]
  BY <1>6 DEF Blank
<1> QED
  BY <1>4, <1>5, <1>7 DEF Sent, Dirty, FormDirty

(* What happens to a page with unsaved work: it keeps work and base, or it *)
(* loses the work on purpose.                                              *)
Keeps == Dirty(page') /\ Base(page') = Base(page)

Clears == call' # None /\ call'.todo[1].do = "clearAndRead" /\ ~Dirty(page')

Saves ==
  Acknowledged("save") /\ ~Dirty(page') /\ \A k \in Kinds : ~FormDirty(page, k)

(* A page with unsaved work that goes on with its call keeps it, or the    *)
(* call clears it.                                                         *)
LEMMA SentKeeps ==
  ASSUME NEW s, NEW script, Sent(s, script), Dirty(s), FitReplace(s, script)
  PROVE  page' = s \/ Clears
<1>1. SUFFICES ASSUME Fresh(s, call'.todo[1], page'), call'.todo[1].do # "clearAndRead"
               PROVE  FALSE
  BY DEF Sent, Clears, Fresh
<1>2. call'.todo[1].do = "read" /\ call'.todo[1].with # s.profile
  BY <1>1 DEF Fresh
<1>3. PICK i \in DOMAIN script : call'.todo[1] = script[i]
  BY DEF Sent
<1> QED
  BY <1>2, <1>3 DEF FitReplace, Replaces

LEMMA BeginKeeps ==
  ASSUME EInv, NEW script, Begin(script), Startable(script), Dirty(page)
  PROVE  Keeps \/ Clears
<1>1. page \in Page /\ FormsFit(page) /\ Fit(page, script)
  BY DEF EInv, TypeOK, WorkHasBase, Startable
<1>2. Sent(page, script)
  BY <1>1, Sends DEF Begin
<1>3. page' = page \/ Clears
  BY <1>1, <1>2, SentKeeps DEF Fit
<1>4. page' = page => Keeps
  BY DEF Keeps
<1> QED
  BY <1>3, <1>4

LEMMA ReceiveKeeps ==
  ASSUME EInv, Receive, Dirty(page)
  PROVE  Keeps \/ Clears \/ Saves
<1> DEFINE s == After(page, call.todo[1], call.answer)
           st == call.todo[1]
           rest == Tail(call.todo)
<1>1. /\ TypeOK /\ WorkHasBase(page) /\ PageSession /\ CurrentSession /\ CallFits
  BY DEF EInv
<1>2. CASE ~Usable
  <2>1. page' = page
    BY <1>2 DEF Receive
  <2> QED
    BY <2>1 DEF Keeps
<1>3. CASE Usable
  <2>1. /\ call # None /\ call.at = "answer" /\ call.answer.ok /\ call.current
        /\ Proceed(s, rest)
    BY <1>3 DEF Receive, Usable
  <2>2. Answered(s) /\ Taken(page, st, call.answer, s)
    BY <1>3, <2>1, AnsweredIs
  <2>3. /\ call.todo \in Seq(Statements) /\ st \in Statements
        /\ DOMAIN call.todo = 1..Len(call.todo) /\ Len(call.todo) \in Nat \ {0}
        /\ 1 \in DOMAIN call.todo
    BY <1>1, <2>1, CallIs DEF TypeOK
  <2>4. Fit(page, call.todo) /\ page.user # None /\ page \in Page
    BY <1>1, <2>1 DEF CallFits, CurrentSession, TypeOK
  <2> HIDE DEF s
  <2>5. /\ s \in Page /\ s.user = page.user /\ s.profile = page.profile
        /\ FormsFit(s) /\ Fit(s, rest) /\ (s.draft # None => MatchesPage(s.draft))
        /\ st.do \in {"ensure", "put", "contract", "set", "delete", "import"} => s.draft # None
    BY <2>2 DEF Answered
  <2>6. s.draft # None => Base(s) = Base(page)
    BY <2>5 DEF Base, MatchesPage, Matches
  <2>7. st.do \notin {"import", "rollback"}
    BY <2>3, <2>4 DEF Fit, FitReplace, Replaces
  <2>8. CASE st.do = "drop"
    <3>1. Len(call.todo) >= 2 /\ call.todo[2].do = "clearAndRead"
      BY <2>3, <2>4, <2>8 DEF Fit, FitDrop
    <3>2. rest # <<>> /\ rest[1].do = "clearAndRead"
      <4>1. /\ rest \in Seq(Statements) /\ Len(rest) = Len(call.todo) - 1
            /\ \A i \in 1..Len(rest) : rest[i] = call.todo[i+1]
        BY <2>3, EmptySeq, HeadTailProperties
      <4> HIDE DEF rest
      <4>2. 1 \in 1..Len(rest)
        BY <2>3, <3>1, <4>1
      <4> QED
        BY <3>1, <4>1, <4>2
    <3> HIDE DEF rest
    <3> QED
      BY <2>1, <2>4, <2>5, <3>2, ClearsNow DEF Clears
  <2>9. CASE st.do = "save"
    <3>1. \A k \in Kinds : ~FormDirty(page, k)
      BY <2>3, <2>4, <2>9 DEF Fit, FitSave
    <3>2. ~Dirty(s)
      BY <2>2, <2>9 DEF Taken, Dirty, FormDirty
    <3>3. ~Dirty(page')
      <4>1. CASE Needed(s, rest) = <<>>
        BY <2>1, <3>2, <4>1 DEF Proceed
      <4>2. CASE Needed(s, rest) # <<>>
        <5>1. Sent(s, rest)
          BY <2>1, <2>4, <2>5, <4>2, Sends
        <5> QED
          BY <3>2, <5>1 DEF Sent, Fresh
      <4> QED
        BY <4>1, <4>2
    <3> QED
      BY <2>1, <2>9, <3>1, <3>3 DEF Saves, Acknowledged
  <2>10. CASE st.do \in {"ensure", "put", "contract", "set", "delete", "validate", "read",
                         "clearAndRead"}
    <3>1. Dirty(s) /\ Base(s) = Base(page)
      <4>1. CASE st.do \in {"put", "contract", "set", "delete"}
        BY <2>2, <2>5, <2>6, <4>1 DEF Taken, Dirty
      <4>2. CASE st.do = "ensure"
        <5>1. s.forms = page.forms /\ s.changed = page.changed
          BY <2>2, <2>4, <4>2 DEF Taken, Page
        <5>2. Dirty(s)
          BY <5>1 DEF Dirty, FormDirty
        <5> QED
          BY <2>5, <2>6, <4>2, <5>2
      <4>3. CASE st.do = "validate"
        BY <2>2, <4>3 DEF Taken
      <4>4. CASE st.do \in {"read", "clearAndRead"}
        <5>1. /\ s.forms = page.forms /\ s.changed = page.changed
              /\ s.draft = page.draft /\ s.editBase = page.editBase
          BY <2>2, <2>4, <4>4 DEF Taken, Page
        <5>2. Dirty(s)
          BY <5>1 DEF Dirty, FormDirty
        <5>3. page.draft # None \/ page.editBase # None
          BY <1>1 DEF WorkHasBase, FormsFit, Dirty, FormDirty
        <5> QED
          BY <5>1, <5>2, <5>3 DEF Base
      <4> QED
        BY <2>10, <4>1, <4>2, <4>3, <4>4
    <3>2. page' = s \/ Clears
      <4>1. CASE Needed(s, rest) = <<>>
        BY <2>1, <4>1 DEF Proceed
      <4>2. CASE Needed(s, rest) # <<>>
        <5>1. Sent(s, rest)
          BY <2>1, <2>4, <2>5, <4>2, Sends
        <5> QED
          BY <2>5, <3>1, <5>1, SentKeeps DEF Fit
      <4> QED
        BY <4>1, <4>2
    <3> QED
      BY <3>1, <3>2 DEF Keeps
  <2>11. st.do \in Verbs
    BY <2>3, StatementIs
  <2> QED
    BY <2>7, <2>8, <2>9, <2>10, <2>11 DEF Verbs
<1> QED
  BY <1>2, <1>3

(* The steps of a page, of the service and of the others.                  *)
Enters ==
  \/ \E i \in Items : \E v \in Contents[i] : OpenForm(i, v)
  \/ \E k \in Kinds, i \in Items : \E v \in Contents[i] : Type(k, v)
  \/ \E document \in Documents : Paste(document)

Others ==
  \/ \E user \in Users \cup {None} : ChangeUser(user)
  \/ \E p \in Profiles, document \in Documents : OtherSaves(p, document)
  \/ LoseRequest \/ LoseAnswer \/ Restart

LEMMA NextIs == Next => Serve \/ Receive \/ Begins \/ Enters \/ Others
  BY Zenon DEF Next, Begins, Enters, Others

LEMMA EditorStep == EInv /\ [Next]_vars => EInv'
<1> SUFFICES ASSUME EInv, [Next]_vars PROVE EInv'
  OBVIOUS
<1>1. CASE UNCHANGED vars
  <2> USE <1>1 DEF vars
  <2>1. TypeOK' /\ ActiveValid' /\ DraftsHangTogether'
    BY DEF EInv, TypeOK, ActiveValid, DraftsHangTogether
  <2>2. IdleSession' /\ PageSession' /\ CallSession' /\ CurrentSession' /\ ShowsDraft'
    BY DEF EInv, IdleSession, PageSession, CallSession, CurrentSession, ShowsDraft,
           MatchesPage, MatchesCall, Matches, Base
  <2>3. WorkHasBase(page)' /\ SeenExists' /\ RequestFits' /\ RoomKept'
    BY DEF EInv, WorkHasBase, FormsFit, SeenExists, RequestFits, RoomKept
  <2>4. CallFits'
    BY DEF EInv, CallFits
  <2> QED
    BY <2>1, <2>2, <2>3, <2>4 DEF EInv
<1>2. CASE Serve
  BY <1>2, ServeInv
<1>3. CASE Receive
  BY <1>3, ReceiveInv
<1>4. CASE Begins
  BY <1>4, BeginsStartable, BeginInv
<1>5. CASE \E i \in Items : \E v \in Contents[i] : OpenForm(i, v)
  BY <1>5, OpenFormIs
<1>6. CASE \E k \in Kinds, i \in Items : \E v \in Contents[i] : Type(k, v)
  BY <1>6, TypeIs
<1>7. CASE \E document \in Documents : Paste(document)
  BY <1>7, PasteIs
<1>8. CASE \E user \in Users \cup {None} : ChangeUser(user)
  BY <1>8, ChangeUserInv
<1>9. CASE \E p \in Profiles, document \in Documents : OtherSaves(p, document)
  BY <1>9, OtherSavesInv
<1>10. CASE LoseRequest \/ LoseAnswer \/ Restart
  BY <1>10, FaultsInv
<1>11. Enters => EInv'
  BY <1>5, <1>6, <1>7, Zenon DEF Enters
<1>12. Others => EInv'
  BY <1>8, <1>9, <1>10, Zenon DEF Others
<1> QED
  BY <1>1, <1>2, <1>3, <1>4, <1>11, <1>12, NextIs

(* ---------------------------------------------------------------------- *)
(* What unsaved work is based on, and how it ends *)

LEMMA WorkStep ==
  ASSUME EInv, [Next]_vars, Dirty(page)
  PROVE  /\ Dirty(page') => Base(page') = Base(page)
         /\ ~Dirty(page') =>
              \/ page'.user # page.user
              \/ call = None /\ call' = None
              \/ call' # None /\ call'.todo[1].do = "clearAndRead"
              \/ Acknowledged("save") /\ \A k \in Kinds : ~FormDirty(page, k)
<1>1. CASE page' = page
  BY <1>1
<1>2. CASE Receive
  BY <1>2, ReceiveKeeps DEF Keeps, Clears, Saves
<1>3. CASE Begins
  <2>1. PICK script : Begin(script) /\ Startable(script)
    BY <1>3, BeginsStartable
  <2> QED
    BY <2>1, BeginKeeps DEF Keeps, Clears
<1>4. ASSUME NEW i \in Items, NEW v \in Contents[i], OpenForm(i, v)
      PROVE  Base(page') = Base(page) /\ call = None /\ call' = None
  BY <1>4, OpenFormIs DEF OpenForm, Frozen
<1>5. ASSUME NEW k \in Kinds, NEW i \in Items, NEW v \in Contents[i], Type(k, v)
      PROVE  Base(page') = Base(page) /\ call = None /\ call' = None
  BY <1>5, TypeIs DEF Type
<1>6. ASSUME NEW document \in Documents, Paste(document) PROVE FALSE
  BY <1>6, PasteIs
<1>7. ASSUME NEW user \in Users \cup {None}, ChangeUser(user)
      PROVE  page'.user # page.user /\ (Dirty(page') => Base(page') = Base(page))
  <2>1. page \in Page /\ page.user # user
    BY <1>7 DEF EInv, TypeOK, ChangeUser
  <2>2. CASE page.user = None
    <3>1. page' = [page EXCEPT !.user = user]
      BY <1>7, <2>2 DEF ChangeUser
    <3>2. /\ page'.user = user /\ page'.draft = page.draft /\ page'.view = page.view
          /\ page'.editBase = page.editBase
      BY <2>1, <3>1 DEF Page
    <3> QED
      BY <2>1, <3>2 DEF Base
  <2>3. CASE page.user # None
    <3>1. page' = Blank(user, page.profile)
      BY <1>7, <2>3 DEF ChangeUser
    <3>2. /\ page'.user = user /\ page'.changed = FALSE
          /\ page'.forms = [k \in Kinds |-> None]
      BY <3>1 DEF Blank
    <3> QED
      BY <2>1, <3>2 DEF Dirty, FormDirty
  <2> QED
    BY <2>2, <2>3
<1>8. CASE Enters
  BY <1>4, <1>5, <1>6, <1>8 DEF Enters
<1>9. CASE Others
  <2>1. CASE \E user \in Users \cup {None} : ChangeUser(user)
    BY <1>7, <2>1
  <2>2. CASE (\E p \in Profiles, document \in Documents : OtherSaves(p, document))
             \/ LoseRequest \/ LoseAnswer \/ Restart
    BY <1>1, <2>2 DEF OtherSaves, LoseRequest, LoseAnswer, Restart
  <2> QED
    BY <1>9, <2>1, <2>2 DEF Others
<1>10. Serve \/ UNCHANGED vars => page' = page
  BY DEF Serve, vars
<1> QED
  BY <1>1, <1>2, <1>3, <1>8, <1>9, <1>10, NextIs

(* A save that is accepted activates what the page presents.               *)
LEMMA SavedIs ==
  ASSUME EInv, [Next]_vars, NEW p \in Profiles,
         faults = 0, call # None, call.current, call.at = "request",
         call.message.do = "save", Len(rows'[p]) > Len(rows[p]), call'.at = "answer"
  PROVE  rows'[p] = Append(rows[p], Presented(page))
<1>1. /\ TypeOK /\ CallSession /\ CurrentSession /\ CallFits /\ ShowsDraft
  BY DEF EInv
<1>2. Serve
  <2>1. rows' # rows /\ call' # call
    <3>1. Len(rows[p]) \in Nat
      BY <1>1, LenProperties DEF TypeOK
    <3> QED
      BY <3>1
  <2>2. ~Receive /\ ~Begins
    BY BeginsStartable DEF Receive, Begin
  <2>3. ~Enters
    BY <2>1 DEF Enters, OpenForm, Type, Paste
  <2>4. ~Others
    BY <2>1 DEF Others, ChangeUser, OtherSaves, LoseRequest, LoseAnswer, Restart
  <2> QED
    BY <2>1, <2>2, <2>3, <2>4, NextIs DEF vars
<1>3. Accepts(call.message)
      /\ rows' = [rows EXCEPT ![call.message.profile] = Append(@, served.payload)]
  <2>1. rows' # rows
    <3>1. Len(rows[p]) \in Nat
      BY <1>1, LenProperties DEF TypeOK
    <3> QED
      BY <3>1
  <2> QED
    BY <1>2, <2>1 DEF Serve, Comply, Refuse
<1>4. rows'[p] = Append(rows[p], served.payload)
  <2>1. rows \in [Profiles -> Seq(Payloads)] /\ Len(rows[p]) \in Nat
    BY <1>1, LenProperties DEF TypeOK
  <2> QED
    BY <1>3, <2>1
<1>5. served # None
  BY <1>3 DEF Accepts, Holds
<1>6. page.draft = served
  BY <1>1, <1>5 DEF CurrentSession, ShowsDraft
<1>7. \A k \in Kinds : ~FormDirty(page, k)
  <2>1. call.todo[1].do = "save" /\ 1 \in DOMAIN call.todo
    BY <1>1, CallIs DEF CallSession
  <2> QED
    BY <1>1, <2>1 DEF CallFits, Fit, FitSave
<1>8. Presented(page) = [i \in DOMAIN served.payload |-> served.payload[i]]
  <2>1. Shown(page) = served.payload
    BY <1>5, <1>6 DEF Shown
  <2>2. {k \in Kinds : FormDirty(page, k)} = {}
    BY <1>7
  <2> QED
    BY <2>1, <2>2 DEF Presented
<1>9. served.payload \in Payloads
  BY <1>1, <1>5 DEF TypeOK, Draft
<1> QED
  BY <1>4, <1>8, <1>9, PayloadIs

(* Through a call and between calls, what the service holds, what the page *)
(* shows and what the request names are one draft, whoever else activates, *)
(* whatever fails and whenever the user changes.                           *)
THEOREM EditorInvariant == Spec => []EInv
  BY EditorInit, EditorStep, PTL DEF Spec

(* The variables keep their types, and a save that is under way finds room *)
(* for its revision.                                                       *)
THEOREM EditorTypeOK == Spec => []TypeOK
<1>1. EInv => TypeOK
  BY DEF EInv
<1> QED
  BY <1>1, EditorInvariant, PTL

(* What a page shows as its draft was opened by the user in front of it,   *)
(* for the household it shows.                                             *)
THEOREM EditorSessionIsOwn == Spec => []SessionIsOwn
<1>1. EInv => SessionIsOwn
  BY DEF EInv, PageSession, MatchesPage, Matches, SessionIsOwn
<1> QED
  BY <1>1, EditorInvariant, PTL

(* A fusion of a draft finds every binding and fusion it reads in it, at   *)
(* any point of an edit session.                                           *)
THEOREM EditorDraftsHangTogether == Spec => []DraftsHangTogether
<1>1. EInv => DraftsHangTogether
  BY DEF EInv
<1> QED
  BY <1>1, EditorInvariant, PTL

(* While there is unsaved work, the revision it is based on stays what it  *)
(* was, whatever is read, refused or activated meanwhile.                  *)
THEOREM EditorNoSilentRebase == Spec => NoSilentRebase
<1>1. EInv /\ [Next]_vars => [Dirty(page) /\ Dirty(page') => Base(page') = Base(page)]_vars
  BY WorkStep
<1> QED
  BY <1>1, EditorInvariant, PTL DEF Spec, NoSilentRebase

(* Unsaved work ends on purpose only: no failure, conflict or refresh      *)
(* takes it away.                                                          *)
THEOREM EditorWorkEndsOnPurpose == Spec => WorkEndsOnPurpose
<1>1. EInv /\ [Next]_vars =>
        [Dirty(page) /\ ~Dirty(page') =>
           \/ page'.user # page.user
           \/ call = None /\ call' = None
           \/ call' # None /\ call'.todo[1].do = "clearAndRead"
           \/ Acknowledged("save") /\ \A k \in Kinds : ~FormDirty(page, k)]_vars
  BY WorkStep
<1> QED
  BY <1>1, EditorInvariant, PTL DEF Spec, WorkEndsOnPurpose

(* As long as no answer was lost, a save activates exactly what the page   *)
(* of its user presents at that moment.                                    *)
THEOREM EditorSavedIsPresented == Spec => SavedIsPresented
<1>1. EInv /\ [Next]_vars =>
        [\A p \in Profiles :
           /\ faults = 0 /\ call # None /\ call.current /\ call.at = "request"
           /\ call.message.do = "save" /\ Len(rows'[p]) > Len(rows[p]) /\ call'.at = "answer"
           => rows'[p] = Append(rows[p], Presented(page))]_vars
  BY SavedIs
<1> QED
  BY <1>1, EditorInvariant, PTL DEF Spec, SavedIsPresented

=============================================================================
