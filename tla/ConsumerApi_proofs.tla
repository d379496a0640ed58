------------------------- MODULE ConsumerApi_proofs -------------------------
(***************************************************************************)
(* The consumer API, for any contracts, registry payloads, values and      *)
(* subscriptions, and any bounds on subscriptions and on the changes made  *)
(* by callbacks.                                                           *)
(*                                                                         *)
(* The invariant follows, for every subscriber and contract, the newest of *)
(* the updates it was given and of those that dispatches under way, one    *)
(* inside the other, still hold for it: that one is the present.           *)
(***************************************************************************)
EXTENDS ConsumerApi, SequenceTheorems, WellFoundedInduction, TLAPS

(* ---------------------------------------------------------------------- *)
(* The invariant *)

Frames == [todo : Seq(Keys), key : Keys \cup {NoKey}, snap : AllSnapshots, rev : Nat,
           queue : Seq(Subs), calling : BOOLEAN]
Told == [snap : AllSnapshots, rev : Nat]

Typed ==
  /\ active \in Configs \cup {NoConfig} /\ world \in Worlds
  /\ attached \in BOOLEAN /\ closed \in BOOLEAN
  /\ observed \in [Keys -> AllSnapshots]
  /\ subs \in Seq(Subs) /\ stack \in Seq(Frames)
  /\ told \in [Subs -> [Keys -> Told]]
  /\ rev \in Nat /\ changes \in 0..MaxChanges

(* A dispatch inside another one is a change made by a callback.           *)
Depth ==
  /\ Len(stack) <= 1 + changes
  /\ Quiet => changes = 0

(* Until it is closed, the API listens to the graph there is.              *)
Listens ==
  /\ ~closed => attached = (active # NoConfig)
  /\ closed => subs = <<>>

(* A dispatch waits with updates newer than those of the dispatches around *)
(* it, for subscribers in force, none of whom has been given it.           *)
FrameFits(frame) ==
  /\ IsInjective(frame.todo) /\ IsInjective(frame.queue)
  /\ frame.rev <= rev
  /\ Range(frame.queue) \subseteq Range(subs)
  /\ \A s \in Range(frame.queue) :
       frame.key \in Keys /\ told[s][frame.key].rev # frame.rev

StackFits ==
  /\ IsInjective(subs)
  /\ \A s \in Subs, k \in Keys : told[s][k].rev <= rev
  /\ \A i \in DOMAIN stack : FrameFits(stack[i])
  /\ \A i, j \in DOMAIN stack :
       i < j /\ Range(stack[i].queue) # {} => stack[j].rev < stack[i].rev

Aged(old, new) ==
  /\ Present(old) /\ Present(new) /\ old.def = new.def
  /\ \A f \in DOMAIN new.values :
       new.values[f] # old.values[f] => old.values[f] = "good" /\ new.values[f] = "bad"

(* What has changed otherwise is still to be looked at.                    *)
Seen ==
  ~closed =>
    \A k \in Keys :
      \/ observed[k] = Unobserved \/ observed[k] = Now(k) \/ Aged(observed[k], Now(k))
      \/ \E i \in DOMAIN stack : k \in Range(stack[i].todo)

(* What a subscription watches by itself is observed; of what is not       *)
(* observed, nobody knows anything.                                        *)
WatchedObserved ==
  /\ \A s \in Range(subs) \cap FeedSubs : \A k \in Watched(s, NoConfig) : observed[k] # Unobserved
  /\ \A k \in Keys : observed[k] = Unobserved =>
       /\ \A s \in Subs : told[s][k].snap = Unobserved
       /\ \A i \in DOMAIN stack : stack[i].key = k => Range(stack[i].queue) = {}

(* Does the role of s stand for a contract so observed?                    *)
Shown(s, v) == Present(v) /\ Filter[s].role \in v.def.roles

(* To the subscription s, is the snapshot v of k as good as o?             *)
Knows(s, k, v, o) ==
  /\ s \in FeedSubs /\ {"available", "unavailable"} \subseteq Filter[s].kinds =>
       Part(s, k, v) = Part(s, k, o)
  /\ /\ Filter[s].role # NoRole /\ Filter[s].contract = NoKey
     /\ Filter[s].kinds = AllKinds /\ Filter[s].fields = {}
     /\ Shown(s, o)
     => v \in {Unobserved, o}

Holds(frame, s, k) == frame.key = k /\ s \in Range(frame.queue)
Newer(frame, s, k, known) == Holds(frame, s, k) /\ frame.rev > known.rev

(* The newest that a subscriber was given, or that a dispatch still holds  *)
(* for it, is what is observed.                                            *)
NewestKnown ==
  \A s \in Range(subs), k \in Keys :
    /\ (\A i \in DOMAIN stack : ~Newer(stack[i], s, k, told[s][k]))
         => Knows(s, k, told[s][k].snap, observed[k])
    /\ \A i \in DOMAIN stack :
         /\ Newer(stack[i], s, k, told[s][k])
         /\ \A j \in DOMAIN stack : j < i => ~Holds(stack[j], s, k)
         => Knows(s, k, stack[i].snap, observed[k])

AInv ==
  /\ Typed /\ Depth /\ Listens /\ StackFits /\ Seen /\ WatchedObserved /\ NewestKnown

(* ---------------------------------------------------------------------- *)
(* Those *)

LEMMA SmallestOf ==
  ASSUME NEW S \in SUBSET Nat, S # {}
  PROVE  \E x \in S : \A y \in S : x <= y
<1> DEFINE R == OpToRel(<, Nat)
<1>1. IsWellFoundedOn(R, Nat)
  BY NatLessThanWellFounded
<1>2. PICK x \in S : \A y \in S : ~ (<<y, x>> \in R)
  <2> HIDE DEF R
  <2> QED
    BY <1>1, WFMin
<1>3. \A y \in S : ~ (y < x)
  BY <1>2 DEF OpToRel
<1> HIDE DEF R
<1>4. \A y \in S : x <= y
  BY <1>3, S \subseteq Nat
<1> QED
  BY <1>4

(* The function by which Those goes through s.                             *)
Goes(s, S, f) ==
  f = [i \in 0..Len(s) |->
         IF i = 0 THEN <<>> ELSE IF s[i] \in S THEN Append(f[i - 1], s[i]) ELSE f[i - 1]]

LEMMA ThoseIs == \A s, S : Those(s, S) = (CHOOSE f : Goes(s, S, f))[Len(s)]
  BY DEF Those, Goes

LEMMA GoesExists ==
  ASSUME NEW T, NEW s \in Seq(T), NEW S
  PROVE  \E f : Goes(s, S, f)
<1> DEFINE next(g, i) == IF s[i] \in S THEN Append(g[i - 1], s[i]) ELSE g[i - 1]
           Up(g, n) == DOMAIN g = 0..n /\ g[0] = <<>> /\ \A i \in 1..n : g[i] = next(g, i)
           Never == {n \in Nat : ~ \E g : Up(g, n)}
<1>1. Len(s) \in Nat
  BY LenProperties
<1>2. Never = {}
  <2> SUFFICES ASSUME Never # {} PROVE FALSE
    OBVIOUS
  <2>1. PICK n \in Never : \A m \in Never : n <= m
    <3>1. Never \in SUBSET Nat
      OBVIOUS
    <3> HIDE DEF Never
    <3> QED
      BY <3>1, SmallestOf
  <2>2. n \in Nat /\ \A g : ~Up(g, n)
    BY <2>1
  <2>3. n # 0
    <3>1. Up([i \in 0..0 |-> <<>>], 0)
      OBVIOUS
    <3> HIDE DEF Up
    <3> QED
      BY <2>2, <3>1
  <2>4. n - 1 \in Nat /\ n - 1 \notin Never
    BY <2>1, <2>2, <2>3
  <2>5. PICK g : Up(g, n - 1)
    BY <2>4
  <2> DEFINE h == [i \in 0..n |-> IF i = n THEN next(g, n) ELSE g[i]]
  <2>6. \A i \in 0..(n - 1) : h[i] = g[i]
    BY <2>2, <2>3
  <2>7. h[n] = next(h, n)
    <3>1. h[n] = next(g, n) /\ h[n - 1] = g[n - 1]
      BY <2>2, <2>3
    <3> HIDE DEF h
    <3> QED
      BY <3>1
  <2>8. \A i \in 1..(n - 1) : h[i] = next(h, i)
    <3> TAKE i \in 1..(n - 1)
    <3>1. i \in 0..(n - 1) /\ i - 1 \in 0..(n - 1)
      BY <2>2
    <3>2. h[i] = g[i] /\ h[i - 1] = g[i - 1]
      BY <2>6, <3>1
    <3>3. g[i] = next(g, i)
      BY <2>5
    <3> HIDE DEF h
    <3> QED
      BY <3>2, <3>3
  <2>9. DOMAIN h = 0..n /\ h[0] = <<>>
    BY <2>2, <2>3, <2>5
  <2> HIDE DEF h
  <2>10. \A i \in 1..n : i = n \/ i \in 1..(n - 1)
    BY <2>2
  <2>11. Up(h, n)
    BY <2>7, <2>8, <2>9, <2>10
  <2> HIDE DEF Up
  <2> QED
    BY <2>2, <2>11
<1>3. PICK g : Up(g, Len(s))
  BY <1>1, <1>2
<1> DEFINE f == [i \in 0..Len(s) |-> g[i]]
<1>4. \A i \in 0..Len(s) : f[i] = IF i = 0 THEN <<>> ELSE next(f, i)
  <2> TAKE i \in 0..Len(s)
  <2>1. CASE i = 0
    BY <1>3, <2>1
  <2>2. CASE i # 0
    <3>1. i \in 1..Len(s) /\ i - 1 \in 0..Len(s)
      BY <1>1, <2>2
    <3>2. g[i] = next(g, i)
      BY <1>3, <3>1
    <3>3. f[i] = g[i] /\ f[i - 1] = g[i - 1]
      BY <3>1
    <3> HIDE DEF f
    <3> QED
      BY <2>2, <3>2, <3>3
  <2> QED
    BY <2>1, <2>2
<1>5. f = [i \in 0..Len(s) |-> f[i]]
  OBVIOUS
<1> HIDE DEF f
<1>6. Goes(s, S, f)
  BY <1>4, <1>5 DEF Goes
<1> QED
  BY <1>6

LEMMA AppendRange ==
  ASSUME NEW T, NEW q \in Seq(T), NEW e \in T
  PROVE  /\ Append(q, e) \in Seq(T) /\ Range(Append(q, e)) = Range(q) \cup {e}
         /\ IsInjective(q) /\ e \notin Range(q) => IsInjective(Append(q, e))
<1> DEFINE a == Append(q, e)
<1>1. /\ a \in Seq(T) /\ Len(a) = Len(q) + 1 /\ Len(q) \in Nat
      /\ \A i \in 1..Len(q) : a[i] = q[i]
      /\ a[Len(q) + 1] = e
  BY AppendProperties, LenProperties
<1>2. DOMAIN a = 1..(Len(q) + 1) /\ DOMAIN q = 1..Len(q)
  BY <1>1, LenProperties
<1> HIDE DEF a
<1>3. \A i \in 1..(Len(q) + 1) : i \in 1..Len(q) \/ i = Len(q) + 1
  BY <1>1
<1>4. \A i \in 1..Len(q) : i \in 1..(Len(q) + 1)
  BY <1>1
<1>5. Range(a) = Range(q) \cup {e}
  <2>1. \A x \in Range(a) : x \in Range(q) \cup {e}
    BY <1>1, <1>2, <1>3 DEF Range
  <2>2. \A x \in Range(q) : x \in Range(a)
    BY <1>1, <1>2, <1>4 DEF Range
  <2>3. e \in Range(a)
    <3>1. Len(q) + 1 \in DOMAIN a
      BY <1>1, <1>2
    <3> QED
      BY <1>1, <3>1 DEF Range
  <2> QED
    BY <2>1, <2>2, <2>3
<1>6. ASSUME IsInjective(q), e \notin Range(q)
      PROVE  IsInjective(a)
  <2> SUFFICES ASSUME NEW i \in DOMAIN a, NEW j \in DOMAIN a, a[i] = a[j] PROVE i = j
    BY DEF IsInjective
  <2>1. \A n \in 1..Len(q) : a[n] # e
    BY <1>1, <1>2, <1>6 DEF Range
  <2>2. CASE i \in 1..Len(q) /\ j \in 1..Len(q)
    BY <1>1, <1>2, <1>6, <2>2 DEF IsInjective
  <2> QED
    BY <1>1, <1>2, <1>3, <2>1, <2>2
<1> QED
  BY <1>1, <1>5, <1>6 DEF a

(* ThoseAre: the members of S in s, none twice if none is twice in s.      *)
LEMMA ThoseAre ==
  ASSUME NEW T, NEW s \in Seq(T), NEW S
  PROVE  /\ Those(s, S) \in Seq(T)
         /\ Range(Those(s, S)) = Range(s) \cap S
         /\ IsInjective(s) => IsInjective(Those(s, S))
<1> DEFINE f == CHOOSE g : Goes(s, S, g)
<1>1. Goes(s, S, f)
  BY GoesExists
<1>2. Those(s, S) = f[Len(s)]
  BY ThoseIs
<1> HIDE DEF f
<1>3. Len(s) \in Nat /\ DOMAIN s = 1..Len(s) /\ \A i \in 1..Len(s) : s[i] \in T
  BY LenProperties, ElementOfSeq
<1>4. /\ f[0] = <<>>
      /\ \A i \in 1..Len(s) : f[i] = IF s[i] \in S THEN Append(f[i - 1], s[i]) ELSE f[i - 1]
  <2>1. \A i \in 0..Len(s) :
          f[i] = IF i = 0 THEN <<>>
                 ELSE IF s[i] \in S THEN Append(f[i - 1], s[i]) ELSE f[i - 1]
    BY <1>1 DEF Goes
  <2>2. 0 \in 0..Len(s) /\ \A i \in 1..Len(s) : i \in 0..Len(s) /\ i # 0
    BY <1>3
  <2> QED
    BY <2>1, <2>2
<1> DEFINE First(i) == {s[j] : j \in 1..i} \cap S
           Good(i) == /\ f[i] \in Seq(T) /\ Range(f[i]) = First(i)
                      /\ IsInjective(s) => IsInjective(f[i])
           Bad == {i \in 0..Len(s) : ~Good(i)}
<1>5. Bad = {}
  <2> SUFFICES ASSUME Bad # {} PROVE FALSE
    OBVIOUS
  <2>1. PICK i \in Bad : \A j \in Bad : i <= j
    <3>1. Bad \in SUBSET Nat
      BY <1>3
    <3> HIDE DEF Bad
    <3> QED
      BY <3>1, SmallestOf
  <2>2. i \in 0..Len(s) /\ ~Good(i)
    BY <2>1
  <2>3. i # 0
    <3>1. <<>> \in Seq(T) /\ Range(<<>>) = {} /\ IsInjective(<<>>)
      BY EmptySeq DEF Range, IsInjective
    <3>2. First(0) = {}
      OBVIOUS
    <3> QED
      BY <1>4, <2>2, <3>1, <3>2
  <2>4. i \in 1..Len(s) /\ i - 1 \in 0..Len(s) /\ ~(i <= i - 1)
    BY <1>3, <2>2, <2>3
  <2>5. Good(i - 1)
    BY <2>1, <2>4
  <2>6. CASE s[i] \notin S
    <3>1. f[i] = f[i - 1]
      BY <1>4, <2>4, <2>6
    <3>2. First(i) = First(i - 1)
      BY <2>4, <2>6
    <3> QED
      BY <2>2, <2>5, <3>1, <3>2
  <2>7. CASE s[i] \in S
    <3>1. f[i] = Append(f[i - 1], s[i]) /\ s[i] \in T
      BY <1>3, <1>4, <2>4, <2>7
    <3>2. First(i) = First(i - 1) \cup {s[i]}
      BY <2>4, <2>7
    <3>3. IsInjective(s) => s[i] \notin First(i - 1)
      BY <1>3, <2>4 DEF IsInjective
    <3> HIDE DEF First
    <3> QED
      BY <2>2, <2>5, <3>1, <3>2, <3>3, AppendRange
  <2> QED
    BY <2>6, <2>7
<1>6. Good(Len(s))
  <2>1. Len(s) \in 0..Len(s)
    BY <1>3
  <2> HIDE DEF Good
  <2> QED
    BY <1>5, <2>1
<1>7. First(Len(s)) = Range(s) \cap S
  BY <1>3 DEF Range
<1> HIDE DEF First
<1> QED
  BY <1>2, <1>6, <1>7

(* ---------------------------------------------------------------------- *)
(* Snapshots, and the changes a subscriber hears of *)

LEMMA SnapshotIs ==
  ASSUME NEW v \in AllSnapshots
  PROVE  \/ v \in {Unobserved, Absent("runtime_not_ready"), Absent("missing")} /\ ~Present(v)
         \/ /\ Present(v)
            /\ v = [status |-> "present", def |-> v.def, values |-> v.values]
            /\ v.values = [f \in DOMAIN v.values |-> v.values[f]]
<1>1. CASE v \in {Unobserved, Absent("runtime_not_ready"), Absent("missing")}
  BY <1>1 DEF Present, Unobserved, Absent
<1>2. CASE v \notin {Unobserved, Absent("runtime_not_ready"), Absent("missing")}
  <2>1. PICK c \in Configs, w \in Worlds, k \in Keys : v = Capture(c, w, k)
    BY <1>2 DEF AllSnapshots
  <2>2. v = [status |-> "present", def |-> c[k], values |-> [f \in c[k].fields |-> w[k][f]]]
    BY <1>2, <2>1 DEF Capture
  <2> QED
    BY <2>2 DEF Present
<1> QED
  BY <1>1, <1>2

LEMMA CaptureIs ==
  ASSUME NEW c \in Configs \cup {NoConfig}, NEW w \in Worlds, NEW k \in Keys,
         NEW v, v = Capture(c, w, k)
  PROVE  /\ v \in AllSnapshots /\ v # Unobserved
         /\ Present(v) <=> c # NoConfig /\ c[k] # NoDef
         /\ ~Present(v) => v = IF c = NoConfig THEN Absent("runtime_not_ready") ELSE Absent("missing")
         /\ Present(v) => /\ v.def = c[k] /\ DOMAIN v.values = c[k].fields
                          /\ \A f \in c[k].fields : v.values[f] = w[k][f]
<1>1. CASE c = NoConfig
  BY <1>1 DEF Capture, Absent, AllSnapshots, Present, Unobserved
<1>2. CASE c # NoConfig /\ c[k] = NoDef
  BY <1>2 DEF Capture, Absent, AllSnapshots, Present, Unobserved
<1>3. CASE c # NoConfig /\ c[k] # NoDef
  <2>1. v = [status |-> "present", def |-> c[k], values |-> [f \in c[k].fields |-> w[k][f]]]
    BY <1>3 DEF Capture
  <2>2. v \in AllSnapshots
    BY <1>3 DEF AllSnapshots
  <2>3. Present(v) /\ v # Unobserved
    BY <2>1 DEF Present, Unobserved
  <2>4. v.def = c[k] /\ v.values = [f \in c[k].fields |-> w[k][f]]
    BY <2>1
  <2> QED
    BY <1>3, <2>2, <2>3, <2>4
<1> QED
  BY <1>1, <1>2, <1>3

(* The presence of a contract: all that a subscription to availability is  *)
(* about, and what every other one is told, whatever its fields.           *)
LEMMA PresenceTold ==
  ASSUME NEW s \in Subs, NEW k, NEW old \in AllSnapshots, NEW new \in AllSnapshots,
         Present(old) # Present(new),
         {"available", "unavailable"} \subseteq Filter[s].kinds
  PROVE  (Events(old, new) \ Dropped(s, ChangedFields(old, new))) \cap Filter[s].kinds # {}
<1>2. Present(old) /\ ~Present(new) => "unavailable" \in Events(old, new)
  BY DEF Events
<1>3. ~Present(old) /\ Present(new) => "available" \in Events(old, new)
  BY DEF Events
<1>4. {"available", "unavailable"} \cap Dropped(s, ChangedFields(old, new)) = {}
  BY DEF Dropped
<1>5. Present(old) \in BOOLEAN /\ Present(new) \in BOOLEAN
  BY DEF Present
<1> QED
  BY <1>2, <1>3, <1>4, <1>5

LEMMA SameFields ==
  ASSUME NEW old \in AllSnapshots, NEW new \in AllSnapshots, Present(old), Present(new)
  PROVE  /\ ChangedFields(old, new) = {} => old.values = new.values
         /\ \A f \in (DOMAIN old.values \cup DOMAIN new.values) \ ChangedFields(old, new) :
              f \in DOMAIN old.values /\ f \in DOMAIN new.values /\ old.values[f] = new.values[f]
<1>1. \A f \in (DOMAIN old.values \cup DOMAIN new.values) \ ChangedFields(old, new) :
        f \in DOMAIN old.values /\ f \in DOMAIN new.values /\ old.values[f] = new.values[f]
  BY DEF ChangedFields
<1>2. ASSUME ChangedFields(old, new) = {} PROVE old.values = new.values
  <2>1. DOMAIN old.values = DOMAIN new.values
        /\ \A f \in DOMAIN old.values : old.values[f] = new.values[f]
    BY <1>1, <1>2
  <2>2. /\ old.values = [f \in DOMAIN old.values |-> old.values[f]]
        /\ new.values = [f \in DOMAIN new.values |-> new.values[f]]
    BY SnapshotIs DEF Present, Unobserved, Absent
  <2> QED
    BY <2>1, <2>2
<1> QED
  BY <1>1, <1>2

(* A subscription to all kinds of events, of all fields, hears of every    *)
(* change.                                                                 *)
LEMMA ChangeTold ==
  ASSUME NEW s \in Subs, Filter[s].kinds = AllKinds, Filter[s].fields = {},
         NEW old \in AllSnapshots, NEW new \in AllSnapshots, new # Unobserved, old # new
  PROVE  (Events(old, new) \ Dropped(s, ChangedFields(old, new))) \cap Filter[s].kinds # {}
<1>1. Dropped(s, ChangedFields(old, new)) = {}
  BY DEF Dropped
<1>2. CASE Present(old) # Present(new)
  <2>1. Present(old) \in BOOLEAN /\ Present(new) \in BOOLEAN
    BY DEF Present
  <2>2. "available" \in Events(old, new) \/ "unavailable" \in Events(old, new)
    BY <1>2, <2>1 DEF Events
  <2> QED
    BY <1>1, <2>2 DEF AllKinds
<1>3. CASE ~Present(old) /\ ~Present(new)
  <2>1. old.status # new.status
    <3>1. /\ old \in {Unobserved, Absent("runtime_not_ready"), Absent("missing")}
          /\ new \in {Absent("runtime_not_ready"), Absent("missing")}
      BY <1>3, SnapshotIs
    <3> QED
      BY <3>1 DEF Absent, Unobserved
  <2>2. Revised(old, new)
    BY <1>3, <2>1 DEF Revised
  <2>3. "revision" \in Events(old, new)
    BY <2>2 DEF Events
  <2> QED
    BY <1>1, <2>3 DEF AllKinds
<1>4. CASE Present(old) /\ Present(new)
  <2>1. old.def # new.def \/ old.values # new.values
    <3>1. /\ old = [status |-> "present", def |-> old.def, values |-> old.values]
          /\ new = [status |-> "present", def |-> new.def, values |-> new.values]
      BY <1>4, SnapshotIs
    <3> QED
      BY <3>1
  <2>2. CASE old.def # new.def
    <3>1. Revised(old, new)
      BY <1>4, <2>2 DEF Revised
    <3>2. "revision" \in Events(old, new)
      BY <3>1 DEF Events
    <3> QED
      BY <1>1, <3>2 DEF AllKinds
  <2>3. CASE old.values # new.values
    <3>1. ChangedFields(old, new) # {}
      BY <1>4, <2>3, SameFields
    <3>2. "field" \in Events(old, new)
      BY <3>1 DEF Events
    <3> QED
      BY <1>1, <3>2 DEF AllKinds
  <2> QED
    BY <2>1, <2>2, <2>3
<1> QED
  BY <1>2, <1>3, <1>4 DEF Present


(* A subscription hears of every change of its part.                       *)
LEMMA PartTold ==
  ASSUME NEW s \in FeedSubs, NEW k \in Keys, {"available", "unavailable"} \subseteq Filter[s].kinds,
         NEW old \in AllSnapshots, NEW new \in AllSnapshots, old # Unobserved, new # Unobserved,
         Part(s, k, old) # Part(s, k, new)
  PROVE  Concerns(s, k, old, new)
<1> DEFINE f == Filter[s]
           all == f.kinds = AllKinds
           shown(v) == IF ~Present(v) \/ ~all THEN {}
                       ELSE IF f.fields = {} THEN DOMAIN v.values ELSE f.fields \cap DOMAIN v.values
           part(v) == [status |-> IF Present(v) \/ all THEN v.status ELSE "absent",
                       def    |-> IF Present(v) /\ all /\ f.fields = {} THEN v.def ELSE NoDef,
                       values |-> [n \in shown(v) |-> v.values[n]]]
<1>1. k \in Watched(s, NoConfig) /\ part(old) # part(new)
  BY DEF Part
<1>2. s \in Subs /\ f.role = NoRole /\ f.contract \in {k, NoKey}
  BY <1>1 DEF FeedSubs, Watched
<1>3. Concerns(s, k, old, new) <=>
        (Events(old, new) \ Dropped(s, ChangedFields(old, new))) \cap f.kinds # {}
  BY <1>2 DEF Concerns
<1>4. CASE Present(old) # Present(new)
  BY <1>2, <1>3, <1>4, PresenceTold
<1>5. CASE Present(old) = Present(new) /\ ~all
  <2>1. part(old) = [status |-> IF Present(old) THEN old.status ELSE "absent",
                     def |-> NoDef, values |-> [n \in {} |-> old.values[n]]]
    BY <1>5
  <2>2. part(new) = [status |-> IF Present(new) THEN new.status ELSE "absent",
                     def |-> NoDef, values |-> [n \in {} |-> new.values[n]]]
    BY <1>5
  <2>3. [n \in {} |-> old.values[n]] = [n \in {} |-> new.values[n]]
    OBVIOUS
  <2>4. Present(old) /\ Present(new) => old.status = new.status
    BY DEF Present
  <2> HIDE DEF part
  <2> QED
    BY <1>1, <1>5, <2>1, <2>2, <2>3, <2>4
<1>6. CASE Present(old) = Present(new) /\ all /\ f.fields = {}
  <2>1. old # new
    BY <1>1
  <2> QED
    BY <1>2, <1>3, <1>6, <2>1, ChangeTold
<1>7. CASE ~Present(old) /\ ~Present(new) /\ all /\ f.fields # {}
  <2>1. old.status # new.status
    <3>1. part(old) = [status |-> old.status, def |-> NoDef, values |-> [n \in {} |-> old.values[n]]]
      BY <1>7
    <3>2. part(new) = [status |-> new.status, def |-> NoDef, values |-> [n \in {} |-> new.values[n]]]
      BY <1>7
    <3>3. [n \in {} |-> old.values[n]] = [n \in {} |-> new.values[n]]
      OBVIOUS
    <3> HIDE DEF part
    <3> QED
      BY <1>1, <3>1, <3>2, <3>3
  <2>2. "revision" \in Events(old, new)
    BY <1>7, <2>1 DEF Events, Revised
  <2>3. ChangedFields(old, new) = {}
    BY <1>7 DEF ChangedFields
  <2>4. "revision" \notin Dropped(s, ChangedFields(old, new))
    BY <2>3 DEF Dropped
  <2> QED
    BY <1>3, <1>7, <2>2, <2>4 DEF AllKinds
<1>8. CASE Present(old) /\ Present(new) /\ all /\ f.fields # {}
  <2>1. ChangedFields(old, new) \cap f.fields # {}
    <3> SUFFICES ASSUME ChangedFields(old, new) \cap f.fields = {} PROVE FALSE
      OBVIOUS
    <3>1. \A n \in f.fields : n \in DOMAIN old.values \cup DOMAIN new.values =>
            n \in DOMAIN old.values /\ n \in DOMAIN new.values /\ old.values[n] = new.values[n]
      BY <1>8, SameFields
    <3>2. shown(old) = f.fields \cap DOMAIN old.values /\ shown(new) = f.fields \cap DOMAIN new.values
      BY <1>8
    <3>3. shown(old) = shown(new) /\ \A n \in shown(old) : old.values[n] = new.values[n]
      BY <3>1, <3>2
    <3> HIDE DEF shown
    <3>4. [n \in shown(old) |-> old.values[n]] = [n \in shown(new) |-> new.values[n]]
      BY <3>3
    <3>5. old.status = new.status
      BY <1>8 DEF Present
    <3> QED
      BY <1>1, <1>8, <3>4, <3>5
  <2>2. "field" \in Events(old, new)
    BY <2>1 DEF Events
  <2>3. Dropped(s, ChangedFields(old, new)) = {}
    BY <2>1 DEF Dropped
  <2> QED
    BY <1>3, <1>8, <2>2, <2>3 DEF AllKinds
<1> QED
  BY <1>4, <1>5, <1>6, <1>7, <1>8 DEF Present

(* What nobody watches, or has not changed, is a change of nobody's part.  *)
LEMMA PartElsewhere ==
  ASSUME NEW s, NEW k, k \notin Watched(s, NoConfig), NEW v, NEW w
  PROVE  Part(s, k, v) = Part(s, k, w)
  BY DEF Part

(* A subscription to a role hears of every change of a contract that the   *)
(* role then stands for.                                                   *)
LEMMA RoleTold ==
  ASSUME NEW s \in Subs, Filter[s].role # NoRole, Filter[s].contract = NoKey,
         Filter[s].kinds = AllKinds, Filter[s].fields = {}, NEW k \in Keys,
         active \in Configs \cup {NoConfig}, world \in Worlds,
         NEW old \in AllSnapshots, NEW new, new = Capture(active, world, k),
         Shown(s, new), old # new
  PROVE  Concerns(s, k, old, new)
<1>1. new \in AllSnapshots /\ new # Unobserved /\ Present(new)
      /\ active # NoConfig /\ active[k] # NoDef /\ new.def = active[k]
  BY CaptureIs DEF Shown
<1>2. k \in RoleKeys(active, Filter[s].role)
  BY <1>1 DEF Shown, RoleKeys
<1>4. (Events(old, new) \ Dropped(s, ChangedFields(old, new))) \cap Filter[s].kinds # {}
  BY <1>1, ChangeTold
<1> QED
  BY <1>2, <1>4 DEF Concerns


(* ---------------------------------------------------------------------- *)
(* Stacks *)

LEMMA FrameIs ==
  ASSUME NEW c
  PROVE  /\ Frame(c) \in Frames /\ Frame(c).queue = <<>> /\ Frame(c).rev = 0
         /\ IsInjective(Frame(c).todo)
         /\ \A k \in Keys : k \in AllWatched(c) => k \in Range(Frame(c).todo)
<1> DEFINE todo == Those(KeySeq, AllWatched(c))
<1>1. todo \in Seq(Keys) /\ IsInjective(todo) /\ Range(todo) = Keys \cap AllWatched(c)
  BY ThoseAre, ApiConstants DEF Keys
<1> HIDE DEF todo
<1>2. Unobserved \in AllSnapshots
  BY DEF AllSnapshots
<1>3. Frame(c) = [todo |-> todo, key |-> NoKey, snap |-> Unobserved, rev |-> 0,
                  queue |-> <<>>, calling |-> FALSE]
  BY DEF Frame, todo
<1>4. Frame(c) \in Frames
  BY <1>1, <1>2, <1>3, EmptySeq DEF Frames
<1> QED
  BY <1>1, <1>3, <1>4

LEMMA Pushed ==
  ASSUME NEW old \in Seq(Frames), NEW f \in Frames, NEW new, new = <<f>> \o old
  PROVE  /\ new \in Seq(Frames) /\ new # <<>> /\ Len(new) = Len(old) + 1 /\ new[1] = f
         /\ DOMAIN old = 1..Len(old) /\ DOMAIN new = 1..(Len(old) + 1)
         /\ \A i \in DOMAIN old : i + 1 \in DOMAIN new /\ new[i + 1] = old[i]
         /\ \A i \in DOMAIN new : i = 1 \/ i - 1 \in DOMAIN old
<1>1. <<f>> \in Seq(Frames) /\ Len(<<f>>) = 1 /\ <<f>>[1] = f
  OBVIOUS
<1>2. /\ new \in Seq(Frames) /\ Len(new) = Len(old) + 1
      /\ \A i \in 1..(1 + Len(old)) : new[i] = IF i <= 1 THEN <<f>>[i] ELSE old[i - 1]
  BY <1>1, ConcatProperties
<1>3. Len(old) \in Nat /\ DOMAIN old = 1..Len(old) /\ DOMAIN new = 1..(Len(old) + 1)
  BY <1>2, LenProperties
<1>4. new[1] = f /\ \A i \in DOMAIN old : i + 1 \in DOMAIN new /\ new[i + 1] = old[i]
  BY <1>1, <1>2, <1>3
<1>5. new # <<>> /\ \A i \in DOMAIN new : i = 1 \/ i - 1 \in DOMAIN old
  BY <1>2, <1>3, EmptySeq
<1> QED
  BY <1>2, <1>3, <1>4, <1>5

LEMMA Popped ==
  ASSUME NEW old \in Seq(Frames), old # <<>>
  PROVE  /\ Tail(old) \in Seq(Frames) /\ Len(Tail(old)) = Len(old) - 1
         /\ Len(old) \in Nat \ {0} /\ DOMAIN old = 1..Len(old) /\ 1 \in DOMAIN old
         /\ Head(old) = old[1] /\ Head(old) \in Frames
         /\ DOMAIN Tail(old) = 1..(Len(old) - 1)
         /\ \A i \in DOMAIN Tail(old) : i + 1 \in DOMAIN old /\ Tail(old)[i] = old[i + 1]
         /\ \A i \in DOMAIN old : i = 1 \/ i - 1 \in DOMAIN Tail(old)
<1>1. /\ Tail(old) \in Seq(Frames) /\ Len(Tail(old)) = Len(old) - 1
      /\ \A i \in 1..Len(Tail(old)) : Tail(old)[i] = old[i + 1]
      /\ Head(old) \in Frames
  BY HeadTailProperties
<1>2. Len(old) \in Nat \ {0} /\ DOMAIN old = 1..Len(old)
  BY EmptySeq, LenProperties
<1>3. DOMAIN Tail(old) = 1..(Len(old) - 1)
  BY <1>1, LenProperties
<1> QED
  BY <1>1, <1>2, <1>3

LEMMA Replaced ==
  ASSUME NEW old \in Seq(Frames), old # <<>>, NEW f \in Frames,
         NEW new, new = <<f>> \o Tail(old)
  PROVE  /\ new \in Seq(Frames) /\ Len(new) = Len(old) /\ new # <<>>
         /\ DOMAIN new = DOMAIN old /\ DOMAIN old = 1..Len(old) /\ Len(old) \in Nat \ {0}
         /\ new[1] = f /\ \A i \in DOMAIN old : i # 1 => new[i] = old[i]
<1>1. /\ Tail(old) \in Seq(Frames) /\ Len(Tail(old)) = Len(old) - 1 /\ Len(old) \in Nat \ {0}
      /\ DOMAIN old = 1..Len(old)
      /\ \A i \in DOMAIN Tail(old) : Tail(old)[i] = old[i + 1]
      /\ \A i \in DOMAIN old : i = 1 \/ i - 1 \in DOMAIN Tail(old)
  BY Popped
<1>2. /\ new \in Seq(Frames) /\ new # <<>> /\ Len(new) = Len(Tail(old)) + 1 /\ new[1] = f
      /\ DOMAIN new = 1..(Len(Tail(old)) + 1)
      /\ \A i \in DOMAIN Tail(old) : new[i + 1] = Tail(old)[i]
  BY <1>1, Pushed
<1>3. ASSUME NEW i \in DOMAIN old, i # 1
      PROVE  new[i] = old[i]
  <2>1. i - 1 \in DOMAIN Tail(old) /\ i \in Nat
    BY <1>1, <1>3
  <2>2. new[(i - 1) + 1] = old[(i - 1) + 1]
    BY <1>1, <1>2, <2>1
  <2> QED
    BY <2>1, <2>2
<1> QED
  BY <1>1, <1>2, <1>3

LEMMA QueueHead ==
  ASSUME NEW T, NEW q \in Seq(T), q # <<>>
  PROVE  /\ Head(q) \in T /\ Head(q) \in Range(q) /\ Tail(q) \in Seq(T)
         /\ Range(q) = {Head(q)} \cup Range(Tail(q))
         /\ IsInjective(q) => Head(q) \notin Range(Tail(q)) /\ IsInjective(Tail(q))
<1>1. /\ Head(q) \in T /\ Head(q) = q[1] /\ Tail(q) \in Seq(T) /\ Len(Tail(q)) = Len(q) - 1
      /\ \A i \in 1..Len(Tail(q)) : Tail(q)[i] = q[i + 1]
  BY HeadTailProperties
<1>2. Len(q) \in Nat \ {0} /\ DOMAIN q = 1..Len(q) /\ DOMAIN Tail(q) = 1..(Len(q) - 1)
  BY <1>1, EmptySeq, LenProperties
<1>3. /\ 1 \in DOMAIN q
      /\ \A i \in DOMAIN Tail(q) : i + 1 \in DOMAIN q /\ Tail(q)[i] = q[i + 1] /\ i + 1 # 1
      /\ \A i \in DOMAIN q : i = 1 \/ (i - 1 \in DOMAIN Tail(q) /\ q[i] = Tail(q)[i - 1])
  BY <1>1, <1>2
<1>4. Range(q) = {Head(q)} \cup Range(Tail(q))
  <2>1. ASSUME NEW x \in Range(q)
        PROVE  x \in {Head(q)} \cup Range(Tail(q))
    <3>1. PICK i \in DOMAIN q : x = q[i]
      BY <2>1 DEF Range
    <3>2. CASE i = 1
      BY <1>1, <3>1, <3>2
    <3>3. CASE i # 1
      BY <1>3, <3>1, <3>3 DEF Range
    <3> QED
      BY <3>2, <3>3
  <2>2. \A x \in Range(Tail(q)) : x \in Range(q)
    BY <1>3 DEF Range
  <2>3. Head(q) \in Range(q)
    BY <1>1, <1>3 DEF Range
  <2> QED
    BY <2>1, <2>2, <2>3
<1>5. ASSUME IsInjective(q)
      PROVE  Head(q) \notin Range(Tail(q)) /\ IsInjective(Tail(q))
  <2>1. \A i, j \in DOMAIN q : q[i] = q[j] => i = j
    BY <1>5 DEF IsInjective
  <2>2. Head(q) \notin Range(Tail(q))
    BY <1>1, <1>3, <2>1 DEF Range
  <2>3. ASSUME NEW i \in DOMAIN Tail(q), NEW j \in DOMAIN Tail(q), Tail(q)[i] = Tail(q)[j]
        PROVE  i = j
    <3>1. i + 1 = j + 1
      BY <1>3, <2>1, <2>3
    <3> QED
      BY <1>2, <3>1
  <2> QED
    BY <2>2, <2>3 DEF IsInjective
<1> QED
  BY <1>1, <1>4, <1>5


LEMMA EmptyQueue == Range(<<>>) = {} /\ IsInjective(<<>>)
  BY DEF Range, IsInjective

(* ---------------------------------------------------------------------- *)
(* What a step carries over *)

(* A frame that has lost all its subscribers but those left.               *)
Follows(new, old, left) ==
  /\ new.todo = old.todo /\ new.key = old.key /\ new.snap = old.snap /\ new.rev = old.rev
  /\ IsInjective(new.queue) /\ Range(new.queue) = Range(old.queue) \cap left

LEMMA Carried ==
  ASSUME AInv, NEW m \in Int,
         observed' = observed, rev' = rev,
         Range(subs') \subseteq Range(subs), IsInjective(subs'), Range(subs) \subseteq Subs,
         \A s \in Subs : told'[s] = told[s] \/ (told'[s] = Untold /\ s \notin Range(subs')),
         DOMAIN stack \subseteq Nat, DOMAIN stack' \subseteq Nat \ {0},
         \A i \in DOMAIN stack' :
           \/ /\ i = 1 /\ Range(stack'[i].queue) = {} /\ IsInjective(stack'[i].queue)
              /\ IsInjective(stack'[i].todo) /\ stack'[i].rev <= rev
           \/ i + m \in DOMAIN stack /\ Follows(stack'[i], stack[i + m], Range(subs')),
         \A i \in DOMAIN stack : Range(stack[i].queue) # {} =>
           i - m \in DOMAIN stack' /\ Follows(stack'[i - m], stack[i], Range(subs'))
  PROVE  StackFits' /\ WatchedObserved' /\ NewestKnown'
<1>1. Typed /\ StackFits /\ WatchedObserved /\ NewestKnown /\ rev \in Nat
  BY DEF AInv, Typed
<1>2. \A s \in Range(subs') : s \in Range(subs) /\ s \in Subs /\ told'[s] = told[s]
  OBVIOUS
<1>3. StackFits'
  <2>1. \A s \in Subs, k \in Keys : told'[s][k].rev <= rev'
    BY <1>1 DEF StackFits, Untold
  <2>2. ASSUME NEW i \in DOMAIN stack'
        PROVE  FrameFits(stack[i])'
    <3>1. CASE /\ i = 1 /\ Range(stack'[i].queue) = {} /\ IsInjective(stack'[i].queue)
               /\ IsInjective(stack'[i].todo) /\ stack'[i].rev <= rev
      BY <3>1 DEF FrameFits
    <3>2. CASE i + m \in DOMAIN stack /\ Follows(stack'[i], stack[i + m], Range(subs'))
      <4>1. FrameFits(stack[i + m])
        BY <1>1, <3>2 DEF StackFits
      <4> QED
        BY <1>2, <3>2, <4>1 DEF FrameFits, Follows
    <3> QED
      BY <3>1, <3>2
  <2>3. ASSUME NEW i \in DOMAIN stack', NEW j \in DOMAIN stack', i < j, Range(stack'[i].queue) # {}
        PROVE  stack'[j].rev < stack'[i].rev
    <3>1. i + m \in DOMAIN stack /\ Follows(stack'[i], stack[i + m], Range(subs'))
      BY <2>3
    <3>2. j # 1
      BY <2>3
    <3>3. j + m \in DOMAIN stack /\ Follows(stack'[j], stack[j + m], Range(subs'))
      BY <3>2
    <3>4. i + m < j + m /\ Range(stack[i + m].queue) # {}
      BY <2>3, <3>1 DEF Follows
    <3>5. stack[j + m].rev < stack[i + m].rev
      BY <1>1, <3>1, <3>3, <3>4 DEF StackFits
    <3> QED
      BY <3>1, <3>3, <3>5 DEF Follows
  <2> QED
    BY <2>1, <2>2, <2>3 DEF StackFits
<1>4. WatchedObserved'
  <2>1. ASSUME NEW s \in Range(subs') \cap FeedSubs, NEW k \in Watched(s, NoConfig)
        PROVE  observed'[k] # Unobserved
    BY <1>1, <1>2 DEF WatchedObserved
  <2>2. ASSUME NEW k \in Keys, observed'[k] = Unobserved, NEW s \in Subs
        PROVE  told'[s][k].snap = Unobserved
    <3>1. told[s][k].snap = Unobserved
      BY <1>1, <2>2 DEF WatchedObserved
    <3> QED
      BY <3>1 DEF Untold
  <2>3. ASSUME NEW k \in Keys, observed'[k] = Unobserved, NEW i \in DOMAIN stack', stack'[i].key = k
        PROVE  Range(stack'[i].queue) = {}
    <3>1. CASE i + m \in DOMAIN stack /\ Follows(stack'[i], stack[i + m], Range(subs'))
      <4>1. Range(stack[i + m].queue) = {}
        BY <1>1, <2>3, <3>1 DEF WatchedObserved, Follows
      <4> QED
        BY <3>1, <4>1 DEF Follows
    <3> QED
      BY <3>1
  <2> QED
    BY <2>1, <2>2, <2>3 DEF WatchedObserved
<1>5. ASSUME NEW s \in Range(subs'), NEW k \in Keys
      PROVE  /\ (\A i \in DOMAIN stack' : ~Newer(stack'[i], s, k, told'[s][k]))
                  => Knows(s, k, told'[s][k].snap, observed'[k])
             /\ \A i \in DOMAIN stack' :
                  /\ Newer(stack'[i], s, k, told'[s][k])
                  /\ \A j \in DOMAIN stack' : j < i => ~Holds(stack'[j], s, k)
                  => Knows(s, k, stack'[i].snap, observed'[k])
  <2>1. told'[s] = told[s] /\ s \in Range(subs)
    BY <1>2
  <2>2. ASSUME NEW i \in DOMAIN stack, Holds(stack[i], s, k)
        PROVE  /\ i - m \in DOMAIN stack' /\ Holds(stack'[i - m], s, k)
               /\ stack'[i - m].snap = stack[i].snap /\ stack'[i - m].rev = stack[i].rev
    BY <2>2 DEF Holds, Follows
  <2>3. ASSUME NEW i \in DOMAIN stack', Holds(stack'[i], s, k)
        PROVE  /\ i + m \in DOMAIN stack /\ Holds(stack[i + m], s, k)
               /\ stack'[i].snap = stack[i + m].snap /\ stack'[i].rev = stack[i + m].rev
    BY <2>3 DEF Holds, Follows
  <2>4. /\ (\A i \in DOMAIN stack : ~Newer(stack[i], s, k, told[s][k]))
             => Knows(s, k, told[s][k].snap, observed[k])
        /\ \A i \in DOMAIN stack :
             /\ Newer(stack[i], s, k, told[s][k])
             /\ \A j \in DOMAIN stack : j < i => ~Holds(stack[j], s, k)
             => Knows(s, k, stack[i].snap, observed[k])
    BY <1>1, <2>1 DEF NewestKnown
  <2>5. ASSUME \A i \in DOMAIN stack' : ~Newer(stack'[i], s, k, told'[s][k])
        PROVE  Knows(s, k, told'[s][k].snap, observed'[k])
    <3>1. \A i \in DOMAIN stack : ~Newer(stack[i], s, k, told[s][k])
      BY <2>1, <2>2, <2>5 DEF Newer
    <3> QED
      BY <2>1, <2>4, <3>1
  <2>6. ASSUME NEW i \in DOMAIN stack', Newer(stack'[i], s, k, told'[s][k]),
               \A j \in DOMAIN stack' : j < i => ~Holds(stack'[j], s, k)
        PROVE  Knows(s, k, stack'[i].snap, observed'[k])
    <3>1. /\ i + m \in DOMAIN stack /\ Newer(stack[i + m], s, k, told[s][k])
          /\ stack'[i].snap = stack[i + m].snap
      BY <2>1, <2>3, <2>6 DEF Newer
    <3>2. ASSUME NEW j \in DOMAIN stack, j < i + m
          PROVE  ~Holds(stack[j], s, k)
      <4>1. j - m < i
        BY <3>2
      <4> QED
        BY <2>2, <2>6, <4>1
    <3> QED
      BY <2>4, <3>1, <3>2
  <2> QED
    BY <2>5, <2>6
<1>6. NewestKnown'
  BY <1>5 DEF NewestKnown
<1> QED
  BY <1>3, <1>4, <1>6


LEMMA NowIs ==
  ASSUME Typed, NEW k \in Keys
  PROVE  /\ Now(k) \in AllSnapshots /\ Now(k) # Unobserved
         /\ observed[k] \in AllSnapshots
<1>1. active \in Configs \cup {NoConfig} /\ world \in Worlds /\ observed[k] \in AllSnapshots
  BY DEF Typed
<1> QED
  BY <1>1, CaptureIs DEF Now

LEMMA KnowsItself == \A s, k, v : Knows(s, k, v, v)
  BY DEF Knows

(* Whom a change does not concern knows as much after it as before.        *)
LEMMA UnconcernedKnows ==
  ASSUME AInv, NEW s \in Range(subs), NEW k \in Keys, NEW v,
         ~Concerns(s, k, observed[k], Now(k)), Knows(s, k, v, observed[k])
  PROVE  Knows(s, k, v, Now(k))
<1>1. /\ Typed /\ Now(k) \in AllSnapshots /\ Now(k) # Unobserved
      /\ observed[k] \in AllSnapshots /\ s \in Subs
  BY NowIs, RangeOfSeq DEF AInv, Typed
<1>2. ASSUME s \in FeedSubs, {"available", "unavailable"} \subseteq Filter[s].kinds
      PROVE  Part(s, k, v) = Part(s, k, Now(k))
  <2>1. Part(s, k, v) = Part(s, k, observed[k])
    BY <1>2 DEF Knows
  <2>2. CASE k \in Watched(s, NoConfig)
    <3>1. observed[k] # Unobserved
      BY <1>2, <2>2 DEF AInv, WatchedObserved
    <3> QED
      BY <1>1, <1>2, <2>1, <3>1, PartTold
  <2>3. CASE k \notin Watched(s, NoConfig)
    BY <2>3, PartElsewhere
  <2> QED
    BY <2>2, <2>3
<1>3. ASSUME Filter[s].role # NoRole, Filter[s].contract = NoKey,
             Filter[s].kinds = AllKinds, Filter[s].fields = {}, Shown(s, Now(k))
      PROVE  v \in {Unobserved, Now(k)}
  <2>1. active \in Configs \cup {NoConfig} /\ world \in Worlds
    BY <1>1 DEF Typed
  <2>2. observed[k] = Now(k)
    BY <1>1, <1>3, <2>1, RoleTold DEF Now
  <2> QED
    BY <1>3, <2>2 DEF Knows
<1> QED
  BY <1>2, <1>3 DEF Knows

(* ---------------------------------------------------------------------- *)
(* Looking at one contract *)

Looks(k, f) ==
  /\ 1 \in DOMAIN stack /\ Range(stack[1].queue) = {}
  /\ Range(stack[1].todo) = {k} \cup Range(f.todo)
  /\ observed' = [observed EXCEPT ![k] = Now(k)] /\ rev' = rev + 1
  /\ f.key = k /\ f.snap = Now(k) /\ f.rev = rev + 1
  /\ IsInjective(f.todo) /\ IsInjective(f.queue)
  /\ Range(f.queue) = {s \in Range(subs) : Concerns(s, k, observed[k], Now(k))}
  /\ stack' \in Seq(Frames) /\ Len(stack') = Len(stack) /\ DOMAIN stack' = DOMAIN stack
  /\ stack # <<>> /\ stack' # <<>> /\ DOMAIN stack = 1..Len(stack) /\ Len(stack) \in Nat
  /\ stack'[1] = f /\ \A i \in DOMAIN stack : i # 1 => stack'[i] = stack[i]

LEMMA AdvanceLooks ==
  ASSUME AInv, Advance
  PROVE  \E k \in Keys, f \in Frames : Looks(k, f)
<1> DEFINE frame == Head(stack)
           k == Head(frame.todo)
           q == Those(subs, {s \in Subs : Concerns(s, k, observed[k], Now(k))})
           f == [frame EXCEPT !.todo = Tail(@), !.key = k, !.snap = Now(k), !.rev = rev + 1,
                              !.queue = q]
<1>1. /\ stack # <<>> /\ frame.queue = <<>> /\ frame.todo # <<>>
      /\ observed' = [observed EXCEPT ![k] = Now(k)] /\ rev' = rev + 1
      /\ stack' = <<f>> \o Tail(stack)
  BY DEF Advance, Quiet, Now
<1>2. /\ Typed /\ StackFits /\ stack \in Seq(Frames) /\ subs \in Seq(Subs) /\ rev \in Nat
      /\ IsInjective(subs)
  BY DEF AInv, Typed, StackFits
<1>3. frame \in Frames /\ frame = stack[1] /\ 1 \in DOMAIN stack
  BY <1>1, <1>2, Popped
<1>4. frame.todo \in Seq(Keys) /\ IsInjective(frame.todo)
  BY <1>2, <1>3 DEF Frames, StackFits, FrameFits
<1>5. /\ k \in Keys /\ Tail(frame.todo) \in Seq(Keys) /\ IsInjective(Tail(frame.todo))
      /\ Range(frame.todo) = {k} \cup Range(Tail(frame.todo))
  BY <1>1, <1>4, QueueHead
<1>6. Now(k) \in AllSnapshots
  BY <1>2, <1>5, NowIs
<1>7. /\ q \in Seq(Subs) /\ IsInjective(q)
      /\ Range(q) = Range(subs) \cap {s \in Subs : Concerns(s, k, observed[k], Now(k))}
  BY <1>2, ThoseAre
<1>8. Range(subs) \subseteq Subs
  BY <1>2, RangeOfSeq
<1>9. Range(q) = {s \in Range(subs) : Concerns(s, k, observed[k], Now(k))}
  BY <1>7, <1>8
<1> HIDE DEF k, q, frame
<1>10. rev + 1 \in Nat /\ k \in Keys \cup {NoKey} /\ frame.calling \in BOOLEAN
  BY <1>2, <1>3, <1>5 DEF Frames
<1>11. f \in Frames
  BY <1>3, <1>5, <1>6, <1>7, <1>10 DEF Frames
<1>12. /\ f.todo = Tail(frame.todo) /\ f.key = k /\ f.snap = Now(k) /\ f.rev = rev + 1
       /\ f.queue = q
  BY <1>3 DEF Frames
<1> HIDE DEF f
<1>13. /\ stack' \in Seq(Frames) /\ Len(stack') = Len(stack) /\ stack' # <<>>
       /\ DOMAIN stack' = DOMAIN stack /\ DOMAIN stack = 1..Len(stack) /\ Len(stack) \in Nat
       /\ stack'[1] = f /\ \A i \in DOMAIN stack : i # 1 => stack'[i] = stack[i]
  BY <1>1, <1>2, <1>11, Replaced
<1>14. Range(stack[1].queue) = {} /\ Range(stack[1].todo) = {k} \cup Range(f.todo)
  BY <1>1, <1>3, <1>5, <1>12, EmptyQueue
<1>15. Looks(k, f)
  BY <1>1, <1>3, <1>5, <1>7, <1>9, <1>12, <1>13, <1>14 DEF Looks
<1> QED
  BY <1>5, <1>11, <1>15

LEMMA LooksKeeps ==
  ASSUME AInv, NEW k \in Keys, NEW f \in Frames, Looks(k, f), UNCHANGED <<subs, told>>
  PROVE  StackFits' /\ WatchedObserved' /\ NewestKnown'
<1>1. /\ 1 \in DOMAIN stack /\ Range(stack[1].queue) = {}
      /\ f.key = k /\ f.snap = Now(k) /\ f.rev = rev + 1 /\ rev' = rev + 1
      /\ IsInjective(f.todo) /\ IsInjective(f.queue)
      /\ Range(f.queue) = {s \in Range(subs) : Concerns(s, k, observed[k], Now(k))}
      /\ DOMAIN stack' = DOMAIN stack /\ DOMAIN stack = 1..Len(stack) /\ Len(stack) \in Nat
      /\ stack'[1] = f /\ \A i \in DOMAIN stack : i # 1 => stack'[i] = stack[i]
      /\ subs' = subs /\ told' = told
  BY DEF Looks
<1>2. /\ Typed /\ StackFits /\ WatchedObserved /\ NewestKnown /\ rev \in Nat
      /\ Now(k) # Unobserved /\ Range(subs) \subseteq Subs
  BY NowIs, RangeOfSeq DEF AInv, Typed
<1>3. observed'[k] = Now(k) /\ \A j \in Keys : j # k => observed'[j] = observed[j]
  BY <1>2 DEF Looks, Typed
<1>4. \A s \in Subs, j \in Keys : told[s][j] \in Told
  BY <1>2 DEF Typed
<1>5. \A s \in Subs, j \in Keys : told[s][j].rev \in Nat /\ told[s][j].rev <= rev
  BY <1>2, <1>4 DEF StackFits, Told
<1>6. \A i \in DOMAIN stack : stack[i] \in Frames
  BY <1>1, <1>2, ElementOfSeq DEF Typed
<1>7. \A i \in DOMAIN stack : stack[i].rev \in Nat /\ stack[i].rev <= rev
  BY <1>2, <1>6 DEF Frames, StackFits, FrameFits
<1>8. StackFits'
  <2>1. \A s \in Subs, j \in Keys : told'[s][j].rev <= rev'
    BY <1>1, <1>2, <1>5
  <2>2. ASSUME NEW i \in DOMAIN stack'
        PROVE  FrameFits(stack[i])'
    <3>1. CASE i = 1
      <4>1. ASSUME NEW s \in Range(f.queue)
            PROVE  f.key \in Keys /\ told[s][f.key].rev # f.rev
        <5>1. told[s][k].rev \in Nat /\ told[s][k].rev <= rev
          BY <1>1, <1>2, <1>5
        <5> QED
          BY <1>1, <1>2, <5>1
      <4> QED
        BY <1>1, <1>2, <3>1, <4>1 DEF FrameFits
    <3>2. CASE i # 1
      <4>1. FrameFits(stack[i]) /\ stack'[i] = stack[i]
        BY <1>1, <1>2, <3>2 DEF StackFits
      <4>2. stack[i].rev <= rev'
        BY <1>1, <1>2, <1>7
      <4> QED
        BY <1>1, <4>1, <4>2 DEF FrameFits
    <3> QED
      BY <3>1, <3>2
  <2>3. ASSUME NEW i \in DOMAIN stack', NEW j \in DOMAIN stack', i < j, Range(stack'[i].queue) # {}
        PROVE  stack'[j].rev < stack'[i].rev
    <3>1. i \in DOMAIN stack /\ j \in DOMAIN stack /\ j # 1
      BY <1>1, <2>3
    <3>2. stack'[j] = stack[j] /\ stack[j].rev \in Nat /\ stack[j].rev <= rev
      BY <1>1, <1>7, <3>1
    <3>3. CASE i = 1
      BY <1>1, <1>2, <3>2, <3>3
    <3>4. CASE i # 1
      <4>1. stack'[i] = stack[i]
        BY <1>1, <3>1, <3>4
      <4> QED
        BY <1>2, <2>3, <3>1, <3>2, <4>1 DEF StackFits
    <3> QED
      BY <3>3, <3>4
  <2>4. IsInjective(subs)'
    BY <1>1, <1>2 DEF StackFits
  <2> QED
    BY <2>1, <2>2, <2>3, <2>4 DEF StackFits
<1>9. WatchedObserved'
  <2>1. ASSUME NEW s \in Range(subs) \cap FeedSubs, NEW j \in Watched(s, NoConfig)
        PROVE  observed'[j] # Unobserved
    <3>1. observed[j] # Unobserved
      BY <1>2 DEF WatchedObserved
    <3>2. observed'[j] = (IF j = k THEN Now(k) ELSE observed[j]) \/ j \notin Keys
      BY <1>3
    <3>3. j \in Keys
      BY ApiConstants DEF Watched, FeedSubs
    <3> QED
      BY <1>2, <3>1, <3>2, <3>3
  <2>2. ASSUME NEW j \in Keys, observed'[j] = Unobserved
        PROVE  /\ j # k /\ observed[j] = Unobserved
               /\ \A s \in Subs : told'[s][j].snap = Unobserved
               /\ \A i \in DOMAIN stack' : stack'[i].key = j => Range(stack'[i].queue) = {}
    <3>1. j # k /\ observed[j] = Unobserved
      BY <1>2, <1>3, <2>2
    <3>2. /\ \A s \in Subs : told[s][j].snap = Unobserved
          /\ \A i \in DOMAIN stack : stack[i].key = j => Range(stack[i].queue) = {}
      BY <1>2, <3>1 DEF WatchedObserved
    <3>3. ASSUME NEW i \in DOMAIN stack', stack'[i].key = j
          PROVE  Range(stack'[i].queue) = {}
      <4>1. CASE i = 1
        BY <1>1, <3>1, <3>3, <4>1
      <4>2. CASE i # 1
        BY <1>1, <3>2, <3>3, <4>2
      <4> QED
        BY <4>1, <4>2
    <3> QED
      BY <1>1, <3>1, <3>2, <3>3
  <2> QED
    BY <1>1, <2>1, <2>2 DEF WatchedObserved
<1>10. ASSUME NEW s \in Range(subs), NEW j \in Keys
       PROVE  /\ (\A i \in DOMAIN stack' : ~Newer(stack'[i], s, j, told[s][j]))
                   => Knows(s, j, told[s][j].snap, observed'[j])
              /\ \A i \in DOMAIN stack' :
                   /\ Newer(stack'[i], s, j, told[s][j])
                   /\ \A n \in DOMAIN stack' : n < i => ~Holds(stack'[n], s, j)
                   => Knows(s, j, stack'[i].snap, observed'[j])
  <2>1. /\ (\A i \in DOMAIN stack : ~Newer(stack[i], s, j, told[s][j]))
             => Knows(s, j, told[s][j].snap, observed[j])
        /\ \A i \in DOMAIN stack :
             /\ Newer(stack[i], s, j, told[s][j])
             /\ \A n \in DOMAIN stack : n < i => ~Holds(stack[n], s, j)
             => Knows(s, j, stack[i].snap, observed[j])
    BY <1>2 DEF NewestKnown
  <2>2. ~Holds(stack[1], s, j)
    BY <1>1 DEF Holds
  <2>3. CASE ~Holds(f, s, j)
    <3>1. \A i \in DOMAIN stack : Holds(stack'[i], s, j) <=> Holds(stack[i], s, j)
      BY <1>1, <2>2, <2>3
    <3>2. \A i \in DOMAIN stack : Holds(stack[i], s, j) => stack'[i] = stack[i]
      BY <1>1, <2>2
    <3>3. \A v : Knows(s, j, v, observed[j]) => Knows(s, j, v, observed'[j])
      <4>1. CASE j # k
        BY <1>3, <4>1
      <4>2. CASE j = k
        <5>1. ~Concerns(s, k, observed[k], Now(k))
          BY <1>1, <2>3, <4>2 DEF Holds
        <5> QED
          BY <1>3, <4>2, <5>1, UnconcernedKnows
      <4> QED
        BY <4>1, <4>2
    <3> QED
      BY <1>1, <2>1, <3>1, <3>2, <3>3 DEF Newer
  <2>4. CASE Holds(f, s, j)
    <3>1. j = k /\ Newer(f, s, j, told[s][j])
      <4>1. told[s][j].rev \in Nat /\ told[s][j].rev <= rev
        BY <1>2, <1>5
      <4> QED
        BY <1>1, <1>2, <2>4, <4>1 DEF Newer, Holds
    <3>2. Knows(s, j, f.snap, observed'[j])
      BY <1>1, <1>3, <3>1, KnowsItself
    <3>3. \A i \in DOMAIN stack' : i = 1 \/ 1 < i
      BY <1>1
    <3> QED
      BY <1>1, <2>4, <3>1, <3>2, <3>3
  <2> QED
    BY <2>3, <2>4
<1>11. NewestKnown'
  BY <1>1, <1>10 DEF NewestKnown
<1> QED
  BY <1>8, <1>9, <1>11


(* ---------------------------------------------------------------------- *)
(* Telling one subscriber *)

Tells(s, k, f) ==
  /\ 1 \in DOMAIN stack /\ s \in Subs /\ k \in Keys
  /\ stack[1].key = k /\ Range(stack[1].queue) = {s} \cup Range(f.queue)
  /\ s \notin Range(f.queue) /\ IsInjective(f.queue)
  /\ f.todo = stack[1].todo /\ f.key = k /\ f.snap = stack[1].snap /\ f.rev = stack[1].rev
  /\ \/ told[s][k].rev > f.rev /\ told' = told
     \/ ~(told[s][k].rev > f.rev) /\ told' = [told EXCEPT ![s][k] = [snap |-> f.snap, rev |-> f.rev]]
  /\ stack' \in Seq(Frames) /\ Len(stack') = Len(stack) /\ DOMAIN stack' = DOMAIN stack
  /\ stack # <<>> /\ stack' # <<>> /\ DOMAIN stack = 1..Len(stack) /\ Len(stack) \in Nat
  /\ stack'[1] = f /\ \A i \in DOMAIN stack : i # 1 => stack'[i] = stack[i]

LEMMA DeliverTells ==
  ASSUME AInv, Deliver
  PROVE  \E s \in Subs, k \in Keys, f \in Frames : Tells(s, k, f)
<1> DEFINE frame == Head(stack)
           s == Head(frame.queue)
           k == frame.key
           f == [frame EXCEPT !.queue = Tail(@), !.calling = TRUE]
<1>1. /\ stack # <<>> /\ frame.queue # <<>>
      /\ told' = IF told[s][k].rev > frame.rev THEN told
                 ELSE [told EXCEPT ![s][k] = [snap |-> frame.snap, rev |-> frame.rev]]
      /\ stack' = <<f>> \o Tail(stack)
  BY DEF Deliver, Quiet
<1>2. Typed /\ StackFits /\ stack \in Seq(Frames)
  BY DEF AInv, Typed
<1>3. frame \in Frames /\ frame = stack[1] /\ 1 \in DOMAIN stack
  BY <1>1, <1>2, Popped
<1>4. frame.queue \in Seq(Subs) /\ FrameFits(frame)
  BY <1>2, <1>3 DEF Frames, StackFits
<1>5. /\ s \in Subs /\ s \in Range(frame.queue) /\ Tail(frame.queue) \in Seq(Subs)
      /\ Range(frame.queue) = {s} \cup Range(Tail(frame.queue))
      /\ s \notin Range(Tail(frame.queue)) /\ IsInjective(Tail(frame.queue))
  BY <1>1, <1>4, QueueHead DEF FrameFits
<1>6. k \in Keys
  BY <1>4, <1>5 DEF FrameFits
<1> HIDE DEF frame
<1>7. f \in Frames
  BY <1>3, <1>5 DEF Frames
<1>8. /\ f.todo = frame.todo /\ f.key = k /\ f.snap = frame.snap /\ f.rev = frame.rev
      /\ f.queue = Tail(frame.queue)
  BY <1>3 DEF Frames
<1> HIDE DEF s, f
<1>9. /\ stack' \in Seq(Frames) /\ Len(stack') = Len(stack) /\ stack' # <<>>
      /\ DOMAIN stack' = DOMAIN stack /\ DOMAIN stack = 1..Len(stack) /\ Len(stack) \in Nat
      /\ stack'[1] = f /\ \A i \in DOMAIN stack : i # 1 => stack'[i] = stack[i]
  BY <1>1, <1>2, <1>7, Replaced
<1>10. Tells(s, k, f)
  BY <1>1, <1>3, <1>5, <1>6, <1>8, <1>9 DEF Tells
<1> QED
  BY <1>5, <1>6, <1>7, <1>10

LEMMA ToldAfter ==
  ASSUME Typed, NEW s \in Subs, NEW k \in Keys, NEW f \in Frames, Tells(s, k, f)
  PROVE  /\ told' \in [Subs -> [Keys -> Told]]
         /\ \A t \in Subs, j \in Keys : t # s \/ j # k => told'[t][j] = told[t][j]
         /\ told[s][k].rev > f.rev => told'[s][k] = told[s][k]
         /\ ~(told[s][k].rev > f.rev) => told'[s][k] = [snap |-> f.snap, rev |-> f.rev]
<1> DEFINE update == [snap |-> f.snap, rev |-> f.rev]
<1>1. told \in [Subs -> [Keys -> Told]] /\ update \in Told
  BY DEF Typed, Frames, Told
<1>2. CASE told[s][k].rev > f.rev
  BY <1>1, <1>2 DEF Tells
<1>3. CASE ~(told[s][k].rev > f.rev)
  <2>1. told' = [told EXCEPT ![s][k] = update]
    BY <1>3 DEF Tells
  <2> HIDE DEF update
  <2>2. /\ told' \in [Subs -> [Keys -> Told]] /\ told'[s][k] = update
        /\ \A t \in Subs, j \in Keys : t # s \/ j # k => told'[t][j] = told[t][j]
    BY <1>1, <2>1
  <2> QED
    BY <1>3, <2>2 DEF update
<1> QED
  BY <1>2, <1>3

LEMMA TellsKeeps ==
  ASSUME AInv, NEW s \in Subs, NEW k \in Keys, NEW f \in Frames, Tells(s, k, f),
         UNCHANGED <<subs, observed, rev>>
  PROVE  StackFits' /\ WatchedObserved' /\ NewestKnown'
<1>1. /\ 1 \in DOMAIN stack
      /\ stack[1].key = k /\ Range(stack[1].queue) = {s} \cup Range(f.queue)
      /\ s \notin Range(f.queue) /\ IsInjective(f.queue)
      /\ f.todo = stack[1].todo /\ f.key = k /\ f.snap = stack[1].snap /\ f.rev = stack[1].rev
      /\ DOMAIN stack' = DOMAIN stack /\ DOMAIN stack = 1..Len(stack) /\ Len(stack) \in Nat
      /\ stack'[1] = f /\ \A i \in DOMAIN stack : i # 1 => stack'[i] = stack[i]
      /\ subs' = subs /\ observed' = observed /\ rev' = rev
  BY DEF Tells
<1>2. /\ Typed /\ StackFits /\ WatchedObserved /\ NewestKnown /\ rev \in Nat
      /\ Range(subs) \subseteq Subs
  BY RangeOfSeq DEF AInv, Typed
<1>3. /\ \A t \in Subs, j \in Keys : t # s \/ j # k => told'[t][j] = told[t][j]
      /\ told[s][k].rev > f.rev => told'[s][k] = told[s][k]
      /\ ~(told[s][k].rev > f.rev) => told'[s][k] = [snap |-> f.snap, rev |-> f.rev]
  BY <1>2, ToldAfter
<1>4. \A t \in Subs, j \in Keys : told[t][j].rev \in Nat /\ told[t][j].rev <= rev
  BY <1>2 DEF Typed, Told, StackFits
<1>5. \A i \in DOMAIN stack : stack[i] \in Frames
  BY <1>1, <1>2, ElementOfSeq DEF Typed
<1>6. \A i \in DOMAIN stack : stack[i].rev \in Nat /\ FrameFits(stack[i])
  BY <1>2, <1>5 DEF Frames, StackFits
<1>7. \A i \in DOMAIN stack : i # 1 => stack[i].rev < stack[1].rev
  BY <1>1, <1>2 DEF StackFits
<1>8. told[s][k].rev # f.rev /\ f.rev \in Nat /\ f.rev <= rev
  BY <1>1, <1>6 DEF FrameFits
<1>9. StackFits'
  <2>1. \A t \in Subs, j \in Keys : told'[t][j].rev <= rev'
    BY <1>1, <1>3, <1>4, <1>8
  <2>2. ASSUME NEW i \in DOMAIN stack'
        PROVE  FrameFits(stack[i])'
    <3>1. /\ stack'[i].todo = stack[i].todo /\ stack'[i].key = stack[i].key
          /\ stack'[i].rev = stack[i].rev /\ IsInjective(stack'[i].queue)
          /\ Range(stack'[i].queue) \subseteq Range(stack[i].queue)
          /\ i = 1 => s \notin Range(stack'[i].queue)
      <4>1. CASE i = 1
        BY <1>1, <4>1
      <4>2. CASE i # 1
        BY <1>1, <1>6, <4>2 DEF FrameFits
      <4> QED
        BY <4>1, <4>2
    <3>2. ASSUME NEW t \in Range(stack'[i].queue)
          PROVE  stack'[i].key \in Keys /\ told'[t][stack'[i].key].rev # stack'[i].rev
      <4>1. /\ t \in Range(stack[i].queue) /\ stack[i].key \in Keys
            /\ told[t][stack[i].key].rev # stack[i].rev /\ t \in Subs
        BY <1>1, <1>2, <1>6, <3>1 DEF FrameFits
      <4>2. CASE t # s \/ stack[i].key # k
        BY <1>3, <3>1, <4>1, <4>2
      <4>3. CASE t = s /\ stack[i].key = k
        <5>1. i # 1
          BY <3>1, <4>3
        <5>2. stack[i].rev < f.rev
          BY <1>1, <1>7, <5>1
        <5> QED
          BY <1>1, <1>3, <1>6, <1>8, <3>1, <4>1, <4>3, <5>2
      <4> QED
        BY <4>2, <4>3
    <3>3. FrameFits(stack[i])
      BY <1>1, <1>6
    <3> QED
      BY <1>1, <3>1, <3>2, <3>3 DEF FrameFits
  <2>3. ASSUME NEW i \in DOMAIN stack', NEW j \in DOMAIN stack', i < j, Range(stack'[i].queue) # {}
        PROVE  stack'[j].rev < stack'[i].rev
    <3>1. /\ stack'[i].rev = stack[i].rev /\ stack'[j].rev = stack[j].rev
          /\ Range(stack[i].queue) # {}
      BY <1>1, <2>3
    <3> QED
      BY <1>1, <1>2, <2>3, <3>1 DEF StackFits
  <2>4. IsInjective(subs)'
    BY <1>1, <1>2 DEF StackFits
  <2> QED
    BY <2>1, <2>2, <2>3, <2>4 DEF StackFits
<1>10. WatchedObserved'
  <2>1. ASSUME NEW j \in Keys, observed[j] = Unobserved
        PROVE  /\ \A t \in Subs : told'[t][j].snap = Unobserved
               /\ \A i \in DOMAIN stack' : stack'[i].key = j => Range(stack'[i].queue) = {}
    <3>1. /\ \A t \in Subs : told[t][j].snap = Unobserved
          /\ \A i \in DOMAIN stack : stack[i].key = j => Range(stack[i].queue) = {}
      BY <1>2, <2>1 DEF WatchedObserved
    <3>2. j # k
      BY <1>1, <3>1
    <3>3. \A t \in Subs : told'[t][j].snap = Unobserved
      BY <1>3, <3>1, <3>2
    <3>4. ASSUME NEW i \in DOMAIN stack', stack'[i].key = j
          PROVE  Range(stack'[i].queue) = {}
      <4>1. CASE i = 1
        BY <1>1, <3>2, <3>4, <4>1
      <4>2. CASE i # 1
        BY <1>1, <3>1, <3>4, <4>2
      <4> QED
        BY <4>1, <4>2
    <3> QED
      BY <3>3, <3>4
  <2> QED
    BY <1>1, <1>2, <2>1 DEF WatchedObserved
<1>11. ASSUME NEW t \in Range(subs), NEW j \in Keys
       PROVE  /\ (\A i \in DOMAIN stack' : ~Newer(stack'[i], t, j, told'[t][j]))
                   => Knows(t, j, told'[t][j].snap, observed[j])
              /\ \A i \in DOMAIN stack' :
                   /\ Newer(stack'[i], t, j, told'[t][j])
                   /\ \A n \in DOMAIN stack' : n < i => ~Holds(stack'[n], t, j)
                   => Knows(t, j, stack'[i].snap, observed[j])
  <2>1. /\ (\A i \in DOMAIN stack : ~Newer(stack[i], t, j, told[t][j]))
             => Knows(t, j, told[t][j].snap, observed[j])
        /\ \A i \in DOMAIN stack :
             /\ Newer(stack[i], t, j, told[t][j])
             /\ \A n \in DOMAIN stack : n < i => ~Holds(stack[n], t, j)
             => Knows(t, j, stack[i].snap, observed[j])
    BY <1>2 DEF NewestKnown
  <2>2. CASE t # s \/ j # k
    <3>1. told'[t][j] = told[t][j]
      BY <1>2, <1>3, <2>2
    <3>2. \A i \in DOMAIN stack : /\ Holds(stack'[i], t, j) <=> Holds(stack[i], t, j)
                                  /\ stack'[i].snap = stack[i].snap
                                  /\ stack'[i].rev = stack[i].rev
      <4> TAKE i \in DOMAIN stack
      <4>1. CASE i = 1
        BY <1>1, <2>2, <4>1 DEF Holds
      <4>2. CASE i # 1
        BY <1>1, <4>2
      <4> QED
        BY <4>1, <4>2
    <3> QED
      BY <1>1, <2>1, <3>1, <3>2 DEF Newer
  <2>3. CASE t = s /\ j = k
    <3>1. ~Holds(stack'[1], t, j) /\ Holds(stack[1], t, j)
      BY <1>1, <2>3 DEF Holds
    <3>2. CASE told[s][k].rev > f.rev
      <4>1. told'[t][j] = told[t][j]
        BY <1>3, <2>3, <3>2
      <4>2. \A i \in DOMAIN stack : /\ ~Newer(stack[i], t, j, told[t][j])
                                    /\ ~Newer(stack'[i], t, j, told[t][j])
        <5> TAKE i \in DOMAIN stack
        <5>1. ~(stack[i].rev > told[t][j].rev)
          BY <1>1, <1>4, <1>6, <1>7, <1>8, <2>3, <3>2
        <5>2. stack'[i].rev = stack[i].rev
          BY <1>1
        <5> QED
          BY <5>1, <5>2 DEF Newer
      <4> QED
        BY <1>1, <2>1, <4>1, <4>2
    <3>3. CASE ~(told[s][k].rev > f.rev)
      <4>1. told'[t][j] = [snap |-> f.snap, rev |-> f.rev]
        BY <1>3, <2>3, <3>3
      <4>2. Newer(stack[1], t, j, told[t][j])
        BY <1>1, <1>4, <1>8, <2>3, <3>1, <3>3 DEF Newer
      <4>3. Knows(t, j, f.snap, observed[j])
        <5>1. \A n \in DOMAIN stack : ~(n < 1)
          BY <1>1
        <5> QED
          BY <1>1, <2>1, <4>2, <5>1
      <4>4. \A i \in DOMAIN stack : ~Newer(stack'[i], t, j, told'[t][j])
        <5> TAKE i \in DOMAIN stack
        <5>1. CASE i = 1
          BY <3>1, <5>1 DEF Newer
        <5>2. CASE i # 1
          <6>1. stack'[i].rev < f.rev /\ stack'[i].rev \in Nat
            BY <1>1, <1>6, <1>7, <5>2
          <6> QED
            BY <1>8, <4>1, <6>1 DEF Newer
        <5> QED
          BY <5>1, <5>2
      <4> QED
        BY <1>1, <4>1, <4>3, <4>4
    <3> QED
      BY <3>2, <3>3
  <2> QED
    BY <2>2, <2>3
<1>12. NewestKnown'
  BY <1>1, <1>11 DEF NewestKnown
<1> QED
  BY <1>9, <1>10, <1>12


(* ---------------------------------------------------------------------- *)
(* Subscriptions that come and go *)

LEMMA SubscribeKeeps ==
  ASSUME AInv, NEW s0 \in Subs, Subscribe(s0)
  PROVE  /\ StackFits' /\ WatchedObserved' /\ NewestKnown'
         /\ observed' \in [Keys -> AllSnapshots] /\ subs' \in Seq(Subs)
         /\ told' \in [Subs -> [Keys -> Told]]
         /\ \A k \in Keys : observed'[k] \in {observed[k], Now(k)}
<1> DEFINE base == [k \in Keys |-> IF k \in Watched(s0, active) /\ observed[k] = Unobserved
                                   THEN Capture(active, world, k) ELSE observed[k]]
           first == [k \in Keys |-> [snap |-> base[k], rev |-> rev]]
<1>1. /\ s0 \notin Range(subs) /\ observed' = base
      /\ told' = [told EXCEPT ![s0] = first]
      /\ subs' = Append(subs, s0) /\ stack' = stack /\ rev' = rev
  BY DEF Subscribe, Enrolled
<1>2. /\ Typed /\ StackFits /\ WatchedObserved /\ NewestKnown /\ rev \in Nat
      /\ subs \in Seq(Subs) /\ Range(subs) \subseteq Subs
  BY RangeOfSeq DEF AInv, Typed
<1>3. \A k \in Keys : base[k] = IF k \in Watched(s0, active) /\ observed[k] = Unobserved
                                THEN Now(k) ELSE observed[k]
  BY DEF Now
<1>4. \A k \in Keys : Now(k) \in AllSnapshots /\ Now(k) # Unobserved /\ observed[k] \in AllSnapshots
  BY <1>2, NowIs
<1>5. base \in [Keys -> AllSnapshots]
  <2>1. \A k \in Keys : base[k] \in AllSnapshots
    BY <1>3, <1>4
  <2>2. base = [k \in Keys |-> base[k]]
    OBVIOUS
  <2> HIDE DEF base
  <2> QED
    BY <2>1, <2>2
<1> HIDE DEF base
<1>6. first \in [Keys -> Told] /\ \A k \in Keys : first[k].snap = base[k] /\ first[k].rev = rev
  BY <1>2, <1>5 DEF Told
<1> HIDE DEF first
<1>7. /\ told' \in [Subs -> [Keys -> Told]] /\ told'[s0] = first
      /\ \A s \in Subs : s # s0 => told'[s] = told[s]
  BY <1>1, <1>2, <1>6 DEF Typed
<1>8. /\ subs' \in Seq(Subs) /\ Range(subs') = Range(subs) \cup {s0}
      /\ IsInjective(subs) => IsInjective(subs')
  BY <1>1, <1>2, AppendRange
<1>9. \A s \in Range(subs) : s # s0 /\ s \in Subs /\ told'[s] = told[s]
  BY <1>1, <1>2, <1>7
<1>10. StackFits'
  <2>1. \A s \in Subs, k \in Keys : told'[s][k].rev <= rev'
    BY <1>1, <1>2, <1>6, <1>7 DEF StackFits
  <2>2. ASSUME NEW i \in DOMAIN stack
        PROVE  FrameFits(stack[i])'
    <3>1. FrameFits(stack[i])
      BY <1>2, <2>2 DEF StackFits
    <3> QED
      BY <1>1, <1>8, <1>9, <3>1 DEF FrameFits
  <2> QED
    BY <1>1, <1>2, <1>8, <2>1, <2>2 DEF StackFits
<1>11. ASSUME NEW k \in Keys, base[k] = Unobserved
       PROVE  observed[k] = Unobserved
  BY <1>3, <1>4, <1>11
<1>12. WatchedObserved'
  <2>1. ASSUME NEW s \in Range(subs') \cap FeedSubs, NEW k \in Watched(s, NoConfig)
        PROVE  base[k] # Unobserved
    <3>1. k \in Keys
      BY <1>2, <1>8, ApiConstants DEF Watched, FeedSubs
    <3>2. CASE s = s0
      <4>1. k \in Watched(s0, active)
        BY <2>1, <3>2 DEF Watched, FeedSubs
      <4> QED
        BY <1>3, <1>4, <3>1, <4>1
    <3>3. CASE s \in Range(subs)
      BY <1>2, <1>11, <3>1, <3>3 DEF WatchedObserved
    <3> QED
      BY <1>8, <3>2, <3>3
  <2>2. ASSUME NEW k \in Keys, base[k] = Unobserved
        PROVE  /\ \A s \in Subs : told'[s][k].snap = Unobserved
               /\ \A i \in DOMAIN stack : stack[i].key = k => Range(stack[i].queue) = {}
    <3>1. /\ \A s \in Subs : told[s][k].snap = Unobserved
          /\ \A i \in DOMAIN stack : stack[i].key = k => Range(stack[i].queue) = {}
      BY <1>2, <1>11, <2>2 DEF WatchedObserved
    <3>2. ASSUME NEW s \in Subs
          PROVE  told'[s][k].snap = Unobserved
      <4>1. CASE s = s0
        BY <1>6, <1>7, <2>2, <4>1
      <4>2. CASE s # s0
        BY <1>7, <3>1, <4>2
      <4> QED
        BY <4>1, <4>2
    <3> QED
      BY <3>1, <3>2
  <2> QED
    BY <1>1, <2>1, <2>2 DEF WatchedObserved
<1>13. ASSUME NEW s \in Range(subs'), NEW k \in Keys
       PROVE  /\ (\A i \in DOMAIN stack : ~Newer(stack[i], s, k, told'[s][k]))
                   => Knows(s, k, told'[s][k].snap, base[k])
              /\ \A i \in DOMAIN stack :
                   /\ Newer(stack[i], s, k, told'[s][k])
                   /\ \A j \in DOMAIN stack : j < i => ~Holds(stack[j], s, k)
                   => Knows(s, k, stack[i].snap, base[k])
  <2>1. CASE s = s0
    <3>1. \A i \in DOMAIN stack : ~Holds(stack[i], s, k)
      BY <1>1, <1>2, <2>1 DEF StackFits, FrameFits, Holds
    <3>2. Knows(s, k, told'[s][k].snap, base[k])
      BY <1>6, <1>7, <2>1, KnowsItself
    <3> QED
      BY <3>1, <3>2 DEF Newer
  <2>2. CASE s \in Range(subs)
    <3>1. told'[s] = told[s]
      BY <1>9, <2>2
    <3>2. /\ (\A i \in DOMAIN stack : ~Newer(stack[i], s, k, told[s][k]))
               => Knows(s, k, told[s][k].snap, observed[k])
          /\ \A i \in DOMAIN stack :
               /\ Newer(stack[i], s, k, told[s][k])
               /\ \A j \in DOMAIN stack : j < i => ~Holds(stack[j], s, k)
               => Knows(s, k, stack[i].snap, observed[k])
      BY <1>2, <2>2 DEF NewestKnown
    <3>3. CASE base[k] = observed[k]
      BY <3>1, <3>2, <3>3
    <3>4. CASE base[k] # observed[k]
      <4>1. observed[k] = Unobserved
        BY <1>3, <3>4
      <4>2. /\ told[s][k].snap = Unobserved
            /\ \A i \in DOMAIN stack : ~Holds(stack[i], s, k)
        BY <1>2, <2>2, <4>1 DEF WatchedObserved, Holds
      <4>3. s \in FeedSubs => k \notin Watched(s, NoConfig)
        BY <1>2, <2>2, <4>1 DEF WatchedObserved
      <4>4. Knows(s, k, Unobserved, base[k])
        BY <4>3, PartElsewhere DEF Knows
      <4> QED
        BY <3>1, <4>2, <4>4 DEF Newer
    <3> QED
      BY <3>3, <3>4
  <2> QED
    BY <1>8, <2>1, <2>2
<1>14. NewestKnown'
  BY <1>1, <1>13 DEF NewestKnown
<1>15. \A k \in Keys : observed'[k] \in {observed[k], Now(k)}
  BY <1>1, <1>3
<1> QED
  BY <1>1, <1>5, <1>7, <1>8, <1>10, <1>12, <1>14, <1>15

LEMMA FollowsItself ==
  ASSUME StackFits, NEW i \in DOMAIN stack
  PROVE  Follows(stack[i], stack[i], Range(subs))
<1>1. FrameFits(stack[i])
  BY DEF StackFits
<1> QED
  BY <1>1 DEF FrameFits, Follows

LEMMA WithoutIs ==
  ASSUME Typed, StackFits, NEW gone
  PROVE  /\ Without(gone) \in Seq(Frames) /\ Len(Without(gone)) = Len(stack)
         /\ DOMAIN Without(gone) = DOMAIN stack /\ DOMAIN stack = 1..Len(stack)
         /\ \A i \in DOMAIN stack : Follows(Without(gone)[i], stack[i], Subs \ gone)
<1>1. Len(stack) \in Nat /\ DOMAIN stack = 1..Len(stack)
  BY LenProperties DEF Typed
<1>2. ASSUME NEW i \in DOMAIN stack
      PROVE  /\ [stack[i] EXCEPT !.queue = Those(@, Subs \ gone)] \in Frames
             /\ Follows([stack[i] EXCEPT !.queue = Those(@, Subs \ gone)], stack[i], Subs \ gone)
  <2> DEFINE frame == stack[i]
             q == Those(frame.queue, Subs \ gone)
             f == [frame EXCEPT !.queue = q]
  <2>1. frame \in Frames /\ FrameFits(frame)
    BY <1>1, ElementOfSeq DEF Typed, StackFits
  <2> HIDE DEF frame
  <2>2. /\ q \in Seq(Subs) /\ Range(q) = Range(frame.queue) \cap (Subs \ gone)
        /\ IsInjective(q)
    BY <2>1, ThoseAre DEF Frames, FrameFits
  <2> HIDE DEF q
  <2>3. f \in Frames
    BY <2>1, <2>2 DEF Frames
  <2>4. /\ f.todo = frame.todo /\ f.key = frame.key /\ f.snap = frame.snap /\ f.rev = frame.rev
        /\ f.queue = q
    BY <2>1 DEF Frames
  <2> HIDE DEF f
  <2>5. Follows(f, frame, Subs \ gone)
    BY <2>2, <2>4 DEF Follows
  <2> QED
    BY <2>3, <2>5 DEF frame, q, f
<1>3. Without(gone) = [i \in 1..Len(stack) |-> [stack[i] EXCEPT !.queue = Those(@, Subs \ gone)]]
  BY <1>1 DEF Without
<1>4. \A i \in 1..Len(stack) : Without(gone)[i] = [stack[i] EXCEPT !.queue = Those(@, Subs \ gone)]
  BY <1>3
<1>5. \A i \in DOMAIN stack : /\ Without(gone)[i] \in Frames
                              /\ Follows(Without(gone)[i], stack[i], Subs \ gone)
  BY <1>1, <1>2, <1>4
<1>6. DOMAIN Without(gone) = 1..Len(stack)
  BY <1>3
<1>7. Without(gone) = [i \in 1..Len(stack) |-> Without(gone)[i]]
  BY <1>3, <1>4
<1>8. Without(gone) \in Seq(Frames) /\ Len(Without(gone)) = Len(stack)
  <2> DEFINE W == Without(gone)
  <2> HIDE DEF W
  <2>1. W = [i \in 1..Len(stack) |-> W[i]] /\ \A i \in 1..Len(stack) : W[i] \in Frames
    BY <1>1, <1>5, <1>7 DEF W
  <2>2. W \in [1..Len(stack) -> Frames]
    BY <2>1
  <2>3. W \in Seq(Frames)
    BY <1>1, <2>2, SeqDef
  <2>4. Len(W) = Len(stack)
    BY <1>1, <2>2, <2>3, LenProperties
  <2> QED
    BY <2>3, <2>4 DEF W
<1> QED
  BY <1>1, <1>5, <1>6, <1>8

(* ---------------------------------------------------------------------- *)
(* Every step keeps the invariant *)

(* A dispatch begins (or, where the API does not listen, nothing does).    *)
LEMMA PushKeeps ==
  ASSUME AInv, NEW c,
         stack' = stack \/ stack' = <<Frame(c)>> \o stack,
         UNCHANGED <<observed, subs, told, rev>>
  PROVE  /\ StackFits' /\ WatchedObserved' /\ NewestKnown'
         /\ stack' \in Seq(Frames) /\ Len(stack) \in Nat
         /\ Len(stack') \in {Len(stack), Len(stack) + 1} /\ (stack' # stack => stack' # <<>>)
<1>1. Typed /\ StackFits /\ stack \in Seq(Frames) /\ rev \in Nat /\ Range(subs) \subseteq Subs
  BY RangeOfSeq DEF AInv, Typed
<1>2. Len(stack) \in Nat /\ DOMAIN stack = 1..Len(stack) /\ IsInjective(subs)
  BY <1>1, LenProperties DEF StackFits
<1>3. \A i \in DOMAIN stack : Follows(stack[i], stack[i], Range(subs))
  BY <1>1, FollowsItself
<1>4. CASE stack' = stack
  <2>1. DOMAIN stack \subseteq Nat \ {0}
    BY <1>2
  <2>2. \A i \in DOMAIN stack : i + 0 \in DOMAIN stack /\ Follows(stack[i], stack[i + 0], Range(subs))
                               /\ i - 0 \in DOMAIN stack /\ Follows(stack[i - 0], stack[i], Range(subs))
    BY <1>2, <1>3
  <2>3. StackFits' /\ WatchedObserved' /\ NewestKnown'
    BY <1>1, <1>2, <1>4, <2>1, <2>2, Carried
  <2> QED
    BY <1>1, <1>2, <1>4, <2>3
<1>5. CASE stack' = <<Frame(c)>> \o stack
  <2>1. /\ Frame(c) \in Frames /\ Frame(c).queue = <<>> /\ Frame(c).rev = 0
        /\ IsInjective(Frame(c).todo)
    BY FrameIs
  <2>2. /\ stack' \in Seq(Frames) /\ stack' # <<>> /\ Len(stack') = Len(stack) + 1
        /\ stack'[1] = Frame(c) /\ DOMAIN stack' = 1..(Len(stack) + 1)
        /\ \A i \in DOMAIN stack : i + 1 \in DOMAIN stack' /\ stack'[i + 1] = stack[i]
        /\ \A i \in DOMAIN stack' : i = 1 \/ i - 1 \in DOMAIN stack
    BY <1>1, <1>5, <2>1, Pushed
  <2>3. DOMAIN stack \subseteq Nat /\ DOMAIN stack' \subseteq Nat \ {0}
    BY <1>2, <2>2
  <2> DEFINE m == 0 - 1
  <2>7. m \in Int /\ m = -1
    OBVIOUS
  <2> HIDE DEF m
  <2>4. ASSUME NEW i \in DOMAIN stack'
        PROVE  \/ /\ i = 1 /\ Range(stack'[i].queue) = {} /\ IsInjective(stack'[i].queue)
                  /\ IsInjective(stack'[i].todo) /\ stack'[i].rev <= rev
               \/ i + m \in DOMAIN stack /\ Follows(stack'[i], stack[i + m], Range(subs))
    <3>1. CASE i = 1
      BY <1>1, <2>1, <2>2, <3>1, EmptyQueue
    <3>2. CASE i # 1
      <4>1. i - 1 \in DOMAIN stack /\ i + m = i - 1 /\ (i - 1) + 1 = i
        BY <2>2, <2>3, <2>7, <3>2
      <4>2. stack'[(i - 1) + 1] = stack[i - 1]
        BY <2>2, <4>1
      <4> QED
        BY <1>3, <4>1, <4>2
    <3> QED
      BY <3>1, <3>2
  <2>5. ASSUME NEW i \in DOMAIN stack
        PROVE  i - m \in DOMAIN stack' /\ Follows(stack'[i - m], stack[i], Range(subs))
    <3>1. i - m = i + 1
      BY <2>3, <2>7
    <3> QED
      BY <1>3, <2>2, <3>1
  <2>6. StackFits' /\ WatchedObserved' /\ NewestKnown'
    BY <1>1, <1>2, <2>3, <2>4, <2>5, <2>7, Carried
  <2> QED
    BY <1>2, <2>2, <2>6
<1> QED
  BY <1>4, <1>5

(* What a dispatch begins with: every contract it observes.                *)
LEMMA PushSees ==
  ASSUME AInv, NEW c, stack' = <<Frame(c)>> \o stack, observed' = observed, subs' = subs
  PROVE  Seen'
<1>1. stack \in Seq(Frames) /\ Frame(c) \in Frames
  BY FrameIs DEF AInv, Typed
<1>2. stack'[1] = Frame(c) /\ 1 \in DOMAIN stack'
  <2>1. Len(stack) \in Nat /\ stack'[1] = Frame(c) /\ DOMAIN stack' = 1..(Len(stack) + 1)
    BY <1>1, Pushed, LenProperties
  <2> QED
    BY <2>1
<1>3. \A k \in Keys : observed[k] # Unobserved => k \in Range(Frame(c).todo)
  BY FrameIs DEF AllWatched
<1> QED
  BY <1>2, <1>3 DEF Seen

LEMMA ActivateKeeps ==
  ASSUME AInv, NEW c \in Configs, NEW w \in Worlds, Activate(c, w)
  PROVE  AInv'
<1>1. /\ stack = <<>> /\ active' = c /\ world' = w
      /\ UNCHANGED <<observed, subs, told, rev, changes, closed>>
  BY DEF Activate, Quiet
<1>2. Typed /\ Depth /\ Listens /\ changes = 0
  BY <1>1 DEF AInv, Depth, Quiet
<1>3. \/ closed /\ stack' = stack /\ attached' = attached
      \/ ~closed /\ stack' = <<Frame(c)>> \o stack /\ attached' = TRUE
  BY DEF Activate, Dispatch
<1>4. /\ StackFits' /\ WatchedObserved' /\ NewestKnown'
      /\ stack' \in Seq(Frames) /\ Len(stack) \in Nat
      /\ Len(stack') \in {Len(stack), Len(stack) + 1} /\ (stack' # stack => stack' # <<>>)
  BY <1>1, <1>3, PushKeeps
<1>5. Typed'
  BY <1>1, <1>2, <1>3, <1>4 DEF Typed
<1>6. Depth'
  <2>1. Len(stack) = 0 /\ changes' = 0
    BY <1>1, <1>2, EmptySeq
  <2>2. Len(stack') \in {0, 1}
    BY <1>4, <2>1
  <2> DEFINE n == Len(stack')
             m == changes'
  <2>3. n <= 1 + m
    <3>1. n \in {0, 1} /\ m = 0
      BY <2>1, <2>2
    <3> HIDE DEF n, m
    <3> QED
      BY <3>1
  <2>4. changes' = 0 /\ Len(stack') <= 1 + changes'
    BY <2>1, <2>3
  <2> QED
    BY <2>4, Zenon DEF Depth
<1>7. Listens'
  BY <1>1, <1>2, <1>3, ApiConstants DEF Listens
<1>8. Seen'
  <2>1. CASE closed
    BY <1>1, <2>1 DEF Seen
  <2>2. CASE ~closed
    BY <1>1, <1>3, <2>2, PushSees
  <2> QED
    BY <2>1, <2>2
<1> QED
  BY <1>4, <1>5, <1>6, <1>7, <1>8 DEF AInv

LEMMA DeactivateKeeps ==
  ASSUME AInv, Deactivate
  PROVE  AInv'
<1>1. /\ stack = <<>> /\ active' = NoConfig
      /\ UNCHANGED <<world, observed, subs, told, rev, changes, closed>>
  BY DEF Deactivate, Quiet
<1>2. Typed /\ Depth /\ Listens /\ changes = 0
  BY <1>1 DEF AInv, Depth, Quiet
<1>3. \/ closed /\ stack' = stack /\ attached' = attached
      \/ ~closed /\ stack' = <<Frame(NoConfig)>> \o stack /\ attached' = FALSE
  BY DEF Deactivate, Dispatch
<1>4. /\ StackFits' /\ WatchedObserved' /\ NewestKnown'
      /\ stack' \in Seq(Frames) /\ Len(stack) \in Nat
      /\ Len(stack') \in {Len(stack), Len(stack) + 1} /\ (stack' # stack => stack' # <<>>)
  BY <1>1, <1>3, PushKeeps
<1>5. Typed'
  BY <1>1, <1>2, <1>3, <1>4 DEF Typed
<1>6. Depth'
  <2>1. Len(stack) = 0 /\ changes' = 0
    BY <1>1, <1>2, EmptySeq
  <2>2. Len(stack') \in {0, 1}
    BY <1>4, <2>1
  <2> DEFINE n == Len(stack')
             m == changes'
  <2>3. n <= 1 + m
    <3>1. n \in {0, 1} /\ m = 0
      BY <2>1, <2>2
    <3> HIDE DEF n, m
    <3> QED
      BY <3>1
  <2>4. changes' = 0 /\ Len(stack') <= 1 + changes'
    BY <2>1, <2>3
  <2> QED
    BY <2>4, Zenon DEF Depth
<1>7. Listens'
  BY <1>1, <1>2, <1>3 DEF Listens
<1>8. Seen'
  <2>1. CASE closed
    BY <1>1, <2>1 DEF Seen
  <2>2. CASE ~closed
    BY <1>1, <1>3, <2>2, PushSees
  <2> QED
    BY <2>1, <2>2
<1> QED
  BY <1>4, <1>5, <1>6, <1>7, <1>8 DEF AInv

LEMMA GraphChangeKeeps ==
  ASSUME AInv, NEW w \in Worlds, GraphChange(w)
  PROVE  AInv'
<1>1. /\ active # NoConfig /\ world' = w
      /\ UNCHANGED <<active, attached, observed, subs, told, rev, closed>>
      /\ changes' = IF Quiet THEN changes ELSE changes + 1
      /\ Quiet \/ changes < MaxChanges
  BY DEF GraphChange
<1>2. Typed /\ Depth /\ Listens /\ changes \in Nat
  BY DEF AInv, Typed
<1>3. \/ ~attached /\ stack' = stack
      \/ attached /\ stack' = <<Frame(active)>> \o stack
  BY DEF GraphChange, Dispatched, Dispatch
<1>4. /\ StackFits' /\ WatchedObserved' /\ NewestKnown'
      /\ stack' \in Seq(Frames) /\ Len(stack) \in Nat
      /\ Len(stack') \in {Len(stack), Len(stack) + 1} /\ (stack' # stack => stack' # <<>>)
  BY <1>1, <1>3, PushKeeps
<1>5. Typed'
  <2>1. changes' \in 0..MaxChanges
    BY <1>1, <1>2, ApiConstants DEF Typed
  <2> QED
    BY <1>1, <1>2, <1>4, <2>1 DEF Typed
<1>6. Depth'
  <2>1. CASE stack = <<>>
    <3>1. Len(stack) = 0 /\ changes' = 0
      BY <1>1, <1>2, <2>1, EmptySeq DEF Depth, Quiet
    <3>2. Len(stack') \in {0, 1}
      BY <1>4, <3>1
    <3> DEFINE n == Len(stack')
               m == changes'
    <3>3. n <= 1 + m
      <4>1. n \in {0, 1} /\ m = 0
        BY <3>1, <3>2
      <4> HIDE DEF n, m
      <4> QED
        BY <4>1
    <3>4. changes' = 0 /\ Len(stack') <= 1 + changes'
      BY <3>1, <3>3
    <3> QED
      BY <3>4, Zenon DEF Depth
  <2>2. CASE stack # <<>>
    BY <1>1, <1>2, <1>4, <2>2 DEF Depth, Quiet
  <2> QED
    BY <2>1, <2>2
<1>7. Listens'
  BY <1>1, <1>2 DEF Listens
<1>8. Seen'
  <2>1. CASE closed
    BY <1>1, <2>1 DEF Seen
  <2>2. CASE ~closed
    BY <1>1, <1>2, <1>3, <2>2, PushSees DEF Listens
  <2> QED
    BY <2>1, <2>2
<1> QED
  BY <1>4, <1>5, <1>6, <1>7, <1>8 DEF AInv

(* What has grown old had been good.                                       *)
LEMMA LapseAges ==
  ASSUME Typed, NEW p \in Ageing, Lapse(p[1], p[2]), NEW k \in Keys
  PROVE  /\ observed[k] = Now(k) => observed[k] = Now(k)' \/ Aged(observed[k], Now(k)')
         /\ Aged(observed[k], Now(k)) => Aged(observed[k], Now(k)')
         /\ world' \in Worlds
<1> DEFINE k0 == p[1]
           f0 == p[2]
<1>1. /\ active # NoConfig /\ active' = active /\ world[k0][f0] = "good"
      /\ world' = [world EXCEPT ![k0] = [world[k0] EXCEPT ![f0] = "bad"]]
  BY DEF Lapse
<1>2. /\ world \in Worlds /\ active \in Configs \cup {NoConfig}
      /\ k0 \in Keys /\ f0 \in Fields(k0) /\ "bad" \in Values[k0]
  BY ApiConstants DEF Typed
<1>3. /\ world \in [Keys -> UNION {[Fields(j) -> Values[j]] : j \in Keys}]
      /\ \A j \in Keys : world[j] \in [Fields(j) -> Values[j]]
  BY <1>2 DEF Worlds
<1> HIDE DEF k0, f0
<1>4. [world[k0] EXCEPT ![f0] = "bad"] \in [Fields(k0) -> Values[k0]]
  BY <1>2, <1>3
<1>5. world' \in Worlds
  <2>1. \A j \in Keys : world'[j] \in [Fields(j) -> Values[j]]
    BY <1>1, <1>2, <1>3, <1>4
  <2>2. world' = [j \in Keys |-> world'[j]]
    BY <1>1, <1>3
  <2>3. world' \in [Keys -> UNION {[Fields(j) -> Values[j]] : j \in Keys}]
    BY <2>1, <2>2
  <2> QED
    BY <2>1, <2>3 DEF Worlds
<1>6. /\ \A f : k # k0 \/ f # f0 => world'[k][f] = world[k][f]
      /\ k = k0 => world'[k][f0] = "bad"
  BY <1>1, <1>2, <1>3
<1>7. Now(k) = Capture(active, world, k) /\ Now(k)' = Capture(active, world', k)
  BY <1>1 DEF Now
<1>8. CASE active[k] = NoDef
  <2>1. Now(k)' = Now(k)
    BY <1>1, <1>7, <1>8 DEF Capture
  <2> QED
    BY <1>5, <2>1
<1>9. CASE active[k] # NoDef
  <2>1. /\ Present(Now(k)) /\ Now(k).def = active[k] /\ DOMAIN Now(k).values = active[k].fields
        /\ \A f \in active[k].fields : Now(k).values[f] = world[k][f]
    BY <1>1, <1>2, <1>7, <1>9, CaptureIs
  <2> DEFINE new == Capture(active, world', k)
             w == world'
  <2>2. /\ Present(new) /\ new.def = active[k] /\ DOMAIN new.values = active[k].fields
        /\ \A f \in active[k].fields : new.values[f] = world'[k][f]
    <3>1. new = Capture(active, w, k) /\ w \in Worlds
      BY <1>5
    <3>2. world' = w
      OBVIOUS
    <3> HIDE DEF new, w
    <3>3. /\ Present(new) /\ new.def = active[k] /\ DOMAIN new.values = active[k].fields
          /\ \A f \in active[k].fields : new.values[f] = w[k][f]
      BY <1>1, <1>2, <1>9, <3>1, CaptureIs
    <3> QED
      BY <3>2, <3>3
  <2> HIDE DEF new
  <2>3. ASSUME observed[k] = Now(k) PROVE Aged(observed[k], new)
    BY <1>1, <1>6, <2>1, <2>2, <2>3 DEF Aged
  <2>4. ASSUME Aged(observed[k], Now(k)) PROVE Aged(observed[k], new)
    BY <1>1, <1>6, <2>1, <2>2, <2>4 DEF Aged
  <2> QED
    BY <1>5, <1>7, <2>3, <2>4 DEF new
<1> QED
  BY <1>8, <1>9

LEMMA LapseKeeps ==
  ASSUME AInv, NEW p \in Ageing, Lapse(p[1], p[2])
  PROVE  AInv'
<1>1. UNCHANGED <<active, attached, observed, subs, stack, told, rev, changes, closed>>
  BY DEF Lapse
<1>2. Typed /\ Depth /\ Listens /\ StackFits /\ Seen /\ WatchedObserved /\ NewestKnown
  BY DEF AInv
<1>3. \A k \in Keys : /\ observed[k] = Now(k) => observed[k] = Now(k)' \/ Aged(observed[k], Now(k)')
                      /\ Aged(observed[k], Now(k)) => Aged(observed[k], Now(k)')
  BY <1>2, LapseAges
<1>4. world' \in Worlds
  <2>1. p[1] \in Keys
    BY ApiConstants
  <2> QED
    BY <1>2, <2>1, LapseAges
<1>5. Typed'
  BY <1>1, <1>2, <1>4 DEF Typed
<1>6. Depth' /\ Listens'
  BY <1>1, <1>2 DEF Depth, Listens, Quiet
<1>7. StackFits' /\ WatchedObserved' /\ NewestKnown'
  BY <1>1, PushKeeps
<1>8. Seen'
  <2> SUFFICES ASSUME ~closed', NEW k \in Keys
               PROVE  \/ observed'[k] = Unobserved \/ observed'[k] = Now(k)'
                      \/ Aged(observed'[k], Now(k)')
                      \/ \E i \in DOMAIN stack' : k \in Range(stack'[i].todo)
    BY DEF Seen
  <2>1. \/ observed[k] = Unobserved \/ observed[k] = Now(k) \/ Aged(observed[k], Now(k))
        \/ \E i \in DOMAIN stack : k \in Range(stack[i].todo)
    BY <1>1, <1>2 DEF Seen
  <2>2. CASE observed[k] = Unobserved \/ \E i \in DOMAIN stack : k \in Range(stack[i].todo)
    BY <1>1, <2>2
  <2>3. CASE observed[k] = Now(k)
    BY <1>1, <1>3, <2>3
  <2>4. CASE Aged(observed[k], Now(k))
    BY <1>1, <1>3, <2>4
  <2> QED
    BY <2>1, <2>2, <2>3, <2>4
<1> QED
  BY <1>5, <1>6, <1>7, <1>8 DEF AInv

LEMMA AdvanceKeeps ==
  ASSUME AInv, Advance
  PROVE  AInv'
<1>1. UNCHANGED <<active, world, attached, subs, told, changes, closed>>
  BY DEF Advance
<1>2. Typed /\ Depth /\ Listens /\ Seen /\ rev \in Nat
  BY DEF AInv, Typed
<1>3. PICK k \in Keys, f \in Frames : Looks(k, f)
  BY AdvanceLooks
<1>4. StackFits' /\ WatchedObserved' /\ NewestKnown'
  BY <1>1, <1>3, LooksKeeps
<1>5. Typed'
  <2>1. Now(k) \in AllSnapshots
    BY <1>2, NowIs
  <2>2. observed' \in [Keys -> AllSnapshots] /\ stack' \in Seq(Frames) /\ rev' \in Nat
    BY <1>2, <1>3, <2>1 DEF Looks, Typed
  <2> QED
    BY <1>1, <1>2, <2>2 DEF Typed
<1>6. Depth'
  <2>1. Len(stack') = Len(stack) /\ stack' # <<>>
    BY <1>3 DEF Looks
  <2>2. Len(stack') <= 1 + changes'
    BY <1>1, <1>2, <2>1 DEF Depth
  <2> QED
    BY <2>1, <2>2, Zenon DEF Depth, Quiet
<1>7. Listens'
  BY <1>1, <1>2 DEF Listens
<1>8. Seen'
  <2> SUFFICES ASSUME ~closed', NEW j \in Keys
               PROVE  \/ observed'[j] = Unobserved \/ observed'[j] = Now(j)'
                      \/ Aged(observed'[j], Now(j)')
                      \/ \E i \in DOMAIN stack' : j \in Range(stack'[i].todo)
    BY DEF Seen
  <2>1. Now(j)' = Now(j)
    BY <1>1 DEF Now
  <2>2. CASE j = k
    <3>1. observed'[k] = Now(k)
      BY <1>2, <1>3 DEF Looks, Typed
    <3> QED
      BY <2>1, <2>2, <3>1
  <2>3. CASE j # k
    <3>1. observed'[j] = observed[j]
      BY <1>2, <1>3, <2>3 DEF Looks, Typed
    <3>2. \/ observed[j] = Unobserved \/ observed[j] = Now(j) \/ Aged(observed[j], Now(j))
          \/ \E i \in DOMAIN stack : j \in Range(stack[i].todo)
      BY <1>1, <1>2 DEF Seen
    <3>3. ASSUME NEW i \in DOMAIN stack, j \in Range(stack[i].todo)
          PROVE  i \in DOMAIN stack' /\ j \in Range(stack'[i].todo)
      <4>1. CASE i = 1
        BY <1>3, <2>3, <3>3, <4>1 DEF Looks
      <4>2. CASE i # 1
        BY <1>3, <3>3, <4>2 DEF Looks
      <4> QED
        BY <4>1, <4>2
    <3> QED
      BY <2>1, <3>1, <3>2, <3>3
  <2> QED
    BY <2>2, <2>3
<1> QED
  BY <1>4, <1>5, <1>6, <1>7, <1>8 DEF AInv

(* A step that looks at nothing new leaves nothing out.                    *)
LEMMA SeenStays ==
  ASSUME Seen, UNCHANGED <<active, world, closed>>,
         \A k \in Keys : observed'[k] \in {observed[k], Now(k)},
         \A i \in DOMAIN stack, k \in Keys : k \in Range(stack[i].todo) =>
           \E j \in DOMAIN stack' : k \in Range(stack'[j].todo)
  PROVE  Seen'
<1> SUFFICES ASSUME ~closed', NEW k \in Keys
             PROVE  \/ observed'[k] = Unobserved \/ observed'[k] = Now(k)'
                    \/ Aged(observed'[k], Now(k)')
                    \/ \E i \in DOMAIN stack' : k \in Range(stack'[i].todo)
  BY DEF Seen
<1>1. \/ observed[k] = Unobserved \/ observed[k] = Now(k) \/ Aged(observed[k], Now(k))
      \/ \E i \in DOMAIN stack : k \in Range(stack[i].todo)
  BY DEF Seen
<1>2. Now(k)' = Now(k)
  BY DEF Now
<1>3. observed'[k] = observed[k] \/ observed'[k] = Now(k)
  OBVIOUS
<1> QED
  BY <1>1, <1>2, <1>3

LEMMA DeliverKeeps ==
  ASSUME AInv, Deliver
  PROVE  AInv'
<1>1. UNCHANGED <<active, world, attached, observed, subs, rev, changes, closed>>
  BY DEF Deliver
<1>2. Typed /\ Depth /\ Listens /\ Seen
  BY DEF AInv
<1>3. PICK s \in Subs, k \in Keys, f \in Frames : Tells(s, k, f)
  BY DeliverTells
<1>4. StackFits' /\ WatchedObserved' /\ NewestKnown'
  BY <1>1, <1>3, TellsKeeps
<1>5. Typed'
  <2>1. told' \in [Subs -> [Keys -> Told]]
    BY <1>2, <1>3, ToldAfter
  <2>2. stack' \in Seq(Frames)
    BY <1>3 DEF Tells
  <2> QED
    BY <1>1, <1>2, <2>1, <2>2 DEF Typed
<1>6. Depth'
  <2>1. Len(stack') = Len(stack) /\ stack' # <<>>
    BY <1>3 DEF Tells
  <2>2. Len(stack') <= 1 + changes'
    BY <1>1, <1>2, <2>1 DEF Depth
  <2> QED
    BY <2>1, <2>2, Zenon DEF Depth, Quiet
<1>7. Listens'
  BY <1>1, <1>2 DEF Listens
<1>8. \A i \in DOMAIN stack : i \in DOMAIN stack' /\ stack'[i].todo = stack[i].todo
  <2> TAKE i \in DOMAIN stack
  <2>1. CASE i = 1
    BY <1>3, <2>1 DEF Tells
  <2>2. CASE i # 1
    BY <1>3, <2>2 DEF Tells
  <2> QED
    BY <2>1, <2>2
<1>9. Seen'
  BY <1>1, <1>2, <1>8, SeenStays
<1> QED
  BY <1>4, <1>5, <1>6, <1>7, <1>9 DEF AInv

(* Two stacks that differ in the subscribers they still hold.              *)
LEMMA ShrinkKeeps ==
  ASSUME AInv, UNCHANGED <<observed, rev>>,
         Range(subs') \subseteq Range(subs), IsInjective(subs'),
         \A s \in Subs : told'[s] = told[s] \/ (told'[s] = Untold /\ s \notin Range(subs')),
         DOMAIN stack' = DOMAIN stack,
         \A i \in DOMAIN stack : Follows(stack'[i], stack[i], Range(subs'))
  PROVE  StackFits' /\ WatchedObserved' /\ NewestKnown'
<1>1. Range(subs) \subseteq Subs
  BY RangeOfSeq DEF AInv, Typed
<1>2. DOMAIN stack \subseteq Nat /\ DOMAIN stack \subseteq Nat \ {0}
  BY LenProperties DEF AInv, Typed
<1> DEFINE m == 0
<1>3. m \in Int /\ \A i \in DOMAIN stack : i + m = i /\ i - m = i
  BY <1>2
<1> HIDE DEF m
<1>4. \A i \in DOMAIN stack' : i + m \in DOMAIN stack /\ Follows(stack'[i], stack[i + m], Range(subs'))
  BY <1>3
<1>5. \A i \in DOMAIN stack : i - m \in DOMAIN stack' /\ Follows(stack'[i - m], stack[i], Range(subs'))
  BY <1>3
<1> QED
  BY <1>1, <1>2, <1>3, <1>4, <1>5, Carried

LEMMA ReturnKeeps ==
  ASSUME AInv, Return
  PROVE  AInv'
<1> DEFINE frame == Head(stack)
           f == [frame EXCEPT !.calling = FALSE]
<1>1. /\ stack # <<>> /\ stack' = <<f>> \o Tail(stack)
      /\ UNCHANGED <<active, world, attached, observed, subs, told, rev, changes, closed>>
  BY DEF Return, InCallback
<1>2. Typed /\ Depth /\ Listens /\ Seen /\ StackFits /\ stack \in Seq(Frames) /\ IsInjective(subs)
  BY DEF AInv, Typed, StackFits
<1>3. frame \in Frames /\ frame = stack[1] /\ 1 \in DOMAIN stack
  BY <1>1, <1>2, Popped
<1> HIDE DEF frame
<1>4. f \in Frames
  BY <1>3 DEF Frames
<1>5. /\ f.todo = frame.todo /\ f.key = frame.key /\ f.snap = frame.snap /\ f.rev = frame.rev
      /\ f.queue = frame.queue
  BY <1>3 DEF Frames
<1> HIDE DEF f
<1>6. /\ stack' \in Seq(Frames) /\ Len(stack') = Len(stack) /\ stack' # <<>>
      /\ DOMAIN stack' = DOMAIN stack
      /\ stack'[1] = f /\ \A i \in DOMAIN stack : i # 1 => stack'[i] = stack[i]
  BY <1>1, <1>2, <1>4, Replaced
<1>7. \A i \in DOMAIN stack : Follows(stack'[i], stack[i], Range(subs))
  <2> TAKE i \in DOMAIN stack
  <2>1. Follows(stack[i], stack[i], Range(subs))
    BY <1>2, FollowsItself
  <2>2. CASE i = 1
    BY <1>3, <1>5, <1>6, <2>1, <2>2 DEF Follows
  <2>3. CASE i # 1
    BY <1>6, <2>1, <2>3
  <2> QED
    BY <2>2, <2>3
<1>8. StackFits' /\ WatchedObserved' /\ NewestKnown'
  BY <1>1, <1>2, <1>6, <1>7, ShrinkKeeps
<1>9. Typed'
  BY <1>1, <1>2, <1>6 DEF Typed
<1>10. Depth'
  <2>1. Len(stack') <= 1 + changes'
    BY <1>1, <1>2, <1>6 DEF Depth
  <2> QED
    BY <1>6, <2>1, Zenon DEF Depth, Quiet
<1>11. Listens'
  BY <1>1, <1>2 DEF Listens
<1>12. Seen'
  BY <1>1, <1>2, <1>6, <1>7, SeenStays DEF Follows
<1> QED
  BY <1>8, <1>9, <1>10, <1>11, <1>12 DEF AInv

LEMMA FinishKeeps ==
  ASSUME AInv, Finish
  PROVE  AInv'
<1>1. /\ stack # <<>> /\ stack' = Tail(stack)
      /\ Head(stack).queue = <<>> /\ Head(stack).todo = <<>>
      /\ UNCHANGED <<active, world, attached, observed, subs, closed>>
  BY DEF Finish, Quiet
<1>2. \/ Len(stack) > 1 /\ UNCHANGED <<told, rev, changes>>
      \/ /\ ~(Len(stack) > 1) /\ rev' = 0 /\ changes' = 0
         /\ told' = [s \in Subs |-> [k \in Keys |-> [told[s][k] EXCEPT !.rev = 0]]]
  BY DEF Finish
<1>3. /\ Typed /\ Depth /\ Listens /\ Seen /\ StackFits /\ WatchedObserved /\ NewestKnown
      /\ stack \in Seq(Frames) /\ IsInjective(subs) /\ Range(subs) \subseteq Subs
  BY RangeOfSeq DEF AInv, Typed, StackFits
<1>4. /\ stack' \in Seq(Frames) /\ Len(stack') = Len(stack) - 1
      /\ Len(stack) \in Nat \ {0} /\ DOMAIN stack = 1..Len(stack) /\ 1 \in DOMAIN stack
      /\ Head(stack) = stack[1]
      /\ DOMAIN stack' = 1..(Len(stack) - 1)
      /\ \A i \in DOMAIN stack' : i + 1 \in DOMAIN stack /\ stack'[i] = stack[i + 1]
      /\ \A i \in DOMAIN stack : i = 1 \/ i - 1 \in DOMAIN stack'
  BY <1>1, <1>3, Popped
<1>5. Range(stack[1].queue) = {} /\ Range(stack[1].todo) = {}
  BY <1>1, <1>4, EmptyQueue
<1>6. Listens'
  BY <1>1, <1>3 DEF Listens
<1>7. Seen'
  <2>1. ASSUME NEW i \in DOMAIN stack, NEW k \in Keys, k \in Range(stack[i].todo)
        PROVE  \E j \in DOMAIN stack' : k \in Range(stack'[j].todo)
    <3>0. i # 1 /\ i \in 1..Len(stack)
      BY <1>4, <1>5, <2>1
    <3>1. i - 1 \in DOMAIN stack' /\ (i - 1) + 1 = i
      BY <1>4, <3>0
    <3>2. stack'[i - 1] = stack[(i - 1) + 1]
      BY <1>4, <3>1
    <3> QED
      BY <2>1, <3>1, <3>2
  <2> QED
    BY <1>1, <1>3, <2>1, SeenStays
<1>8. CASE Len(stack) > 1
  <2>1. UNCHANGED <<told, rev, changes>>
    BY <1>2, <1>8
  <2>2. DOMAIN stack \subseteq Nat /\ DOMAIN stack' \subseteq Nat \ {0}
    BY <1>4
  <2> DEFINE m == 1
  <2>3. m \in Int /\ \A i \in DOMAIN stack : i + m = i + 1 /\ i - m = i - 1
    BY <2>2
  <2>4. \A i \in DOMAIN stack' : i + m = i + 1
    BY <2>2
  <2> HIDE DEF m
  <2>5. \A i \in DOMAIN stack' : i + m \in DOMAIN stack /\ Follows(stack'[i], stack[i + m], Range(subs))
    BY <1>3, <1>4, <2>4, FollowsItself
  <2>6. ASSUME NEW i \in DOMAIN stack, Range(stack[i].queue) # {}
        PROVE  i - m \in DOMAIN stack' /\ Follows(stack'[i - m], stack[i], Range(subs))
    <3>0. i # 1 /\ i \in 1..Len(stack)
      BY <1>4, <1>5, <2>6
    <3>1. i - 1 \in DOMAIN stack' /\ (i - 1) + 1 = i
      BY <1>4, <3>0
    <3>2. stack'[i - 1] = stack[(i - 1) + 1]
      BY <1>4, <3>1
    <3> QED
      BY <1>3, <2>3, <3>1, <3>2, FollowsItself
  <2>7. StackFits' /\ WatchedObserved' /\ NewestKnown'
    BY <1>1, <1>3, <2>1, <2>2, <2>3, <2>5, <2>6, Carried
  <2>8. Typed'
    BY <1>1, <1>3, <1>4, <2>1 DEF Typed
  <2>9. Depth'
    <3>1. Len(stack') <= 1 + changes' /\ Len(stack') > 0
      BY <1>3, <1>4, <1>8, <2>1 DEF Depth, Typed
    <3>2. stack' # <<>>
      BY <3>1
    <3> QED
      BY <3>1, <3>2, Zenon DEF Depth, Quiet
  <2> QED
    BY <1>6, <1>7, <2>7, <2>8, <2>9 DEF AInv
<1>9. CASE ~(Len(stack) > 1)
  <2>1. /\ rev' = 0 /\ changes' = 0
        /\ told' = [s \in Subs |-> [k \in Keys |-> [told[s][k] EXCEPT !.rev = 0]]]
    BY <1>2, <1>9
  <2>2. DOMAIN stack' = {} /\ DOMAIN stack = {1} /\ Len(stack') = 0
    BY <1>4, <1>9
  <2>3. \A s \in Subs, k \in Keys : /\ told'[s][k] \in Told /\ told'[s][k].rev = 0
                                    /\ told'[s][k].snap = told[s][k].snap
    <3> TAKE s \in Subs, k \in Keys
    <3> DEFINE known == told[s][k]
    <3>1. known \in Told /\ told'[s][k] = [known EXCEPT !.rev = 0]
      BY <1>3, <2>1 DEF Typed
    <3> HIDE DEF known
    <3> QED
      BY <3>1 DEF Told, known
  <2>4. told' \in [Subs -> [Keys -> Told]]
    <3>1. \A s \in Subs : told'[s] = [k \in Keys |-> told'[s][k]]
      BY <2>1
    <3>2. \A s \in Subs : told'[s] \in [Keys -> Told]
      BY <2>3, <3>1
    <3>3. told' = [s \in Subs |-> told'[s]]
      BY <2>1
    <3> QED
      BY <3>2, <3>3
  <2>5. Typed'
    BY <1>1, <1>3, <1>4, <2>1, <2>4, ApiConstants DEF Typed
  <2>6. Depth'
    <3>1. Len(stack') <= 1 + changes'
      BY <2>1, <2>2
    <3> QED
      BY <2>1, <3>1, Zenon DEF Depth
  <2>7. StackFits'
    BY <1>1, <1>3, <2>1, <2>2, <2>3 DEF StackFits
  <2>8. WatchedObserved'
    BY <1>1, <1>3, <2>2, <2>3 DEF WatchedObserved
  <2>9. ASSUME NEW s \in Range(subs), NEW k \in Keys
        PROVE  Knows(s, k, told'[s][k].snap, observed[k])
    <3>1. \A i \in DOMAIN stack : ~Newer(stack[i], s, k, told[s][k])
      BY <1>5, <2>2 DEF Newer, Holds
    <3>2. Knows(s, k, told[s][k].snap, observed[k])
      BY <1>3, <3>1 DEF NewestKnown
    <3> QED
      BY <1>3, <2>3, <3>2
  <2>10. NewestKnown'
    BY <1>1, <2>2, <2>9 DEF NewestKnown
  <2> QED
    BY <1>6, <1>7, <2>5, <2>6, <2>7, <2>8, <2>10 DEF AInv
<1> QED
  BY <1>8, <1>9

LEMMA SubscribeStep ==
  ASSUME AInv, NEW s0 \in Subs, Subscribe(s0)
  PROVE  AInv'
<1>1. ~closed /\ UNCHANGED <<active, world, attached, stack, rev, changes, closed>>
  BY DEF Subscribe
<1>2. Typed /\ Depth /\ Listens /\ Seen
  BY DEF AInv
<1>3. /\ StackFits' /\ WatchedObserved' /\ NewestKnown'
      /\ observed' \in [Keys -> AllSnapshots] /\ subs' \in Seq(Subs)
      /\ told' \in [Subs -> [Keys -> Told]]
      /\ \A k \in Keys : observed'[k] \in {observed[k], Now(k)}
  BY SubscribeKeeps
<1>4. Typed'
  BY <1>1, <1>2, <1>3 DEF Typed
<1>5. Depth' /\ Listens'
  BY <1>1, <1>2 DEF Depth, Listens, Quiet
<1>6. Seen'
  BY <1>1, <1>2, <1>3, SeenStays
<1> QED
  BY <1>3, <1>4, <1>5, <1>6 DEF AInv

LEMMA UnsubscribeKeeps ==
  ASSUME AInv, NEW gone \in SUBSET Subs, Unsubscribe(gone)
  PROVE  AInv'
<1>1. /\ subs' = Those(subs, Subs \ gone) /\ stack' = Without(gone)
      /\ told' = [s \in Subs |-> IF s \in gone THEN Untold ELSE told[s]]
      /\ ~closed /\ UNCHANGED <<active, world, attached, observed, rev, changes, closed>>
  BY DEF Unsubscribe
<1>2. /\ Typed /\ Depth /\ Listens /\ Seen /\ StackFits
      /\ subs \in Seq(Subs) /\ IsInjective(subs) /\ Range(subs) \subseteq Subs
  BY RangeOfSeq DEF AInv, Typed, StackFits
<1>3. /\ subs' \in Seq(Subs) /\ Range(subs') = Range(subs) \cap (Subs \ gone)
      /\ IsInjective(subs')
  BY <1>1, <1>2, ThoseAre
<1>4. /\ stack' \in Seq(Frames) /\ Len(stack') = Len(stack) /\ DOMAIN stack' = DOMAIN stack
      /\ \A i \in DOMAIN stack : Follows(stack'[i], stack[i], Subs \ gone)
  BY <1>1, <1>2, WithoutIs
<1>5. \A i \in DOMAIN stack : Follows(stack'[i], stack[i], Range(subs'))
  <2> TAKE i \in DOMAIN stack
  <2>1. Range(stack[i].queue) \subseteq Range(subs)
    BY <1>2 DEF StackFits, FrameFits
  <2> QED
    BY <1>3, <1>4, <2>1 DEF Follows
<1>6. Untold \in [Keys -> Told]
  BY DEF Untold, Told, AllSnapshots
<1>7. told' \in [Subs -> [Keys -> Told]]
  BY <1>1, <1>2, <1>6 DEF Typed
<1>8. \A s \in Subs : told'[s] = told[s] \/ (told'[s] = Untold /\ s \notin Range(subs'))
  BY <1>1, <1>3
<1>9. StackFits' /\ WatchedObserved' /\ NewestKnown'
  BY <1>1, <1>3, <1>4, <1>5, <1>8, ShrinkKeeps
<1>10. Typed'
  BY <1>1, <1>2, <1>3, <1>4, <1>7 DEF Typed
<1>11. Depth'
  <2>1. Len(stack') <= 1 + changes'
    BY <1>1, <1>2, <1>4 DEF Depth
  <2>2. stack' = <<>> => stack = <<>>
    <3>1. stack \in Seq(Frames)
      BY <1>2 DEF Typed
    <3> QED
      BY <1>4, <3>1, EmptySeq
  <2> QED
    BY <1>1, <1>2, <2>1, <2>2, Zenon DEF Depth, Quiet
<1>12. Listens'
  BY <1>1, <1>2 DEF Listens
<1>13. Seen'
  BY <1>1, <1>2, <1>4, SeenStays DEF Follows
<1> QED
  BY <1>9, <1>10, <1>11, <1>12, <1>13 DEF AInv

LEMMA CloseKeeps ==
  ASSUME AInv, Close
  PROVE  AInv'
<1>1. /\ closed' = TRUE /\ attached' = FALSE /\ subs' = <<>> /\ stack' = Without(Subs)
      /\ observed' = [k \in Keys |-> Unobserved] /\ told' = [s \in Subs |-> Untold]
      /\ UNCHANGED <<active, world, rev, changes>>
  BY DEF Close
<1>2. Typed /\ Depth /\ StackFits /\ rev \in Nat
  BY DEF AInv, Typed
<1>3. /\ stack' \in Seq(Frames) /\ Len(stack') = Len(stack) /\ DOMAIN stack' = DOMAIN stack
      /\ \A i \in DOMAIN stack : Follows(stack'[i], stack[i], Subs \ Subs)
  BY <1>1, <1>2, WithoutIs
<1>4. /\ Unobserved \in AllSnapshots /\ subs' \in Seq(Subs) /\ Range(subs') = {}
      /\ IsInjective(subs')
  BY <1>1, EmptySeq, EmptyQueue DEF AllSnapshots
<1>5. \A s \in Subs, k \in Keys : told'[s][k].snap = Unobserved /\ told'[s][k].rev = 0
  BY <1>1 DEF Untold
<1>6. Typed'
  <2>1. Untold \in [Keys -> Told]
    BY <1>4 DEF Untold, Told
  <2> QED
    BY <1>1, <1>2, <1>3, <1>4, <2>1 DEF Typed
<1>7. Depth'
  <2>1. Len(stack') <= 1 + changes'
    BY <1>1, <1>2, <1>3 DEF Depth
  <2>2. stack' = <<>> => stack = <<>>
    <3>1. stack \in Seq(Frames)
      BY <1>2 DEF Typed
    <3> QED
      BY <1>3, <3>1, EmptySeq
  <2> QED
    BY <1>1, <1>2, <2>1, <2>2, Zenon DEF Depth, Quiet
<1>8. Listens' /\ Seen'
  BY <1>1 DEF Listens, Seen
<1>9. \A i \in DOMAIN stack' : Range(stack'[i].queue) = {}
  BY <1>3 DEF Follows
<1>10. StackFits'
  <2>1. ASSUME NEW i \in DOMAIN stack'
        PROVE  FrameFits(stack[i])'
    <3>1. FrameFits(stack[i]) /\ Follows(stack'[i], stack[i], Subs \ Subs)
      BY <1>2, <1>3 DEF StackFits
    <3> QED
      BY <1>1, <1>9, <3>1 DEF FrameFits, Follows
  <2> QED
    BY <1>1, <1>2, <1>4, <1>5, <1>9, <2>1 DEF StackFits
<1>11. WatchedObserved' /\ NewestKnown'
  BY <1>4, <1>5, <1>9 DEF WatchedObserved, NewestKnown
<1> QED
  BY <1>6, <1>7, <1>8, <1>10, <1>11 DEF AInv

LEMMA AInit == Init => AInv
<1> SUFFICES ASSUME Init PROVE AInv
  OBVIOUS
<1>1. /\ active \in Configs \cup {NoConfig} /\ world \in Worlds
      /\ attached = (active # NoConfig) /\ observed = [k \in Keys |-> Unobserved]
      /\ subs = <<>> /\ stack = <<>> /\ told = [s \in Subs |-> Untold]
      /\ rev = 0 /\ changes = 0 /\ closed = FALSE
  BY DEF Init
<1>2. Unobserved \in AllSnapshots
  BY DEF AllSnapshots
<1>3. <<>> \in Seq(Subs) /\ <<>> \in Seq(Frames) /\ Len(<<>>) = 0 /\ DOMAIN <<>> = {}
  BY EmptySeq
<1>4. Typed
  <2>1. Untold \in [Keys -> Told]
    BY <1>2 DEF Untold, Told
  <2>2. told \in [Subs -> [Keys -> Told]] /\ observed \in [Keys -> AllSnapshots]
    BY <1>1, <1>2, <2>1
  <2>3. rev \in Nat /\ changes \in 0..MaxChanges
    BY <1>1, ApiConstants
  <2>4. attached \in BOOLEAN /\ closed \in BOOLEAN
    BY <1>1
  <2> QED
    BY <1>1, <1>3, <2>2, <2>3, <2>4, Zenon DEF Typed
<1>5. \A s \in Subs, k \in Keys : told[s][k].snap = Unobserved /\ told[s][k].rev = 0
  BY <1>1 DEF Untold
<1>6. Depth /\ Listens /\ Seen
  BY <1>1, <1>3 DEF Depth, Listens, Seen
<1>7. DOMAIN stack = {} /\ Range(subs) = {} /\ IsInjective(subs)
  BY <1>1, <1>3, EmptyQueue
<1>8. StackFits /\ WatchedObserved /\ NewestKnown
  BY <1>1, <1>5, <1>7 DEF StackFits, WatchedObserved, NewestKnown
<1> QED
  BY <1>4, <1>6, <1>8 DEF AInv

LEMMA NextIs ==
  Next <=> \/ \E c \in Configs, w \in Worlds : Activate(c, w)
           \/ Deactivate
           \/ \E w \in Worlds : GraphChange(w)
           \/ \E p \in Ageing : Lapse(p[1], p[2])
           \/ Advance \/ Deliver \/ Return \/ Finish
           \/ \E s \in Subs : Subscribe(s)
           \/ \E gone \in SUBSET Subs : Unsubscribe(gone)
           \/ Close
  BY Zenon DEF Next, Run

LEMMA AStep == AInv /\ [Next]_vars => AInv'
<1> SUFFICES ASSUME AInv, [Next]_vars PROVE AInv'
  OBVIOUS
<1>1. ASSUME NEW c \in Configs, NEW w \in Worlds, Activate(c, w) PROVE AInv'
  BY <1>1, ActivateKeeps
<1>2. CASE Deactivate
  BY <1>2, DeactivateKeeps
<1>3. ASSUME NEW w \in Worlds, GraphChange(w) PROVE AInv'
  BY <1>3, GraphChangeKeeps
<1>4. ASSUME NEW p \in Ageing, Lapse(p[1], p[2]) PROVE AInv'
  BY <1>4, LapseKeeps
<1>5. CASE Advance
  BY <1>5, AdvanceKeeps
<1>6. CASE Deliver
  BY <1>6, DeliverKeeps
<1>7. CASE Return
  BY <1>7, ReturnKeeps
<1>8. CASE Finish
  BY <1>8, FinishKeeps
<1>9. ASSUME NEW s \in Subs, Subscribe(s) PROVE AInv'
  BY <1>9, SubscribeStep
<1>10. ASSUME NEW gone \in SUBSET Subs, Unsubscribe(gone) PROVE AInv'
  BY <1>10, UnsubscribeKeeps
<1>11. CASE Close
  BY <1>11, CloseKeeps
<1>12. CASE UNCHANGED vars
  <2>1. UNCHANGED <<active, world, attached, observed, subs, stack, told, rev, changes, closed>>
    BY <1>12 DEF vars
  <2>2. StackFits' /\ WatchedObserved' /\ NewestKnown'
    BY <2>1, PushKeeps
  <2>3. Typed' /\ Depth' /\ Listens'
    BY <2>1 DEF AInv, Typed, Depth, Listens, Quiet
  <2>4. Seen'
    BY <2>1, SeenStays DEF AInv
  <2> QED
    BY <2>2, <2>3, <2>4 DEF AInv
<1>13. CASE Next
  BY <1>1, <1>2, <1>3, <1>4, <1>5, <1>6, <1>7, <1>8, <1>9, <1>10, <1>11, <1>13, NextIs
<1> QED
  BY <1>12, <1>13

(* ApiInvariant: the invariant holds in every run of the consumer API.     *)
THEOREM ApiInvariant == Spec => []AInv
  BY AInit, AStep, PTL DEF Spec

(* ---------------------------------------------------------------------- *)
(* The properties *)

LEMMA InvTypeOK == AInv => TypeOK
<1> SUFFICES ASSUME AInv PROVE TypeOK
  OBVIOUS
<1>1. Typed /\ Depth /\ StackFits
  BY DEF AInv
<1>2. Range(subs) \subseteq Subs /\ IsInjective(subs)
  BY <1>1, RangeOfSeq DEF Typed, StackFits
<1>3. Len(stack) <= 1 + MaxChanges /\ changes \in 0..MaxChanges /\ Len(stack) \in Nat
  BY <1>1, ApiConstants, LenProperties DEF Typed, Depth
<1>4. ASSUME NEW i \in DOMAIN stack
      PROVE  /\ Range(stack[i].queue) \subseteq Subs /\ IsInjective(stack[i].queue)
             /\ stack[i].rev \in 0..rev /\ IsInjective(stack[i].todo)
  <2>1. stack[i] \in Frames /\ FrameFits(stack[i])
    BY <1>1, LenProperties, ElementOfSeq DEF Typed, StackFits
  <2>2. stack[i].rev \in Nat /\ rev \in Nat /\ stack[i].rev <= rev
    BY <1>1, <2>1 DEF Typed, Frames, FrameFits
  <2> QED
    BY <1>2, <2>1, <2>2 DEF FrameFits
<1>5. \A s \in Subs, k \in Keys : told[s][k].snap \in AllSnapshots /\ told[s][k].rev \in 0..rev
  <2> TAKE s \in Subs, k \in Keys
  <2>1. told[s][k] \in Told /\ told[s][k].rev <= rev /\ rev \in Nat
    BY <1>1 DEF Typed, StackFits
  <2> QED
    BY <2>1 DEF Told
<1> QED
  BY <1>1, <1>2, <1>3, <1>4, <1>5 DEF TypeOK, Typed

(* At rest no dispatch holds anything back.                                *)
LEMMA AtRest ==
  ASSUME AInv, Quiet
  PROVE  /\ ~closed => \A k \in Keys : \/ observed[k] = Unobserved \/ observed[k] = Now(k)
                                       \/ Aged(observed[k], Now(k))
         /\ \A s \in Range(subs), k \in Keys : Knows(s, k, told[s][k].snap, observed[k])
<1>1. DOMAIN stack = {}
  BY EmptySeq DEF Quiet
<1> QED
  BY <1>1 DEF AInv, Seen, NewestKnown

(* ApiTypeOK: the variables of the consumer API keep their types, however  *)
(* deep its callbacks nest; nobody is subscribed or waits in a dispatch    *)
(* twice, and no update is newer than the graph.                           *)
THEOREM ApiTypeOK == Spec => []TypeOK
  BY ApiInvariant, InvTypeOK, PTL

(* ApiOnlyAgeGoesUnseen: whatever callbacks did to the graph in the middle *)
(* of a dispatch, at rest the API has seen every change but evidence that  *)
(* grew old (_on_graph_change, _on_runtime_activation).                    *)
THEOREM ApiOnlyAgeGoesUnseen == Spec => []OnlyAgeGoesUnseen
<1>1. AInv => OnlyAgeGoesUnseen
  <2> SUFFICES ASSUME AInv, Quiet, ~closed, NEW k \in Keys, observed[k] # Unobserved
               PROVE  observed[k] = Now(k) \/ Aged(observed[k], Now(k))
    BY DEF OnlyAgeGoesUnseen, Aged
  <2> QED
    BY AtRest
<1> QED
  BY <1>1, ApiInvariant, PTL

(* ApiRoleSubscribersCurrent: a subscription to a role, without filters,   *)
(* that has been told of a contract knows it as it is whenever its role    *)
(* stands for it (_contract_uses_role when it is dispatched).              *)
THEOREM ApiRoleSubscribersCurrent ==
  ASSUME \A s \in Subs : Filter[s].role # NoRole => Filter[s].kinds = AllKinds /\ Filter[s].fields = {}
  PROVE  Spec => []RoleSubscribersCurrent
<1>1. AInv => RoleSubscribersCurrent
  <2> SUFFICES ASSUME AInv, Quiet, NEW s \in Range(subs), Filter[s].role # NoRole,
                      NEW k \in Watched(s, active)
               PROVE  told[s][k].snap \in {Unobserved, observed[k]}
    BY DEF RoleSubscribersCurrent
  <2>1. Typed /\ Listens /\ WatchedObserved /\ s \in Subs
    BY RangeOfSeq DEF AInv, Typed
  <2>2. Filter[s].contract = NoKey /\ Filter[s].kinds = AllKinds /\ Filter[s].fields = {}
    BY <2>1, ApiConstants
  <2>3. k \in Keys /\ active # NoConfig /\ active[k] # NoDef /\ Filter[s].role \in active[k].roles
    <3>1. k \in RoleKeys(active, Filter[s].role)
      BY <2>2 DEF Watched
    <3> QED
      BY <3>1 DEF RoleKeys
  <2>4. ~closed
    BY <2>1, EmptyQueue DEF Listens
  <2>5. CASE observed[k] = Unobserved
    BY <2>1, <2>3, <2>5 DEF WatchedObserved
  <2>6. CASE observed[k] # Unobserved
    <3>1. observed[k] = Now(k) \/ Aged(observed[k], Now(k))
      BY <2>3, <2>4, <2>6, AtRest
    <3>2. Present(Now(k)) /\ Now(k).def = active[k]
      BY <2>1, <2>3, CaptureIs DEF Typed, Now
    <3>3. Shown(s, observed[k])
      BY <2>3, <3>1, <3>2 DEF Shown, Aged
    <3>4. Knows(s, k, told[s][k].snap, observed[k])
      BY <2>3, AtRest
    <3> QED
      BY <2>2, <3>3, <3>4 DEF Knows
  <2> QED
    BY <2>5, <2>6
<1> QED
  BY <1>1, ApiInvariant, PTL

(* ---------------------------------------------------------------------- *)
(* The feed *)

FeedTold == [s \in FeedSubs |-> [k \in Keys |-> Part(s, k, told[s][k].snap)]]
FeedIn == Range(subs) \cap FeedSubs
FeedDue ==
  {p \in FeedSubs \X Keys :
     \E i \in DOMAIN stack : /\ stack[i].key = p[2] /\ p[1] \in Range(stack[i].queue)
                             /\ stack[i].rev > told[p[1]][p[2]].rev}

LEMMA TellIs ==
  ASSUME NEW s, NEW k
  PROVE  Feed!Tell(s, k) <=>
           /\ <<s, k>> \in FeedDue
           /\ FeedTold' = [FeedTold EXCEPT ![s][k] = Part(s, k, observed[k])]
           /\ FeedDue' = FeedDue \ {<<s, k>>}
           /\ UNCHANGED <<observed, FeedIn>>
  BY DEF Feed!Tell, FeedTold, FeedIn, FeedDue

LEMMA PublishIs ==
  ASSUME NEW k
  PROVE  Feed!Publish(k) <=>
           /\ DOMAIN observed' = Keys /\ \A j \in Keys \ {k} : observed'[j] = observed[j]
           /\ FeedDue \subseteq FeedDue' /\ FeedDue' \ FeedDue \subseteq FeedIn \X {k}
           /\ \A s \in FeedIn : Part(s, k, observed'[k]) # Part(s, k, observed[k]) =>
                                  <<s, k>> \in FeedDue'
           /\ UNCHANGED <<FeedTold, FeedIn>>
  BY DEF Feed!Publish, FeedTold, FeedIn, FeedDue

LEMMA BeginIs ==
  ASSUME NEW s
  PROVE  Feed!Begin(s) <=>
           /\ s \notin FeedIn
           /\ DOMAIN observed' = Keys
           /\ \A r \in FeedIn, k \in Keys : Part(r, k, observed'[k]) = Part(r, k, observed[k])
           /\ FeedIn' = FeedIn \cup {s}
           /\ FeedTold' = [FeedTold EXCEPT ![s] = [k \in Keys |-> Part(s, k, observed'[k])]]
           /\ UNCHANGED FeedDue
  BY DEF Feed!Begin, Feed!Unseen, FeedTold, FeedIn, FeedDue

LEMMA EndIs ==
  Feed!End <=>
    /\ FeedIn' \in SUBSET FeedIn
    /\ DOMAIN observed' = Keys
    /\ \A r \in FeedIn', k \in Keys : Part(r, k, observed'[k]) = Part(r, k, observed[k])
    /\ FeedDue' = {p \in FeedDue : p[1] \in FeedIn'}
    /\ DOMAIN FeedTold' = FeedSubs /\ \A s \in FeedIn' : FeedTold'[s] = FeedTold[s]
  BY DEF Feed!End, Feed!Unseen, FeedTold, FeedIn, FeedDue

LEMMA FeedNextIs ==
  [Feed!Next]_Feed!vars <=>
    \/ \E k \in Keys : Feed!Publish(k)
    \/ \E s \in FeedSubs, k \in Keys : Feed!Tell(s, k)
    \/ \E s \in FeedSubs : Feed!Begin(s)
    \/ Feed!End
    \/ UNCHANGED <<observed, FeedTold, FeedIn, FeedDue>>
  BY Zenon DEF Feed!Next, Feed!vars, FeedTold, FeedIn, FeedDue

(* An update is owed while some dispatch holds a newer one.                *)
LEMMA DueIs ==
  ASSUME NEW s, NEW k
  PROVE  <<s, k>> \in FeedDue <=>
           s \in FeedSubs /\ k \in Keys /\ \E i \in DOMAIN stack : Newer(stack[i], s, k, told[s][k])
  BY DEF FeedDue, Newer, Holds

LEMMA DuePairs == \A p \in FeedDue : p = <<p[1], p[2]>> /\ p[1] \in FeedSubs /\ p[2] \in Keys
  BY DEF FeedDue

(* Steps of which the feed sees nothing.                                   *)
LEMMA Unnoticed ==
  ASSUME observed' = observed, Range(subs') = Range(subs),
         \A s \in FeedSubs, k \in Keys : told'[s][k].snap = told[s][k].snap,
         \A s \in FeedSubs, k \in Keys :
           (\E i \in DOMAIN stack : Newer(stack[i], s, k, told[s][k]))
             <=> (\E i \in DOMAIN stack' : Newer(stack'[i], s, k, told'[s][k]))
  PROVE  UNCHANGED <<observed, FeedTold, FeedIn, FeedDue>>
<1>1. FeedTold' = FeedTold
  BY DEF FeedTold
<1>2. FeedDue' = FeedDue
  BY DEF FeedDue, Newer, Holds
<1>3. FeedIn' = FeedIn
  BY DEF FeedIn
<1> QED
  BY <1>1, <1>2, <1>3

LEMMA PushUnnoticed ==
  ASSUME AInv, NEW c, stack' = stack \/ stack' = <<Frame(c)>> \o stack,
         UNCHANGED <<observed, subs, told>>
  PROVE  UNCHANGED <<observed, FeedTold, FeedIn, FeedDue>>
<1>1. CASE stack' = stack
  BY <1>1, Unnoticed
<1>2. CASE stack' = <<Frame(c)>> \o stack
  <2>1. stack \in Seq(Frames) /\ Frame(c) \in Frames /\ Range(Frame(c).queue) = {}
    BY FrameIs, EmptyQueue DEF AInv, Typed
  <2>2. /\ stack'[1] = Frame(c) /\ DOMAIN stack = 1..Len(stack)
        /\ \A i \in DOMAIN stack : i + 1 \in DOMAIN stack' /\ stack'[i + 1] = stack[i]
        /\ \A i \in DOMAIN stack' : i = 1 \/ i - 1 \in DOMAIN stack
    BY <1>2, <2>1, Pushed
  <2>3. ASSUME NEW s, NEW k, NEW i \in DOMAIN stack', Newer(stack'[i], s, k, told[s][k])
        PROVE  \E j \in DOMAIN stack : Newer(stack[j], s, k, told[s][k])
    <3>1. i # 1
      BY <2>1, <2>2, <2>3 DEF Newer, Holds
    <3>2. i - 1 \in DOMAIN stack /\ stack'[(i - 1) + 1] = stack[i - 1]
      BY <2>2, <3>1
    <3>3. i \in Nat
      BY <2>1, <1>2, Pushed, LenProperties
    <3>4. (i - 1) + 1 = i
      BY <3>3
    <3> QED
      BY <2>3, <3>2, <3>4
  <2>4. ASSUME NEW s, NEW k, NEW i \in DOMAIN stack, Newer(stack[i], s, k, told[s][k])
        PROVE  \E j \in DOMAIN stack' : Newer(stack'[j], s, k, told[s][k])
    BY <2>2, <2>4
  <2> QED
    BY <2>3, <2>4, Unnoticed
<1> QED
  BY <1>1, <1>2

LEMMA FinishUnnoticed ==
  ASSUME AInv, Finish
  PROVE  UNCHANGED <<observed, FeedTold, FeedIn, FeedDue>>
<1>1. /\ stack # <<>> /\ stack' = Tail(stack) /\ Head(stack).queue = <<>>
      /\ UNCHANGED <<observed, subs>>
  BY DEF Finish, Quiet
<1>2. \/ Len(stack) > 1 /\ told' = told
      \/ /\ ~(Len(stack) > 1)
         /\ told' = [s \in Subs |-> [k \in Keys |-> [told[s][k] EXCEPT !.rev = 0]]]
  BY DEF Finish
<1>3. Typed /\ stack \in Seq(Frames)
  BY DEF AInv, Typed
<1>4. /\ Len(stack) \in Nat \ {0} /\ DOMAIN stack = 1..Len(stack)
      /\ Head(stack) = stack[1] /\ DOMAIN stack' = 1..(Len(stack) - 1)
      /\ \A i \in DOMAIN stack' : i + 1 \in DOMAIN stack /\ stack'[i] = stack[i + 1]
      /\ \A i \in DOMAIN stack : i = 1 \/ i - 1 \in DOMAIN stack'
  BY <1>1, <1>3, Popped
<1>5. Range(stack[1].queue) = {}
  BY <1>1, <1>4, EmptyQueue
<1>6. CASE Len(stack) > 1
  <2>1. told' = told
    BY <1>2, <1>6
  <2>2. ASSUME NEW s, NEW k, NEW i \in DOMAIN stack, Newer(stack[i], s, k, told[s][k])
        PROVE  \E j \in DOMAIN stack' : Newer(stack'[j], s, k, told[s][k])
    <3>1. i # 1 /\ i \in Nat
      BY <1>4, <1>5, <2>2 DEF Newer, Holds
    <3>2. i - 1 \in DOMAIN stack' /\ (i - 1) + 1 = i
      BY <1>4, <3>1
    <3>3. stack'[i - 1] = stack[(i - 1) + 1]
      BY <1>4, <3>2
    <3> QED
      BY <2>2, <3>2, <3>3
  <2>3. ASSUME NEW s, NEW k, NEW i \in DOMAIN stack', Newer(stack'[i], s, k, told[s][k])
        PROVE  \E j \in DOMAIN stack : Newer(stack[j], s, k, told[s][k])
    BY <1>4, <2>3
  <2> QED
    BY <1>1, <2>1, <2>2, <2>3, Unnoticed
<1>7. CASE ~(Len(stack) > 1)
  <2>1. told' = [s \in Subs |-> [k \in Keys |-> [told[s][k] EXCEPT !.rev = 0]]]
    BY <1>2, <1>7
  <2>2. DOMAIN stack = {1} /\ DOMAIN stack' = {}
    BY <1>4, <1>7
  <2>3. \A s \in Subs, k \in Keys : told'[s][k].snap = told[s][k].snap
    <3> TAKE s \in Subs, k \in Keys
    <3> DEFINE known == told[s][k]
    <3>1. known \in Told /\ told'[s][k] = [known EXCEPT !.rev = 0]
      BY <1>3, <2>1 DEF Typed
    <3> HIDE DEF known
    <3> QED
      BY <3>1 DEF Told, known
  <2>4. \A s, k : ~ \E i \in DOMAIN stack : Newer(stack[i], s, k, told[s][k])
    BY <1>5, <2>2 DEF Newer, Holds
  <2> QED
    BY <1>1, <2>2, <2>3, <2>4, Unnoticed DEF FeedSubs
<1> QED
  BY <1>6, <1>7

LEMMA ReturnUnnoticed ==
  ASSUME AInv, Return
  PROVE  UNCHANGED <<observed, FeedTold, FeedIn, FeedDue>>
<1> DEFINE frame == Head(stack)
           f == [frame EXCEPT !.calling = FALSE]
<1>1. /\ stack # <<>> /\ stack' = <<f>> \o Tail(stack) /\ UNCHANGED <<observed, subs, told>>
  BY DEF Return, InCallback
<1>2. stack \in Seq(Frames)
  BY DEF AInv, Typed
<1>3. frame \in Frames /\ frame = stack[1]
  BY <1>1, <1>2, Popped
<1> HIDE DEF frame
<1>4. f \in Frames /\ f.key = frame.key /\ f.rev = frame.rev /\ f.queue = frame.queue
  BY <1>3 DEF Frames
<1> HIDE DEF f
<1>5. DOMAIN stack' = DOMAIN stack /\ stack'[1] = f /\ \A i \in DOMAIN stack : i # 1 => stack'[i] = stack[i]
  BY <1>1, <1>2, <1>4, Replaced
<1>6. \A s, k : \A i \in DOMAIN stack :
        Newer(stack'[i], s, k, told[s][k]) <=> Newer(stack[i], s, k, told[s][k])
  <2> TAKE s, k
  <2> TAKE i \in DOMAIN stack
  <2>1. CASE i = 1
    BY <1>3, <1>4, <1>5, <2>1 DEF Newer, Holds
  <2>2. CASE i # 1
    BY <1>5, <2>2
  <2> QED
    BY <2>1, <2>2
<1> QED
  BY <1>1, <1>5, <1>6, Unnoticed

(* Every subscription hears of availability: the part of it that Part      *)
(* leaves is then told.                                                    *)
HearOfAvailability == \A s \in FeedSubs : {"available", "unavailable"} \subseteq Filter[s].kinds

LEMMA LooksPublishes ==
  ASSUME HearOfAvailability, AInv, NEW k \in Keys, NEW f \in Frames, Looks(k, f), UNCHANGED <<subs, told>>
  PROVE  Feed!Publish(k)
<1>1. /\ 1 \in DOMAIN stack /\ Range(stack[1].queue) = {}
      /\ f.key = k /\ f.rev = rev + 1
      /\ Range(f.queue) = {s \in Range(subs) : Concerns(s, k, observed[k], Now(k))}
      /\ DOMAIN stack' = DOMAIN stack
      /\ stack'[1] = f /\ \A i \in DOMAIN stack : i # 1 => stack'[i] = stack[i]
      /\ subs' = subs /\ told' = told
  BY DEF Looks
<1>2. /\ Typed /\ StackFits /\ WatchedObserved /\ rev \in Nat /\ Range(subs) \subseteq Subs
      /\ Now(k) \in AllSnapshots /\ Now(k) # Unobserved /\ observed[k] \in AllSnapshots
  BY NowIs, RangeOfSeq DEF AInv, Typed
<1>3. /\ observed'[k] = Now(k) /\ \A j \in Keys \ {k} : observed'[j] = observed[j]
      /\ DOMAIN observed' = Keys
  BY <1>2 DEF Looks, Typed
<1>4. FeedTold' = FeedTold /\ FeedIn' = FeedIn
  BY <1>1 DEF FeedTold, FeedIn
<1>5. FeedDue \subseteq FeedDue'
  <2> SUFFICES ASSUME NEW p \in FeedDue PROVE p \in FeedDue'
    OBVIOUS
  <2>1. PICK i \in DOMAIN stack : /\ stack[i].key = p[2] /\ p[1] \in Range(stack[i].queue)
                                  /\ stack[i].rev > told[p[1]][p[2]].rev
    BY DEF FeedDue
  <2>2. i # 1
    BY <1>1, <2>1
  <2>3. stack'[i] = stack[i] /\ i \in DOMAIN stack'
    BY <1>1, <2>2
  <2>4. p \in FeedSubs \X Keys
    BY DEF FeedDue
  <2> QED
    BY <1>1, <2>1, <2>3, <2>4 DEF FeedDue
<1>6. FeedDue' \ FeedDue \subseteq FeedIn \X {k}
  <2> SUFFICES ASSUME NEW p \in FeedDue', p \notin FeedDue PROVE p \in FeedIn \X {k}
    OBVIOUS
  <2>1. p \in FeedSubs \X Keys
    BY DEF FeedDue
  <2>2. PICK i \in DOMAIN stack' : /\ stack'[i].key = p[2] /\ p[1] \in Range(stack'[i].queue)
                                   /\ stack'[i].rev > told'[p[1]][p[2]].rev
    BY DEF FeedDue
  <2>3. i = 1
    <3> SUFFICES ASSUME i # 1 PROVE FALSE
      OBVIOUS
    <3>1. stack'[i] = stack[i] /\ i \in DOMAIN stack
      BY <1>1
    <3> QED
      BY <1>1, <2>1, <2>2, <3>1 DEF FeedDue
  <2>4. p[2] = k /\ p[1] \in Range(subs)
    BY <1>1, <2>2, <2>3
  <2> QED
    BY <2>1, <2>4 DEF FeedIn
<1>7. ASSUME NEW s \in FeedIn, Part(s, k, observed'[k]) # Part(s, k, observed[k])
      PROVE  <<s, k>> \in FeedDue'
  <2>1. s \in Range(subs) /\ s \in FeedSubs /\ s \in Subs
    BY DEF FeedIn, FeedSubs
  <2>2. k \in Watched(s, NoConfig)
    BY <1>7, PartElsewhere
  <2>3. observed[k] # Unobserved
    BY <1>2, <2>1, <2>2 DEF WatchedObserved
  <2>4. Concerns(s, k, observed[k], Now(k))
    BY <1>2, <1>3, <1>7, <2>1, <2>3, PartTold DEF HearOfAvailability
  <2>5. told[s][k].rev \in Nat /\ told[s][k].rev <= rev
    BY <1>2, <2>1 DEF Typed, Told, StackFits
  <2>6. Newer(stack'[1], s, k, told'[s][k])
    BY <1>1, <1>2, <2>1, <2>4, <2>5 DEF Newer, Holds
  <2>7. <<s, k>> \in FeedDue' <=> s \in FeedSubs /\ k \in Keys /\ \E i \in DOMAIN stack' : Newer(stack'[i], s, k, told'[s][k])
    BY DEF FeedDue, Newer, Holds
  <2> QED
    BY <1>1, <2>1, <2>6, <2>7
<1> QED
  BY <1>3, <1>4, <1>5, <1>6, <1>7, PublishIs

LEMMA TellsTells ==
  ASSUME HearOfAvailability, AInv, NEW s \in Subs, NEW k \in Keys, NEW f \in Frames,
         Tells(s, k, f), UNCHANGED <<subs, observed, rev>>
  PROVE  \/ s \in FeedSubs /\ Feed!Tell(s, k)
         \/ UNCHANGED <<observed, FeedTold, FeedIn, FeedDue>>
<1>1. /\ 1 \in DOMAIN stack
      /\ stack[1].key = k /\ Range(stack[1].queue) = {s} \cup Range(f.queue)
      /\ s \notin Range(f.queue)
      /\ f.key = k /\ f.snap = stack[1].snap /\ f.rev = stack[1].rev
      /\ DOMAIN stack' = DOMAIN stack /\ DOMAIN stack = 1..Len(stack) /\ Len(stack) \in Nat
      /\ stack'[1] = f /\ \A i \in DOMAIN stack : i # 1 => stack'[i] = stack[i]
      /\ subs' = subs /\ observed' = observed
  BY DEF Tells
<1>2. Typed /\ StackFits /\ NewestKnown
  BY DEF AInv
<1>3. /\ \A t \in Subs, j \in Keys : t # s \/ j # k => told'[t][j] = told[t][j]
      /\ told[s][k].rev > f.rev => told'[s][k] = told[s][k]
      /\ ~(told[s][k].rev > f.rev) => told'[s][k] = [snap |-> f.snap, rev |-> f.rev]
  BY <1>2, ToldAfter
<1>4. \A i \in DOMAIN stack : stack[i] \in Frames /\ FrameFits(stack[i])
  BY <1>1, <1>2, ElementOfSeq DEF Typed, StackFits
<1>5. \A i \in DOMAIN stack : stack[i].rev \in Nat /\ (i # 1 => stack[i].rev < stack[1].rev)
  <2>1. Range(stack[1].queue) # {} /\ \A i \in DOMAIN stack : i # 1 => 1 < i
    BY <1>1
  <2>2. \A i \in DOMAIN stack : 1 < i => stack[i].rev < stack[1].rev
    BY <1>1, <1>2, <2>1, Zenon DEF StackFits
  <2> QED
    BY <1>4, <2>1, <2>2 DEF Frames
<1>6. s \in Range(subs) /\ told[s][k].rev # f.rev /\ told[s][k].rev \in Nat /\ f.rev \in Nat
  <2>1. told[s][k] \in Told
    BY <1>2 DEF Typed
  <2> QED
    BY <1>1, <1>4, <1>5, <2>1 DEF FrameFits, Told
<1>7. ASSUME NEW t \in Subs, NEW j \in Keys, t # s \/ j # k
      PROVE  /\ told'[t][j] = told[t][j]
             /\ \A i \in DOMAIN stack : Newer(stack'[i], t, j, told'[t][j]) <=> Newer(stack[i], t, j, told[t][j])
  <2>1. told'[t][j] = told[t][j]
    BY <1>3, <1>7
  <2>2. ASSUME NEW i \in DOMAIN stack
        PROVE  Newer(stack'[i], t, j, told'[t][j]) <=> Newer(stack[i], t, j, told[t][j])
    <3>1. CASE i = 1
      BY <1>1, <1>7, <2>1, <3>1 DEF Newer, Holds
    <3>2. CASE i # 1
      BY <1>1, <2>1, <3>2
    <3> QED
      BY <3>1, <3>2
  <2> QED
    BY <2>1, <2>2
<1>8. ASSUME NEW i \in DOMAIN stack
      PROVE  ~Newer(stack'[i], s, k, told'[s][k])
  <2>1. CASE i = 1
    BY <1>1, <2>1 DEF Newer, Holds
  <2>2. CASE i # 1
    <3>1. ~(stack'[i].rev > told'[s][k].rev)
      <4>1. stack'[i].rev \in Nat /\ stack'[i].rev < f.rev
        BY <1>1, <1>5, <2>2
      <4>2. CASE told[s][k].rev > f.rev
        BY <1>3, <1>6, <4>1, <4>2
      <4>3. CASE ~(told[s][k].rev > f.rev)
        <5>1. told'[s][k].rev = f.rev
          BY <1>3, <4>3
        <5> QED
          BY <1>6, <4>1, <5>1
      <4> QED
        BY <4>2, <4>3
    <3> QED
      BY <3>1 DEF Newer
  <2> QED
    BY <2>1, <2>2
<1>9. CASE s \in FeedSubs /\ ~(told[s][k].rev > f.rev)
  <2>1. Newer(stack[1], s, k, told[s][k])
    BY <1>1, <1>6, <1>9 DEF Newer, Holds
  <2>2. <<s, k>> \in FeedDue
    BY <1>1, <1>9, <2>1, DueIs
  <2>3. Part(s, k, f.snap) = Part(s, k, observed[k])
    <3>1. \A j \in DOMAIN stack : ~(j < 1)
      BY <1>1
    <3>2. Knows(s, k, stack[1].snap, observed[k])
      BY <1>1, <1>2, <1>6, <2>1, <3>1 DEF NewestKnown
    <3> QED
      BY <1>1, <1>9, <3>2 DEF Knows, HearOfAvailability
  <2>4. FeedTold' = [FeedTold EXCEPT ![s][k] = Part(s, k, observed[k])]
    <3>1. told'[s][k].snap = f.snap
      BY <1>3, <1>9
    <3>2. \A t \in FeedSubs, j \in Keys :
            Part(t, j, told'[t][j].snap)
              = IF t = s /\ j = k THEN Part(s, k, observed[k]) ELSE Part(t, j, told[t][j].snap)
      BY <1>7, <2>3, <3>1 DEF FeedSubs
    <3> QED
      BY <3>2 DEF FeedTold
  <2>5. FeedDue' = FeedDue \ {<<s, k>>}
    <3>1. ASSUME NEW p \in FeedDue'
          PROVE  p \in FeedDue /\ p # <<s, k>>
      <4>1. p[1] \in FeedSubs /\ p[2] \in Keys /\ p = <<p[1], p[2]>>
        BY DEF FeedDue
      <4>2. PICK i \in DOMAIN stack : Newer(stack'[i], p[1], p[2], told'[p[1]][p[2]])
        BY <1>1 DEF FeedDue, Newer, Holds
      <4>3. p[1] # s \/ p[2] # k
        BY <1>8, <4>2
      <4>4. Newer(stack[i], p[1], p[2], told[p[1]][p[2]])
        BY <1>7, <4>1, <4>2, <4>3 DEF FeedSubs
      <4> QED
        BY <4>1, <4>3, <4>4, DueIs
    <3>2. ASSUME NEW p \in FeedDue, p # <<s, k>>
          PROVE  p \in FeedDue'
      <4>1. p[1] \in FeedSubs /\ p[2] \in Keys /\ p = <<p[1], p[2]>>
        BY DuePairs
      <4>2. PICK i \in DOMAIN stack : Newer(stack[i], p[1], p[2], told[p[1]][p[2]])
        BY DEF FeedDue, Newer, Holds
      <4>3. p[1] # s \/ p[2] # k
        BY <3>2, <4>1
      <4>4. Newer(stack'[i], p[1], p[2], told'[p[1]][p[2]])
        BY <1>7, <4>1, <4>2, <4>3 DEF FeedSubs
      <4>5. p \in FeedSubs \X Keys
        BY DEF FeedDue
      <4> QED
        BY <1>1, <4>4, <4>5 DEF FeedDue, Newer, Holds
    <3> QED
      BY <3>1, <3>2
  <2>6. FeedIn' = FeedIn
    BY <1>1 DEF FeedIn
  <2>7. Feed!Tell(s, k)
    BY <1>1, <2>2, <2>4, <2>5, <2>6, TellIs
  <2> QED
    BY <1>9, <2>7
<1>10. CASE s \notin FeedSubs \/ told[s][k].rev > f.rev
  <2>1. ASSUME NEW t \in FeedSubs, NEW j \in Keys
        PROVE  /\ told'[t][j].snap = told[t][j].snap
               /\ \A i \in DOMAIN stack : Newer(stack'[i], t, j, told'[t][j]) <=> Newer(stack[i], t, j, told[t][j])
    <3>1. CASE t # s \/ j # k
      BY <1>7, <3>1 DEF FeedSubs
    <3>2. CASE t = s /\ j = k
      <4>1. told'[t][j] = told[t][j]
        BY <1>3, <1>10, <3>2
      <4>2. ASSUME NEW i \in DOMAIN stack
            PROVE  ~Newer(stack[i], s, k, told[s][k])
        <5>1. ~(stack[i].rev > told[s][k].rev)
          BY <1>1, <1>5, <1>6, <1>10, <3>2
        <5> QED
          BY <5>1 DEF Newer
      <4> QED
        BY <1>8, <3>2, <4>1, <4>2
    <3> QED
      BY <3>1, <3>2
  <2>2. \A t \in FeedSubs, j \in Keys :
          (\E i \in DOMAIN stack : Newer(stack[i], t, j, told[t][j]))
            <=> (\E i \in DOMAIN stack' : Newer(stack'[i], t, j, told'[t][j]))
    BY <1>1, <2>1
  <2> QED
    BY <1>1, <2>1, <2>2, Unnoticed
<1> QED
  BY <1>9, <1>10

(* Whom an update is owed to is in force.                                  *)
LEMMA DueInForce ==
  ASSUME StackFits, NEW p \in FeedDue
  PROVE  p[1] \in FeedIn
<1>1. PICK i \in DOMAIN stack : p[1] \in Range(stack[i].queue)
  BY DEF FeedDue
<1>2. Range(stack[i].queue) \subseteq Range(subs)
  BY DEF StackFits, FrameFits
<1> QED
  BY <1>1, <1>2, DuePairs DEF FeedIn

LEMMA SubscribeBegins ==
  ASSUME AInv, NEW s0 \in Subs, Subscribe(s0)
  PROVE  \/ s0 \in FeedSubs /\ Feed!Begin(s0)
         \/ Feed!End
<1> DEFINE base == [k \in Keys |-> IF k \in Watched(s0, active) /\ observed[k] = Unobserved
                                   THEN Capture(active, world, k) ELSE observed[k]]
           first == [k \in Keys |-> [snap |-> base[k], rev |-> rev]]
<1>1. /\ s0 \notin Range(subs) /\ observed' = base /\ told' = [told EXCEPT ![s0] = first]
      /\ subs' = Append(subs, s0) /\ stack' = stack
  BY DEF Subscribe, Enrolled
<1>2. /\ Typed /\ StackFits /\ WatchedObserved /\ subs \in Seq(Subs) /\ Range(subs) \subseteq Subs
  BY RangeOfSeq DEF AInv, Typed
<1>3. /\ DOMAIN base = Keys
      /\ \A k \in Keys : base[k] = observed[k] \/ observed[k] = Unobserved
  OBVIOUS
<1>4. \A k \in Keys : first[k].snap = base[k]
  OBVIOUS
<1> HIDE DEF base, first
<1>5. told'[s0] = first /\ \A s \in Subs : s # s0 => told'[s] = told[s]
  BY <1>1, <1>2 DEF Typed
<1>6. Range(subs') = Range(subs) \cup {s0}
  BY <1>1, <1>2, AppendRange
<1>7. \A r \in FeedIn, k \in Keys : Part(r, k, base[k]) = Part(r, k, observed[k])
  <2> TAKE r \in FeedIn, k \in Keys
  <2>1. CASE base[k] = observed[k]
    BY <2>1
  <2>2. CASE observed[k] = Unobserved
    <3>1. k \notin Watched(r, NoConfig)
      BY <1>2, <2>2 DEF WatchedObserved, FeedIn
    <3> QED
      BY <3>1, PartElsewhere
  <2> QED
    BY <1>3, <2>1, <2>2
<1>8. FeedDue' = FeedDue
  <2>1. \A i \in DOMAIN stack : s0 \notin Range(stack[i].queue)
    BY <1>1, <1>2 DEF StackFits, FrameFits
  <2>2. \A i \in DOMAIN stack : \A s \in Range(stack[i].queue) : s \in Subs => told'[s] = told[s]
    BY <1>5, <2>1
  <2> QED
    BY <1>1, <2>2 DEF FeedDue, FeedSubs
<1>9. CASE s0 \in FeedSubs
  <2>1. s0 \notin FeedIn /\ FeedIn' = FeedIn \cup {s0}
    BY <1>1, <1>6, <1>9 DEF FeedIn
  <2>2. FeedTold' = [FeedTold EXCEPT ![s0] = [k \in Keys |-> Part(s0, k, observed'[k])]]
    <3> DEFINE mine == [k \in Keys |-> Part(s0, k, observed'[k])]
    <3>1. mine = [k \in Keys |-> Part(s0, k, told'[s0][k].snap)]
      BY <1>1, <1>4, <1>5
    <3> HIDE DEF mine
    <3>2. \A s \in FeedSubs : [k \in Keys |-> Part(s, k, told'[s][k].snap)]
            = IF s = s0 THEN mine ELSE [k \in Keys |-> Part(s, k, told[s][k].snap)]
      BY <1>5, <3>1 DEF FeedSubs
    <3>3. FeedTold' = [FeedTold EXCEPT ![s0] = mine]
      BY <3>2 DEF FeedTold
    <3> QED
      BY <3>3 DEF mine
  <2>3. Feed!Begin(s0)
    BY <1>1, <1>3, <1>7, <1>8, <2>1, <2>2, BeginIs
  <2> QED
    BY <1>9, <2>3
<1>10. CASE s0 \notin FeedSubs
  <2>1. FeedIn' = FeedIn
    BY <1>6, <1>10 DEF FeedIn
  <2>2. FeedTold' = FeedTold
    BY <1>5, <1>10 DEF FeedTold, FeedSubs
  <2>3. DOMAIN FeedTold' = FeedSubs
    BY DEF FeedTold
  <2>4. FeedDue' = {p \in FeedDue : p[1] \in FeedIn'}
    BY <1>2, <1>8, <2>1, DueInForce
  <2> QED
    BY <1>1, <1>3, <1>7, <2>1, <2>2, <2>3, <2>4, EndIs
<1> QED
  BY <1>9, <1>10

LEMMA UnsubscribeEnds ==
  ASSUME AInv, NEW gone \in SUBSET Subs, Unsubscribe(gone)
  PROVE  Feed!End
<1>1. /\ subs' = Those(subs, Subs \ gone) /\ stack' = Without(gone)
      /\ told' = [s \in Subs |-> IF s \in gone THEN Untold ELSE told[s]]
      /\ observed' = observed
  BY DEF Unsubscribe
<1>2. /\ Typed /\ StackFits /\ subs \in Seq(Subs)
  BY DEF AInv, Typed
<1>3. Range(subs') = Range(subs) \cap (Subs \ gone)
  BY <1>1, <1>2, ThoseAre
<1>4. /\ DOMAIN stack' = DOMAIN stack
      /\ \A i \in DOMAIN stack : Follows(stack'[i], stack[i], Subs \ gone)
  BY <1>1, <1>2, WithoutIs
<1>5. FeedIn' = FeedIn \ gone
  BY <1>3 DEF FeedIn, FeedSubs
<1>6. \A s \in Subs : s \notin gone => told'[s] = told[s]
  BY <1>1
<1>7. FeedDue' = {p \in FeedDue : p[1] \in FeedIn'}
  <2>1. ASSUME NEW p \in FeedDue'
        PROVE  p \in FeedDue /\ p[1] \in FeedIn'
    <3>1. p \in FeedSubs \X Keys /\ p[1] \in Subs
      BY DEF FeedDue, FeedSubs
    <3>2. PICK i \in DOMAIN stack' : /\ stack'[i].key = p[2] /\ p[1] \in Range(stack'[i].queue)
                                     /\ stack'[i].rev > told'[p[1]][p[2]].rev
      BY DEF FeedDue
    <3>3. /\ stack[i].key = p[2] /\ p[1] \in Range(stack[i].queue) /\ p[1] \notin gone
          /\ stack'[i].rev = stack[i].rev
      BY <1>4, <3>2 DEF Follows
    <3>4. p \in FeedDue
      BY <1>4, <1>6, <3>1, <3>2, <3>3 DEF FeedDue
    <3> QED
      BY <1>2, <1>5, <3>3, <3>4, DueInForce
  <2>2. ASSUME NEW p \in FeedDue, p[1] \in FeedIn'
        PROVE  p \in FeedDue'
    <3>1. p \in FeedSubs \X Keys /\ p[1] \in Subs /\ p[1] \notin gone
      BY <1>5, <2>2 DEF FeedDue, FeedSubs
    <3>2. PICK i \in DOMAIN stack : /\ stack[i].key = p[2] /\ p[1] \in Range(stack[i].queue)
                                    /\ stack[i].rev > told[p[1]][p[2]].rev
      BY DEF FeedDue
    <3>3. /\ stack'[i].key = p[2] /\ p[1] \in Range(stack'[i].queue)
          /\ stack'[i].rev = stack[i].rev
      BY <1>4, <3>1, <3>2 DEF Follows
    <3> QED
      BY <1>4, <1>6, <3>1, <3>2, <3>3 DEF FeedDue
  <2> QED
    BY <2>1, <2>2
<1>8. /\ DOMAIN FeedTold' = FeedSubs /\ \A s \in FeedIn' : FeedTold'[s] = FeedTold[s]
  BY <1>5, <1>6 DEF FeedTold, FeedIn, FeedSubs
<1>9. DOMAIN observed' = Keys
  BY <1>1, <1>2 DEF Typed
<1> QED
  BY <1>1, <1>5, <1>7, <1>8, <1>9, EndIs

LEMMA CloseEnds ==
  ASSUME AInv, Close
  PROVE  Feed!End
<1>1. /\ subs' = <<>> /\ stack' = Without(Subs) /\ observed' = [k \in Keys |-> Unobserved]
  BY DEF Close
<1>2. Typed /\ StackFits
  BY DEF AInv
<1>3. /\ DOMAIN stack' = DOMAIN stack
      /\ \A i \in DOMAIN stack : Follows(stack'[i], stack[i], Subs \ Subs)
  BY <1>1, <1>2, WithoutIs
<1>4. FeedIn' = {}
  BY <1>1, EmptyQueue DEF FeedIn
<1>5. FeedDue' = {}
  BY <1>3 DEF FeedDue, Follows
<1>6. DOMAIN FeedTold' = FeedSubs
  BY DEF FeedTold
<1> QED
  BY <1>1, <1>4, <1>5, <1>6, EndIs

LEMMA StepFeeds ==
  ASSUME HearOfAvailability, AInv, [Next]_vars
  PROVE  [Feed!Next]_Feed!vars
<1> DEFINE Stutters == UNCHANGED <<observed, FeedTold, FeedIn, FeedDue>>
<1>1. ASSUME NEW c \in Configs, NEW w \in Worlds, Activate(c, w) PROVE Stutters
  <2>1. /\ stack' = stack \/ stack' = <<Frame(c)>> \o stack
        /\ UNCHANGED <<observed, subs, told>>
    BY <1>1 DEF Activate, Dispatch
  <2> QED
    BY <2>1, PushUnnoticed
<1>2. ASSUME Deactivate PROVE Stutters
  <2>1. /\ stack' = stack \/ stack' = <<Frame(NoConfig)>> \o stack
        /\ UNCHANGED <<observed, subs, told>>
    BY <1>2 DEF Deactivate, Dispatch
  <2> QED
    BY <2>1, PushUnnoticed
<1>3. ASSUME NEW w \in Worlds, GraphChange(w) PROVE Stutters
  <2>1. /\ stack' = stack \/ stack' = <<Frame(active)>> \o stack
        /\ UNCHANGED <<observed, subs, told>>
    BY <1>3 DEF GraphChange, Dispatch
  <2> QED
    BY <2>1, PushUnnoticed
<1>4. ASSUME NEW p \in Ageing, Lapse(p[1], p[2]) PROVE Stutters
  <2>1. stack' = stack /\ UNCHANGED <<observed, subs, told>>
    BY <1>4 DEF Lapse
  <2> QED
    BY <2>1, PushUnnoticed
<1>5. ASSUME Advance PROVE \E k \in Keys : Feed!Publish(k)
  <2>1. PICK k \in Keys, f \in Frames : Looks(k, f)
    BY <1>5, AdvanceLooks
  <2>2. UNCHANGED <<subs, told>>
    BY <1>5 DEF Advance
  <2> QED
    BY <2>1, <2>2, LooksPublishes
<1>6. ASSUME Deliver PROVE Stutters \/ \E s \in FeedSubs, k \in Keys : Feed!Tell(s, k)
  <2>1. PICK s \in Subs, k \in Keys, f \in Frames : Tells(s, k, f)
    BY <1>6, DeliverTells
  <2>2. UNCHANGED <<subs, observed, rev>>
    BY <1>6 DEF Deliver
  <2> QED
    BY <2>1, <2>2, TellsTells
<1>7. ASSUME Return PROVE Stutters
  BY <1>7, ReturnUnnoticed
<1>8. ASSUME Finish PROVE Stutters
  BY <1>8, FinishUnnoticed
<1>9. ASSUME NEW s \in Subs, Subscribe(s)
      PROVE  Feed!End \/ \E r \in FeedSubs : Feed!Begin(r)
  BY <1>9, SubscribeBegins
<1>10. ASSUME NEW gone \in SUBSET Subs, Unsubscribe(gone) PROVE Feed!End
  BY <1>10, UnsubscribeEnds
<1>11. ASSUME Close PROVE Feed!End
  BY <1>11, CloseEnds
<1>12. ASSUME UNCHANGED vars PROVE Stutters
  <2>1. stack' = stack /\ UNCHANGED <<observed, subs, told>>
    BY <1>12 DEF vars
  <2> QED
    BY <2>1, PushUnnoticed
<1> HIDE DEF Stutters
<1>13. \/ \E k \in Keys : Feed!Publish(k)
       \/ \E s \in FeedSubs, k \in Keys : Feed!Tell(s, k)
       \/ \E s \in FeedSubs : Feed!Begin(s)
       \/ Feed!End
       \/ Stutters
  <2>1. CASE UNCHANGED vars
    BY <1>12, <2>1
  <2>2. CASE Next
    BY <1>1, <1>2, <1>3, <1>4, <1>5, <1>6, <1>7, <1>8, <1>9, <1>10, <1>11, <2>2, NextIs, Zenon
  <2> QED
    BY <2>1, <2>2
<1> QED
  BY <1>13, FeedNextIs, Zenon DEF Stutters

(* ApiImplementsFeed: where every subscription hears of availability, the  *)
(* API implements the safety of the feed (FeedSpec without its fairness):  *)
(* each step of a dispatch or a consumer publishes, tells, begins or ends, *)
(* or is none of the feed's business.                                      *)
THEOREM ApiImplementsFeed ==
  ASSUME HearOfAvailability
  PROVE  Spec => Feed!Init /\ [][Feed!Next]_Feed!vars
<1>1. Init => Feed!Init
  <2> SUFFICES ASSUME Init PROVE Feed!Init
    OBVIOUS
  <2>1. subs = <<>> /\ stack = <<>> /\ observed = [k \in Keys |-> Unobserved]
    BY DEF Init
  <2>2. FeedIn = {} /\ FeedDue = {}
    <3>1. DOMAIN stack = {} /\ Range(subs) = {}
      BY <2>1, EmptySeq, EmptyQueue
    <3> QED
      BY <3>1 DEF FeedIn, FeedDue
  <2>3. DOMAIN observed = Keys /\ DOMAIN FeedTold = FeedSubs
    BY <2>1 DEF FeedTold
  <2>4. Feed!Init <=> /\ DOMAIN observed = Keys /\ DOMAIN FeedTold = FeedSubs
                      /\ FeedIn = {} /\ FeedDue = {}
    BY DEF Feed!Init, FeedTold, FeedIn, FeedDue
  <2> QED
    BY <2>2, <2>3, <2>4
<1>2. AInv /\ [Next]_vars => [Feed!Next]_Feed!vars
  BY StepFeeds
<1> QED
  BY <1>1, <1>2, ApiInvariant, PTL DEF Spec

(* ApiSubscribersCurrent: the promise of the feed, kept: at rest, whoever  *)
(* subscribes to contracts and hears of their availability knows its part  *)
(* of each of them as it was last observed.                                *)
THEOREM ApiSubscribersCurrent ==
  ASSUME HearOfAvailability
  PROVE  Spec => [](Quiet => \A s \in Range(subs) \cap FeedSubs, k \in Keys :
                               Part(s, k, told[s][k].snap) = Part(s, k, observed[k]))
<1>1. AInv => (Quiet => \A s \in Range(subs) \cap FeedSubs, k \in Keys :
                          Part(s, k, told[s][k].snap) = Part(s, k, observed[k]))
  BY AtRest DEF Knows, HearOfAvailability
<1> QED
  BY <1>1, ApiInvariant, PTL

=============================================================================
