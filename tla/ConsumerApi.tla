---------------------------- MODULE ConsumerApi ----------------------------
(***************************************************************************)
(* The consumer API over the runtime of one household (consumer_api.py):   *)
(* it follows the graph of the active registry revision, keeps what it     *)
(* last observed of every watched contract and calls the subscribers whose *)
(* part of it changed.  Callbacks run inside the dispatch: they may        *)
(* subscribe, unsubscribe, close the API or change the graph, and a change *)
(* of the graph is dispatched at once, inside the dispatch under way.      *)
(*                                                                         *)
(* A field is "good" (valid, fresh, healthy) or something worse; value,    *)
(* quality and freshness events of a field are one kind, "field".          *)
(* Evaluation errors of an activated contract cannot occur (the activation *)
(* has evaluated it).                                                      *)
(***************************************************************************)
EXTENDS Integers, Sequences, FiniteSets, SequencesExt

CONSTANTS
  KeySeq,     (* the contract ids in their sorted order                    *)
  Configs,    (* registry payloads: [Keys -> NoDef or [version, fields,    *)
              (* roles]]; roles are those its input bindings match         *)
  Values,     (* [Keys -> values of its fields]; "good" is one of them     *)
  Subs,       (* subscription ids                                          *)
  Filter,     (* [Subs -> [contract, role, fields, kinds, declared]], the  *)
              (* last: contracts of the consumer's declared requirements   *)
  Ageing,     (* pairs <<k, f>>: fields whose evidence grows old            *)
  MaxSubs,    (* bound: subscriptions in force at once                     *)
  MaxChanges, (* bound: graph changes made by callbacks in one dispatch    *)
  NoDef, NoConfig, NoKey, NoRole

Keys == Range(KeySeq)

(* The fields of a contract, in whichever revision.                        *)
Fields(k) == UNION {c[k].fields : c \in {d \in Configs : d[k] # NoDef}}
Worlds == {w \in [Keys -> UNION {[Fields(k) -> Values[k]] : k \in Keys}] :
             \A k \in Keys : w[k] \in [Fields(k) -> Values[k]]}

ASSUME ApiConstants ==
  /\ MaxSubs \in Nat /\ MaxChanges \in Nat
  /\ KeySeq \in Seq(Keys) /\ IsInjective(KeySeq)
  /\ NoKey \notin Keys /\ NoConfig \notin Configs
  /\ \A s \in Subs :
       /\ Filter[s].contract \in Keys \cup {NoKey} /\ Filter[s].declared \subseteq Keys
       /\ Filter[s].contract = NoKey \/ Filter[s].role = NoRole
  /\ \A p \in Ageing : p[1] \in Keys /\ p[2] \in Fields(p[1]) /\ "bad" \in Values[p[1]]

VARIABLES
  active,    (* configuration of the active runtime snapshot, or NoConfig  *)
  world,     (* [Keys -> [field -> value]]: what an evaluation would yield *)
  attached,  (* does it listen to the active graph?                        *)
  observed,  (* [Keys -> what was last captured, or Unobserved]            *)
  subs,      (* the subscriptions in force, in their order                 *)
  stack,     (* dispatches under way, the innermost first                  *)
  told,      (* [Subs -> [Keys -> [snap, rev]]]: newest update, or what    *)
             (* was known at the subscription                              *)
  rev,       (* graph revision, counted since the outermost dispatch began *)
  changes,   (* graph changes made by callbacks since then                 *)
  closed

vars == <<active, world, attached, observed, subs, stack, told, rev, changes, closed>>

Unobserved == [status |-> "unobserved"]
Absent(status) == [status |-> status]
Untold == [k \in Keys |-> [snap |-> Unobserved, rev |-> 0]]
Present(v) == v.status = "present"

-----------------------------------------------------------------------------
(* The members of S in the sequence s, in their order there.               *)
Those(s, S) ==
  LET upto[i \in 0..Len(s)] ==
        IF i = 0 THEN <<>>
        ELSE IF s[i] \in S THEN Append(upto[i - 1], s[i]) ELSE upto[i - 1]
  IN  upto[Len(s)]

-----------------------------------------------------------------------------
(* What the API captures, and of which contracts.                          *)

Capture(config, w, k) ==
  CASE config = NoConfig -> Absent("runtime_not_ready")
    [] config # NoConfig /\ config[k] = NoDef -> Absent("missing")
    [] OTHER -> [status |-> "present", def |-> config[k],
                 values |-> [f \in config[k].fields |-> w[k][f]]]

Health(v) == IF \A f \in DOMAIN v.values : v.values[f] = "good" THEN "healthy" ELSE "degraded"

(* _contract_ids_for_role                                                  *)
RoleKeys(config, role) ==
  IF config = NoConfig THEN {}
  ELSE {k \in Keys : config[k] # NoDef /\ role \in config[k].roles}

(* _subscription_contracts                                                 *)
Watched(s, config) ==
  LET f == Filter[s]
  IN  CASE f.contract # NoKey -> {f.contract}
        [] f.contract = NoKey /\ f.role # NoRole -> RoleKeys(config, f.role)
        [] OTHER -> f.declared

(* _watched_contracts                                                      *)
AllWatched(config) ==
  {k \in Keys : observed[k] # Unobserved} \cup UNION {Watched(s, config) : s \in Range(subs)}

-----------------------------------------------------------------------------
(* Which subscribers a change concerns.                                    *)

ChangedFields(old, new) ==
  IF ~Present(old) \/ ~Present(new) THEN {}
  ELSE {f \in DOMAIN old.values \cup DOMAIN new.values :
          ~(f \in DOMAIN old.values \cap DOMAIN new.values /\ old.values[f] = new.values[f])}

(* A contract that was never observed counts as one whose runtime is not   *)
(* ready, but its fingerprint ("unobserved") differs from every other.     *)
Status(v) == IF v = Unobserved THEN "runtime_not_ready" ELSE v.status

(* Another definition, or another reason for having none.                  *)
Revised(old, new) ==
  IF Present(old) /\ Present(new) THEN old.def # new.def ELSE old.status # new.status

(* _diff_observed                                                          *)
Events(old, new) ==
  (IF ~Present(old) /\ Present(new) THEN {"available"} ELSE {})
  \cup (IF Present(old) /\ ~Present(new) THEN {"unavailable"} ELSE {})
  \cup (IF Revised(old, new) THEN {"revision"} ELSE {})
  \cup (IF ChangedFields(old, new) # {} THEN {"field"} ELSE {})
  \cup (IF \/ ~Present(old) /\ ~Present(new) /\ Status(old) # Status(new)
           \/ Present(old) /\ Present(new) /\ Health(old) # Health(new)
        THEN {"health"} ELSE {})

(* Faulty: a field filter lets only changes of its fields through.         *)
Dropped_All(s, changed) ==
  IF Filter[s].fields = {} \/ changed \cap Filter[s].fields # {} THEN {}
  ELSE {"health", "field", "revision", "available", "unavailable"}

(* What a field filter drops from a change of other fields.                *)
Dropped(s, changed) ==
  IF Filter[s].fields = {} \/ changed \cap Filter[s].fields # {} THEN {}
  ELSE {"health", "field"} \cup (IF changed # {} THEN {"revision"} ELSE {})

(* _dispatch_contract_change.  Faulty: a subscription to a role is not     *)
(* told that a contract is back.                                           *)
Concerns_Back(s, k, old, new) ==
  LET events == Events(old, new) \ (IF Filter[s].role = NoRole THEN {} ELSE {"available", "revision"})
  IN  /\ Filter[s].contract \in {k, NoKey}
      /\ Filter[s].role # NoRole => k \in RoleKeys(active, Filter[s].role)
      /\ (events \ Dropped(s, ChangedFields(old, new))) \cap Filter[s].kinds # {}

Concerns(s, k, old, new) ==
  /\ Filter[s].contract \in {k, NoKey}
  /\ Filter[s].role # NoRole => k \in RoleKeys(active, Filter[s].role)
  /\ (Events(old, new) \ Dropped(s, ChangedFields(old, new))) \cap Filter[s].kinds # {}

-----------------------------------------------------------------------------
(* Dispatch.  A frame: the contracts still to look at, the one whose       *)
(* change is delivered with its snapshot and graph revision, the           *)
(* subscribers still to call, and whether a callback runs.                 *)

Quiet == stack = <<>>
InCallback == stack # <<>> /\ Head(stack).calling

Frame(config) ==
  [todo |-> Those(KeySeq, AllWatched(config)), key |-> NoKey,
   snap |-> Unobserved, rev |-> 0, queue |-> <<>>, calling |-> FALSE]

Dispatch(config) == stack' = <<Frame(config)>> \o stack

(* _on_runtime_activation: a new snapshot, of the same or of another       *)
(* configuration; its graph knows what its unchanged contracts knew.       *)
Activate(c, w) ==
  /\ Quiet
  /\ active' = c
  /\ world' = w
  /\ \A k \in Keys : (active # NoConfig /\ active[k] = c[k]) => w[k] = world[k]
  /\ IF closed THEN UNCHANGED <<attached, stack>>
     ELSE attached' = TRUE /\ Dispatch(c)
  /\ UNCHANGED <<observed, subs, told, rev, changes, closed>>

Deactivate ==
  /\ Quiet /\ active # NoConfig
  /\ active' = NoConfig
  /\ IF closed THEN UNCHANGED <<attached, stack>>
     ELSE attached' = FALSE /\ Dispatch(NoConfig)
  /\ UNCHANGED <<world, observed, subs, told, rev, changes, closed>>

(* Faulty: a change that a callback makes is left to the dispatch under    *)
(* way (the graph listener is suppressed while it runs).                   *)
Dispatched_Outermost == attached /\ Quiet

Dispatched == attached

(* Ingest or an evaluation by somebody else: the graph tells its listeners *)
(* (_on_graph_change).                                                     *)
GraphChange(w) ==
  /\ active # NoConfig
  /\ Quiet \/ (InCallback /\ changes < MaxChanges)
  /\ world' = w
  /\ changes' = IF Quiet THEN changes ELSE changes + 1
  /\ IF Dispatched THEN Dispatch(active) ELSE UNCHANGED stack
  /\ UNCHANGED <<active, attached, observed, subs, told, rev, closed>>

(* Time alone makes evidence old; nobody is told.                          *)
Lapse(k, f) ==
  /\ Quiet /\ active # NoConfig
  /\ world[k][f] = "good"
  /\ world' = [world EXCEPT ![k][f] = "bad"]
  /\ UNCHANGED <<active, attached, observed, subs, stack, told, rev, changes, closed>>

(* The loop body of both listeners: capture, keep, and see whom it         *)
(* concerns (tuple(self._subscriptions.values())).                         *)
Advance ==
  /\ ~Quiet
  /\ LET frame == Head(stack)
         k     == Head(frame.todo)
         snap  == Capture(active, world, k)
     IN  /\ ~frame.calling /\ frame.queue = <<>> /\ frame.todo # <<>>
         /\ observed' = [observed EXCEPT ![k] = snap]
         /\ rev' = rev + 1
         /\ stack' = <<[frame EXCEPT !.todo = Tail(@), !.key = k, !.snap = snap, !.rev = rev + 1,
                          !.queue = Those(subs, {s \in Subs : Concerns(s, k, observed[k], snap)})]>>
                     \o Tail(stack)
  /\ UNCHANGED <<active, world, attached, subs, told, changes, closed>>

(* _invoke_callback.  The update carries its graph revision; a subscriber  *)
(* that heeds it keeps the newer of two updates.                           *)
Deliver ==
  /\ ~Quiet
  /\ LET frame == Head(stack)
         s     == Head(frame.queue)
     IN  /\ ~frame.calling /\ frame.queue # <<>>
         /\ told' = IF told[s][frame.key].rev > frame.rev THEN told
                    ELSE [told EXCEPT ![s][frame.key] = [snap |-> frame.snap, rev |-> frame.rev]]
         /\ stack' = <<[frame EXCEPT !.queue = Tail(@), !.calling = TRUE]>> \o Tail(stack)
  /\ UNCHANGED <<active, world, attached, observed, subs, rev, changes, closed>>

(* The callback returns or raises: both are the same to the dispatch.      *)
Return ==
  /\ InCallback
  /\ stack' = <<[Head(stack) EXCEPT !.calling = FALSE]>> \o Tail(stack)
  /\ UNCHANGED <<active, world, attached, observed, subs, told, rev, changes, closed>>

(* The listener returns.  With the outermost one, graph revisions count    *)
(* from zero again (only their order within a dispatch is of interest).    *)
Finish ==
  /\ ~Quiet
  /\ LET frame == Head(stack) IN ~frame.calling /\ frame.queue = <<>> /\ frame.todo = <<>>
  /\ stack' = Tail(stack)
  /\ IF Len(stack) > 1 THEN UNCHANGED <<told, rev, changes>>
     ELSE /\ told' = [s \in Subs |-> [k \in Keys |-> [told[s][k] EXCEPT !.rev = 0]]]
          /\ rev' = 0 /\ changes' = 0
  /\ UNCHANGED <<active, world, attached, observed, subs, closed>>

-----------------------------------------------------------------------------
(* Operations of consumers, outside of any dispatch or in a callback.      *)

Callable == Quiet \/ InCallback

(* Faulty: a repeated subscription is not recognised.                      *)
Enrolled_Never(s) == FALSE

(* The fingerprint of the subscription is that of one in force.            *)
Enrolled(s) == s \in Range(subs)

(* subscribe: a contract that nobody watched yet is captured.              *)
Subscribe(s) ==
  /\ Callable /\ ~closed /\ Len(subs) < MaxSubs
  /\ ~Enrolled(s)
  /\ LET base == [k \in Keys |-> IF k \in Watched(s, active) /\ observed[k] = Unobserved
                                 THEN Capture(active, world, k) ELSE observed[k]]
     IN  /\ observed' = base
         /\ told' = [told EXCEPT ![s] = [k \in Keys |-> [snap |-> base[k], rev |-> rev]]]
  /\ subs' = Append(subs, s)
  /\ UNCHANGED <<active, world, attached, stack, rev, changes, closed>>

(* A subscription that has gone is inactive wherever a dispatch holds it.  *)
Without(gone) ==
  [i \in DOMAIN stack |-> [stack[i] EXCEPT !.queue = Those(@, Subs \ gone)]]

(* unsubscribe, cleanup_consumer and unregister_consumer.                  *)
Unsubscribe(gone) ==
  /\ Callable /\ ~closed
  /\ gone # {} /\ gone \subseteq Range(subs)
  /\ subs' = Those(subs, Subs \ gone)
  /\ stack' = Without(gone)
  /\ told' = [s \in Subs |-> IF s \in gone THEN Untold ELSE told[s]]
  /\ UNCHANGED <<active, world, attached, observed, rev, changes, closed>>

Close ==
  /\ Callable /\ ~closed
  /\ closed' = TRUE
  /\ attached' = FALSE
  /\ subs' = <<>>
  /\ stack' = Without(Subs)
  /\ observed' = [k \in Keys |-> Unobserved]
  /\ told' = [s \in Subs |-> Untold]
  /\ UNCHANGED <<active, world, rev, changes>>

-----------------------------------------------------------------------------
Init ==
  /\ active \in Configs \cup {NoConfig}
  /\ world \in {w \in Worlds : \A k \in Keys : Range(w[k]) = {"good"}}
  /\ attached = (active # NoConfig)
  /\ observed = [k \in Keys |-> Unobserved]
  /\ subs = <<>> /\ stack = <<>>
  /\ told = [s \in Subs |-> Untold]
  /\ rev = 0 /\ changes = 0 /\ closed = FALSE

Run == Advance \/ Deliver \/ Return \/ Finish

Next ==
  \/ \E c \in Configs, w \in Worlds : Activate(c, w)
  \/ Deactivate
  \/ \E w \in Worlds : GraphChange(w)
  \/ \E p \in Ageing : Lapse(p[1], p[2])
  \/ Run
  \/ \E s \in Subs : Subscribe(s)
  \/ \E gone \in SUBSET Subs : Unsubscribe(gone)
  \/ Close

(* A listener runs to its end and callbacks return.                        *)
Spec == Init /\ [][Next]_vars /\ WF_vars(Run)

-----------------------------------------------------------------------------
AllKinds == {"available", "unavailable", "revision", "field", "health"}

AllSnapshots ==
  {Unobserved, Absent("runtime_not_ready"), Absent("missing")} \cup
  {Capture(c, w, k) : c \in Configs, w \in Worlds, k \in Keys}

(* TypeOK: the variables hold values of their kinds; nobody is subscribed  *)
(* or waits in one dispatch twice.                                         *)
TypeOK ==
  /\ active \in Configs \cup {NoConfig} /\ world \in Worlds
  /\ attached \in BOOLEAN /\ closed \in BOOLEAN
  /\ observed \in [Keys -> AllSnapshots]
  /\ Range(subs) \subseteq Subs /\ IsInjective(subs)
  /\ Len(stack) <= 1 + MaxChanges /\ changes \in 0..MaxChanges
  /\ \A i \in DOMAIN stack :
       /\ Range(stack[i].queue) \subseteq Subs /\ IsInjective(stack[i].queue)
       /\ stack[i].rev \in 0..rev /\ IsInjective(stack[i].todo)
  /\ \A s \in Subs, k \in Keys : told[s][k].snap \in AllSnapshots /\ told[s][k].rev \in 0..rev

Now(k) == Capture(active, world, k)

(* OnlyAgeGoesUnseen: at rest, what the API last observed of a contract    *)
(* differs from what it is now only where good evidence has grown old;     *)
(* every change of definition, availability or value was seen, also one    *)
(* that a callback made in the middle of a dispatch.                       *)
OnlyAgeGoesUnseen ==
  Quiet /\ ~closed =>
    \A k \in Keys : observed[k] # Unobserved =>
      \/ observed[k] = Now(k)
      \/ /\ Present(observed[k]) /\ Present(Now(k)) /\ observed[k].def = Now(k).def
         /\ \A f \in DOMAIN Now(k).values :
              Now(k).values[f] # observed[k].values[f] =>
                observed[k].values[f] = "good" /\ Now(k).values[f] = "bad"

(* RoleSubscribersCurrent: once a subscription to a role has been told of  *)
(* a contract, it knows it as it is whenever the role stands for it, also  *)
(* after revisions that took the role away and gave it back.  (It may      *)
(* never hear of a contract that a callback of the activation's own        *)
(* dispatch was the first to subscribe to.)                                *)
RoleSubscribersCurrent ==
  Quiet =>
    \A s \in Range(subs) : Filter[s].role # NoRole =>
      \A k \in Watched(s, active) : told[s][k].snap \in {Unobserved, observed[k]}

-----------------------------------------------------------------------------
(* The API implements the feed: truth is what it observed, an update is    *)
(* owed while a dispatch holds a newer one for its subscriber.             *)
FeedSubs == {s \in Subs : Filter[s].role = NoRole}

(* The part that the filters of a subscription leave of a snapshot, for    *)
(* subscriptions to all kinds of events or to availability alone.          *)
Part(s, k, v) ==
  LET f == Filter[s]
      all == f.kinds = AllKinds
      shown == IF ~Present(v) \/ ~all THEN {}
               ELSE IF f.fields = {} THEN DOMAIN v.values ELSE f.fields \cap DOMAIN v.values
  IN  IF k \notin Watched(s, NoConfig) THEN [status |-> "other", def |-> NoDef, values |-> <<>>]
      ELSE [status |-> IF Present(v) \/ all THEN v.status ELSE "absent",
            def    |-> IF Present(v) /\ all /\ f.fields = {} THEN v.def ELSE NoDef,
            values |-> [n \in shown |-> v.values[n]]]

Feed == INSTANCE ConsumerFeed WITH
  Subs <- FeedSubs, truth <- observed,
  told <- [s \in FeedSubs |-> [k \in Keys |-> Part(s, k, told[s][k].snap)]],
  subs <- Range(subs) \cap FeedSubs,
  due  <- {p \in FeedSubs \X Keys :
             \E i \in DOMAIN stack : /\ stack[i].key = p[2] /\ p[1] \in Range(stack[i].queue)
                                     /\ stack[i].rev > told[p[1]][p[2]].rev}

(* FeedSpec: whoever subscribed, changed the graph, left or closed the API *)
(* in whichever callback, each subscriber in force is eventually told its  *)
(* part of every change, and one that has gone is told nothing             *)
(* (_dispatch_contract_change, _remove_subscription).  An update that is   *)
(* handed over after a newer one counts for nothing: the subscriber is     *)
(* taken to compare their graph revisions.                                 *)
FeedSpec == Feed!Spec

=============================================================================
