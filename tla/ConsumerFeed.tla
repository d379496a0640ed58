---------------------------- MODULE ConsumerFeed ----------------------------
(***************************************************************************)
(* What a subscription to contracts promises, without the way the consumer *)
(* API keeps the promise: each subscriber sees its part of every contract, *)
(* is owed an update when that part changes, is told the current part, and *)
(* is owed nothing once it has gone.                                       *)
(***************************************************************************)
EXTENDS TLAPS

CONSTANTS
  Subs, Keys,    (* subscriptions and contracts                            *)
  Part(_, _, _)  (* Part(s, k, v): what s sees of snapshot v of k          *)

VARIABLES
  truth,  (* [Keys -> snapshot] as last published                          *)
  told,   (* [Subs -> [Keys -> part]]                                      *)
  subs,   (* the subscriptions in force                                    *)
  due     (* pairs <<s, k>>: s is owed an update of k                      *)

vars == <<truth, told, subs, due>>

Init ==
  /\ DOMAIN truth = Keys /\ DOMAIN told = Subs
  /\ subs = {} /\ due = {}

(* A change is owed at least to those whose part differs.                  *)
Publish(k) ==
  /\ DOMAIN truth' = Keys /\ \A j \in Keys \ {k} : truth'[j] = truth[j]
  /\ due \subseteq due' /\ due' \ due \subseteq subs \X {k}
  /\ \A s \in subs : Part(s, k, truth'[k]) # Part(s, k, truth[k]) => <<s, k>> \in due'
  /\ UNCHANGED <<told, subs>>

Tell(s, k) ==
  /\ <<s, k>> \in due
  /\ told' = [told EXCEPT ![s][k] = Part(s, k, truth[k])]
  /\ due' = due \ {<<s, k>>}
  /\ UNCHANGED <<truth, subs>>

(* A publication that none of the subscriptions S can see.                 *)
Unseen(S) ==
  /\ DOMAIN truth' = Keys
  /\ \A s \in S, k \in Keys : Part(s, k, truth'[k]) = Part(s, k, truth[k])

Begin(s) ==
  /\ s \notin subs
  /\ Unseen(subs)
  /\ subs' = subs \cup {s}
  /\ told' = [told EXCEPT ![s] = [k \in Keys |-> Part(s, k, truth'[k])]]
  /\ UNCHANGED due

End ==
  /\ subs' \in SUBSET subs
  /\ Unseen(subs')
  /\ due' = {p \in due : p[1] \in subs'}
  /\ DOMAIN told' = Subs /\ \A s \in subs' : told'[s] = told[s]

Next ==
  \/ \E k \in Keys : Publish(k)
  \/ \E s \in Subs, k \in Keys : Tell(s, k)
  \/ \E s \in Subs : Begin(s)
  \/ End

Spec == Init /\ [][Next]_vars /\ \A s \in Subs, k \in Keys : WF_vars(Tell(s, k))

-----------------------------------------------------------------------------
(* DebtsAreLive: only subscriptions in force are owed updates.             *)
DebtsAreLive == subs \subseteq Subs /\ due \subseteq subs \X Keys

(* SettledMeansCurrent: a subscriber that is owed no update of a contract  *)
(* has been told its present part (_dispatch_contract_change against the   *)
(* baseline that subscribe took).                                          *)
SettledMeansCurrent ==
  \A s \in subs, k \in Keys : <<s, k>> \notin due => told[s][k] = Part(s, k, truth[k])

-----------------------------------------------------------------------------
(* Proofs, for all subscriptions, contracts, snapshots and parts.          *)

(* What a step relies on: where the functions are defined.                 *)
Shape ==
  /\ DOMAIN truth = Keys /\ DOMAIN told = Subs
  /\ \A s \in subs : DOMAIN told[s] = Keys

FeedInv == Shape /\ DebtsAreLive /\ SettledMeansCurrent

LEMMA FeedInit == Init => FeedInv
  BY DEF Init, FeedInv, Shape, DebtsAreLive, SettledMeansCurrent

LEMMA PublishKeeps ==
  ASSUME NEW k \in Keys, FeedInv, Publish(k) PROVE FeedInv'
<1> USE DEF FeedInv, Shape, DebtsAreLive, SettledMeansCurrent
<1>1. Shape'
  BY DEF Publish
<1>2. DebtsAreLive'
  <2>1. due' \subseteq due \cup (subs \X {k})
    BY DEF Publish
  <2> QED BY <2>1 DEF Publish
<1>3. ASSUME NEW s \in subs', NEW j \in Keys, <<s, j>> \notin due'
      PROVE  told'[s][j] = Part(s, j, truth'[j])
  <2>1. s \in subs /\ <<s, j>> \notin due /\ told' = told
    BY <1>3 DEF Publish
  <2>2. told[s][j] = Part(s, j, truth[j])
    BY <2>1
  <2>3. CASE j = k
    BY <1>3, <2>1, <2>2, <2>3 DEF Publish
  <2>4. CASE j # k
    BY <2>1, <2>2, <2>4 DEF Publish
  <2> QED BY <2>3, <2>4
<1> QED BY <1>1, <1>2, <1>3

LEMMA TellKeeps ==
  ASSUME NEW s \in Subs, NEW k \in Keys, FeedInv, Tell(s, k) PROVE FeedInv'
<1> USE DEF FeedInv, Shape, DebtsAreLive, SettledMeansCurrent
<1>1. s \in subs /\ subs' = subs /\ truth' = truth /\ due' = due \ {<<s, k>>}
  BY DEF Tell
<1>2. told' = [told EXCEPT ![s] = [told[s] EXCEPT ![k] = Part(s, k, truth[k])]]
  BY DEF Tell
<1>3. told'[s] = [told[s] EXCEPT ![k] = Part(s, k, truth[k])]
  BY <1>2
<1>4. \A r \in subs : r # s => told'[r] = told[r]
  BY <1>2
<1>5. Shape'
  BY <1>1, <1>2, <1>3, <1>4
<1>6. ASSUME NEW r \in subs', NEW j \in Keys, <<r, j>> \notin due'
      PROVE  told'[r][j] = Part(r, j, truth'[j])
  <2>1. CASE r = s /\ j = k
    BY <1>1, <1>3, <2>1
  <2>2. CASE ~(r = s /\ j = k)
    <3>1. <<r, j>> \notin due
      BY <1>1, <1>6, <2>2
    <3>2. told'[r][j] = told[r][j]
      BY <1>1, <1>3, <1>4, <2>2
    <3> QED BY <1>1, <3>1, <3>2
  <2> QED BY <2>1, <2>2
<1> QED BY <1>1, <1>5, <1>6

LEMMA BeginKeeps ==
  ASSUME NEW s \in Subs, FeedInv, Begin(s) PROVE FeedInv'
<1> USE DEF FeedInv, Shape, DebtsAreLive, SettledMeansCurrent
<1>1. /\ s \notin subs /\ subs' = subs \cup {s} /\ due' = due /\ DOMAIN truth' = Keys
      /\ \A r \in subs, j \in Keys : Part(r, j, truth'[j]) = Part(r, j, truth[j])
  BY DEF Begin, Unseen
<1>2. told' = [told EXCEPT ![s] = [j \in Keys |-> Part(s, j, truth'[j])]]
  BY DEF Begin
<1>3. told'[s] = [j \in Keys |-> Part(s, j, truth'[j])]
  BY <1>2
<1>4. \A r \in subs : told'[r] = told[r]
  BY <1>1, <1>2
<1>5. Shape'
  BY <1>1, <1>2, <1>3, <1>4
<1>6. ASSUME NEW r \in subs', NEW j \in Keys, <<r, j>> \notin due'
      PROVE  told'[r][j] = Part(r, j, truth'[j])
  <2>1. CASE r = s
    BY <1>3, <2>1
  <2>2. CASE r \in subs
    BY <1>1, <1>4, <1>6, <2>2
  <2> QED BY <1>1, <2>1, <2>2
<1> QED BY <1>1, <1>5, <1>6

LEMMA EndKeeps ==
  ASSUME FeedInv, End PROVE FeedInv'
<1> USE DEF FeedInv, Shape, DebtsAreLive, SettledMeansCurrent
<1>1. /\ subs' \subseteq subs /\ due' = {p \in due : p[1] \in subs'}
      /\ DOMAIN truth' = Keys /\ DOMAIN told' = Subs
      /\ \A s \in subs', j \in Keys : Part(s, j, truth'[j]) = Part(s, j, truth[j])
      /\ \A s \in subs' : told'[s] = told[s]
  BY DEF End, Unseen
<1>2. DebtsAreLive'
  BY <1>1
<1>3. ASSUME NEW s \in subs', NEW j \in Keys, <<s, j>> \notin due'
      PROVE  told'[s][j] = Part(s, j, truth'[j])
  <2>1. <<s, j>> \notin due
    BY <1>1, <1>3
  <2> QED BY <1>1, <2>1
<1> QED BY <1>1, <1>2, <1>3

(* SettledSubscribersAreCurrent: in every run of the feed, a subscriber    *)
(* that is owed no update of a contract has been told its present part,    *)
(* and nothing is owed to one that has gone (what the dispatch of          *)
(* consumer_api.py is checked to implement).                               *)
THEOREM SettledSubscribersAreCurrent ==
  Spec => [](DebtsAreLive /\ SettledMeansCurrent)
<1>1. FeedInv /\ [Next]_vars => FeedInv'
  <2> SUFFICES ASSUME FeedInv, [Next]_vars PROVE FeedInv'
    OBVIOUS
  <2>1. ASSUME NEW k \in Keys, Publish(k) PROVE FeedInv'
    BY <2>1, PublishKeeps
  <2>2. ASSUME NEW s \in Subs, NEW k \in Keys, Tell(s, k) PROVE FeedInv'
    BY <2>2, TellKeeps
  <2>3. ASSUME NEW s \in Subs, Begin(s) PROVE FeedInv'
    BY <2>3, BeginKeeps
  <2>4. CASE End
    BY <2>4, EndKeeps
  <2>5. CASE UNCHANGED vars
    BY <2>5 DEF vars, FeedInv, Shape, DebtsAreLive, SettledMeansCurrent
  <2> QED BY <2>1, <2>2, <2>3, <2>4, <2>5 DEF Next
<1> QED BY FeedInit, <1>1, PTL DEF Spec, FeedInv
=============================================================================
