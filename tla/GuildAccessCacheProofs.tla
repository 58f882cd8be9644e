----------------------- MODULE GuildAccessCacheProofs -----------------------
(***************************************************************************)
(* Theorems about GuildAccessCache, for any number of callers and setters.   *)
(*                                                                         *)
(* That the key never goes back rests on there being one loader at a time:   *)
(* the only loader stores what it read after every earlier value was stored. *)
(***************************************************************************)
EXTENDS GuildAccessCache, FiniteSetTheorems, TLAPS

\* Nobody has seen a permission that is yet to be set.
NotAhead ==
  /\ hist.newest <= permission
  /\ hist.settled <= permission
  /\ \A c \in Callers : call[c].val # Null => call[c].val <= permission
  /\ \A s \in Setters : setter[s].val # Null => setter[s].val <= permission

\* Unless a change was overtaken, no loader holds an answer older than it.
LoadersFresh ==
  ~hist.raced => \A c \in Callers : At(c, "store") => call[c].val >= hist.settled

-----------------------------------------------------------------------------
(* Types                                                                    *)

LEMMA TypeStep ==
  ASSUME TypeOK, [Next]_vars
  PROVE  TypeOK'
  <1> USE CacheConstants DEF TypeOK, Versions, LoaderPcs, WaiterPcs
  <1>1. ASSUME NEW c \in Callers, Get(c) \/ GetOrSet(c) \/ Timeout(c) PROVE TypeOK'
    <2> USE DEF Goto, At, Done, Idle
    <2>1. CASE Get(c)
      BY <2>1 DEF Get
    <2>2. CASE Acquire(c)
      <3>1. lock' \in BOOLEAN
        BY <2>2 DEF Acquire
      <3>2. \/ call' = [call EXCEPT ![c].pc = "subscribe"]
            \/ call' = [call EXCEPT ![c].pc = "recheck"]
            \/ call' = [call EXCEPT ![c] = Idle]
        BY <2>2 DEF Acquire
      <3> QED
        BY <2>2, <3>1, <3>2 DEF Acquire
    <2>3. CASE Recheck(c)
      BY <2>3 DEF Recheck
    <2>4. CASE Resolve(c)
      BY <2>4 DEF Resolve
    <2>5. CASE Store(c)
      BY <2>5 DEF Store
    <2>6. CASE Publish(c)
      BY <2>6 DEF Publish
    <2>7. CASE Unlock(c)
      BY <2>7 DEF Unlock
    <2>8. CASE Subscribe(c)
      BY <2>8 DEF Subscribe
    <2>9. CASE Listen(c)
      BY <2>9 DEF Listen
    <2>10. CASE LastGet(c)
      BY <2>10 DEF LastGet
    <2>11. CASE Timeout(c)
      BY <2>11 DEF Timeout
    <2> QED
      BY <1>1, <2>1, <2>2, <2>3, <2>4, <2>5, <2>6, <2>7, <2>8, <2>9, <2>10, <2>11
      DEF GetOrSet
  <1>2. ASSUME NEW v \in Versions, Notice(v) PROVE TypeOK'
    BY <1>2 DEF Notice, Idle
  <1>3. ASSUME NEW s \in Setters, SetManagerPermission(s) PROVE TypeOK'
    <2>1. CASE SetPermission(s)
      BY <1>3, <2>1 DEF SetPermission, Quiet
    <2>2. CASE Keys(s)
      <3>1. CASE setter' = [setter EXCEPT ![s].pc = "del"] /\ hist' = hist
        BY <1>3, <2>2, <3>1 DEF Keys
      <3>2. CASE setter' = [setter EXCEPT ![s] = Quiet] /\ hist' = hist
        BY <1>3, <2>2, <3>2 DEF Keys, Quiet
      <3>3. CASE /\ setter[s].pc = "keys"
                 /\ setter' = [setter EXCEPT ![s] = Quiet]
                 /\ Settle(s)
        BY <1>3, <2>2, <3>3 DEF Keys, Settle, Quiet
      <3> QED
        BY <2>2, <3>1, <3>2, <3>3 DEF Keys
    <2>3. CASE Del(s)
      BY <1>3, <2>3 DEF Del, Settle, Quiet
    <2> QED
      BY <1>3, <2>1, <2>2, <2>3 DEF SetManagerPermission
  <1>4. CASE LockExpires
    <2>1. hist' = hist \/ (hist.early < MaxEarly /\ hist' = [hist EXCEPT !.early = @ + 1])
      BY <1>4 DEF LockExpires
    <2>2. lock' \in BOOLEAN
      BY <1>4 DEF LockExpires
    <2> QED
      BY <1>4, <2>1, <2>2 DEF LockExpires
  <1>7. CASE ValueExpires
    BY <1>7 DEF ValueExpires
  <1>5. CASE Crash
    BY <1>5 DEF Crash, Idle, Quiet
  <1>6. CASE UNCHANGED vars
    BY <1>6 DEF vars
  <1> QED
    BY <1>1, <1>2, <1>3, <1>4, <1>5, <1>6, <1>7 DEF Next

LEMMA TypeInit == Init => TypeOK
  <1> SUFFICES ASSUME Init PROVE TypeOK
    OBVIOUS
  <1>1. 0 \in Versions /\ 0 \in 0..MaxEarly
    BY CacheConstants DEF Versions
  <1>2. call \in [Callers -> [pc: {"idle", "acquire"} \cup LoaderPcs \cup WaiterPcs,
                             val: Versions \cup {Null}]]
    BY DEF Init, Idle
  <1>3. setter \in [Setters -> [pc: {"idle", "keys", "del"}, val: Versions \cup {Null}]]
    BY DEF Init, Quiet
  <1>4. hist \in [early: 0..MaxEarly, newest: Versions, settled: Versions, raced: BOOLEAN]
    BY <1>1 DEF Init
  <1>5. /\ \A c \in Callers : call[c].pc = "idle"
        /\ \A s \in Setters : setter[s].pc = "idle"
    BY DEF Init, Idle, Quiet
  <1> QED
    BY <1>1, <1>2, <1>3, <1>4, <1>5 DEF Init, TypeOK

\* The types hold of every behaviour: whoever stores or publishes has a value.
THEOREM TypeCorrect == Spec => []TypeOK
  <1>1. Init => TypeOK
    BY TypeInit
  <1>2. TypeOK /\ [Next]_vars => TypeOK'
    BY TypeStep
  <1> QED
    BY <1>1, <1>2, PTL DEF Spec

-----------------------------------------------------------------------------
(* Loaders                                                                  *)

LEMMA LoadersFinite ==
  /\ Loaders \subseteq Callers
  /\ IsFiniteSet(Loaders)
  /\ Cardinality(Loaders) \in Nat
  BY CacheConstants, FS_Subset, FS_CardinalityType DEF Loaders

LEMMA LoadersFinite2 ==
  /\ Loaders' \subseteq Callers
  /\ IsFiniteSet(Loaders')
  /\ Cardinality(Loaders') \in Nat
  <1>1. Loaders' \subseteq Callers
    BY DEF Loaders
  <1> QED
    BY <1>1, CacheConstants, FS_Subset, FS_CardinalityType

\* A step that leaves the number of early expiries alone keeps the bound when it
\* adds no loader, and frees no lock but for a loader that goes.
LEMMA LoadersKept ==
  ASSUME TypeOK, LoadersBounded, Loaders' \subseteq Loaders,
         hist'.early = hist.early, Held' >= Held, Held' \in Nat
  PROVE  LoadersBounded'
  <1>1. Cardinality(Loaders') <= Cardinality(Loaders)
    BY LoadersFinite, FS_Subset
  <1> QED
    BY <1>1, LoadersFinite, LoadersFinite2 DEF LoadersBounded, TypeOK, Held

\* The number of loaders is at most the lock and the locks that ran out early.
LEMMA LoadersStep ==
  ASSUME TypeOK, LoadersBounded, [Next]_vars
  PROVE  LoadersBounded'
  <1> USE DEF TypeOK, Held
  <1>0. hist.early \in Nat /\ Held \in Nat /\ Held' \in Nat
    BY CacheConstants
  <1>1. ASSUME NEW c \in Callers, Get(c) \/ GetOrSet(c) \/ Timeout(c) PROVE LoadersBounded'
    <2> USE DEF Goto, At, Done, Idle
    <2>1. CASE Get(c)
      <3>1. Loaders' \subseteq Loaders /\ hist' = hist /\ lock' = lock
        BY <2>1 DEF Get, Loaders, LoaderPcs
      <3> QED
        BY <3>1, <1>0, LoadersKept
    <2>2. CASE Acquire(c)
      <3>1. CASE ~lock /\ call' = [call EXCEPT ![c].pc = "recheck"]
        <4>1. Loaders' = Loaders \cup {c} /\ hist' = hist /\ lock' = TRUE
          BY <2>2, <3>1 DEF Acquire, Loaders, LoaderPcs
        <4>2. Cardinality(Loaders') <= Cardinality(Loaders) + 1
          <5>1. Cardinality(Loaders \cup {c}) =
                  IF c \in Loaders THEN Cardinality(Loaders) ELSE Cardinality(Loaders) + 1
            BY LoadersFinite, FS_AddElement, Zenon
          <5> QED
            BY <4>1, <5>1, LoadersFinite
        <4> QED
          BY <1>0, <3>1, <4>1, <4>2, LoadersFinite, LoadersFinite2 DEF LoadersBounded
      <3>2. CASE ~(~lock /\ call' = [call EXCEPT ![c].pc = "recheck"])
        <4>1. \/ lock /\ lock' /\ call' = [call EXCEPT ![c].pc = "subscribe"]
              \/ lock' = lock /\ call' = [call EXCEPT ![c] = Idle]
          BY <2>2, <3>2 DEF Acquire
        <4>2. Loaders' \subseteq Loaders
          BY <2>2, <4>1 DEF Loaders, LoaderPcs
        <4> QED
          BY <1>0, <2>2, <4>1, <4>2, LoadersKept DEF Acquire
      <3> QED
        BY <3>1, <3>2
    <2>3. CASE Recheck(c) \/ Resolve(c) \/ Publish(c)
      <3>1. Loaders' \subseteq Loaders /\ hist' = hist /\ lock' = lock
        BY <2>3 DEF Recheck, Resolve, Publish, Loaders, LoaderPcs
      <3> QED
        BY <3>1, <1>0, LoadersKept
    <2>4. CASE Store(c)
      <3>1. Loaders' \subseteq Loaders /\ hist'.early = hist.early /\ lock' = lock
        BY <2>4 DEF Store, Loaders, LoaderPcs
      <3> QED
        BY <3>1, <1>0, LoadersKept
    <2>5. CASE Unlock(c)
      <3>1. Loaders' = Loaders \ {c} /\ c \in Loaders /\ hist' = hist
        BY <2>5 DEF Unlock, Loaders, LoaderPcs
      <3>2. Cardinality(Loaders') = Cardinality(Loaders) - 1
        BY <3>1, LoadersFinite, FS_RemoveElement
      <3> QED
        BY <1>0, <3>1, <3>2, LoadersFinite, LoadersFinite2 DEF LoadersBounded
    <2>6. CASE Subscribe(c) \/ Listen(c) \/ LastGet(c) \/ Timeout(c)
      <3>1. Loaders' \subseteq Loaders /\ hist' = hist /\ lock' = lock
        BY <2>6 DEF Subscribe, Listen, LastGet, Timeout, Loaders, LoaderPcs
      <3> QED
        BY <3>1, <1>0, LoadersKept
    <2> QED
      BY <1>1, <2>1, <2>2, <2>3, <2>4, <2>5, <2>6 DEF GetOrSet
  <1>2. ASSUME NEW v \in Versions, Notice(v) PROVE LoadersBounded'
    <2>1. Loaders' \subseteq Loaders /\ hist' = hist /\ lock' = lock
      BY <1>2 DEF Notice, Idle, Loaders, LoaderPcs
    <2> QED
      BY <2>1, <1>0, LoadersKept
  <1>3. ASSUME NEW s \in Setters, SetManagerPermission(s) PROVE LoadersBounded'
    <2>1. call' = call /\ lock' = lock /\ hist'.early = hist.early
      BY <1>3 DEF SetManagerPermission, SetPermission, Keys, Del, Settle
    <2>2. Loaders' \subseteq Loaders
      BY <2>1 DEF Loaders, LoaderPcs
    <2> QED
      BY <2>1, <2>2, <1>0, LoadersKept
  <1>4. CASE LockExpires
    <2>1. Loaders' = Loaders /\ lock /\ ~lock'
      BY <1>4 DEF LockExpires, Loaders, LoaderPcs
    <2>2. CASE Loaders = {}
      <3>1. hist' = hist
        BY <1>4, <2>2 DEF LockExpires
      <3>2. Cardinality(Loaders') = 0
        BY <2>1, <2>2, FS_EmptySet
      <3> QED
        BY <1>0, <2>1, <3>1, <3>2 DEF LoadersBounded
    <2>3. CASE Loaders # {}
      <3>1. hist'.early = hist.early + 1
        BY <1>4, <2>3 DEF LockExpires
      <3> QED
        BY <1>0, <2>1, <3>1, LoadersFinite DEF LoadersBounded
    <2> QED
      BY <2>2, <2>3
  <1>5. CASE ValueExpires \/ UNCHANGED vars
    <2>1. call' = call /\ hist' = hist /\ lock' = lock
      BY <1>5 DEF ValueExpires, vars
    <2>2. Loaders' \subseteq Loaders
      BY <2>1 DEF Loaders, LoaderPcs
    <2> QED
      BY <2>1, <2>2, <1>0, LoadersKept
  <1>6. CASE Crash
    <2>1. Loaders' \subseteq Loaders /\ hist' = hist /\ lock' = lock
      BY <1>6 DEF Crash, Idle, Loaders, LoaderPcs
    <2> QED
      BY <2>1, <1>0, LoadersKept
  <1> QED
    BY <1>1, <1>2, <1>3, <1>4, <1>5, <1>6 DEF Next

\* However many callers and however slow their loaders: the loaders at work are
\* no more than one and those whose lock ran out under them.
THEOREM LoadersAreBounded == Spec => []LoadersBounded
  <1>1. Init => TypeOK /\ LoadersBounded
    <2> SUFFICES ASSUME Init PROVE TypeOK /\ LoadersBounded
      OBVIOUS
    <2>1. TypeOK
      BY TypeInit
    <2>2. Loaders = {} /\ hist.early = 0 /\ Held = 0
      BY DEF Init, Loaders, LoaderPcs, Idle, Held
    <2> QED
      BY <2>1, <2>2, FS_EmptySet DEF LoadersBounded
  <1>2. TypeOK /\ LoadersBounded /\ [Next]_vars => (TypeOK /\ LoadersBounded)'
    BY TypeStep, LoadersStep
  <1> QED
    BY <1>1, <1>2, PTL DEF Spec

-----------------------------------------------------------------------------
(* Values                                                                   *)

\* What a step of a call does to the calls: it may move on with its value, end,
\* or take up the permission.
CallMoves(c) ==
  \/ \E pc \in {"acquire", "recheck", "load", "publish", "unlock"} \cup WaiterPcs :
       call' = [call EXCEPT ![c].pc = pc]
  \/ call' = [call EXCEPT ![c] = Idle]
  \/ call' = [call EXCEPT ![c] = [pc |-> "store", val |-> permission]]

LEMMA CallMovesInv ==
  ASSUME NEW c \in Callers, Get(c) \/ GetOrSet(c) \/ Timeout(c)
  PROVE  CallMoves(c)
  <1> USE DEF Goto, Done, CallMoves, WaiterPcs
  <1>1. CASE Get(c)
    BY <1>1 DEF Get
  <1>2. CASE Acquire(c)
    <2>1. \/ call' = [call EXCEPT ![c].pc = "subscribe"]
          \/ call' = [call EXCEPT ![c].pc = "recheck"]
          \/ call' = [call EXCEPT ![c] = Idle]
      BY <1>2 DEF Acquire
    <2> QED
      BY <2>1
  <1>3. CASE Recheck(c)
    <2>1. \/ call' = [call EXCEPT ![c].pc = "unlock"]
          \/ call' = [call EXCEPT ![c].pc = "load"]
      BY <1>3 DEF Recheck
    <2> QED
      BY <2>1
  <1>4. CASE Resolve(c)
    BY <1>4 DEF Resolve
  <1>5. CASE Store(c)
    BY <1>5 DEF Store
  <1>6. CASE Publish(c)
    BY <1>6 DEF Publish
  <1>7. CASE Unlock(c)
    BY <1>7 DEF Unlock
  <1>8. CASE Subscribe(c)
    BY <1>8 DEF Subscribe
  <1>9. CASE Listen(c)
    BY <1>9 DEF Listen
  <1>10. CASE LastGet(c)
    BY <1>10 DEF LastGet
  <1>11. CASE Timeout(c)
    BY <1>11 DEF Timeout
  <1> QED
    BY <1>1, <1>2, <1>3, <1>4, <1>5, <1>6, <1>7, <1>8, <1>9, <1>10, <1>11 DEF GetOrSet

\* Only Store touches what the properties remember, and only with its own value.
LEMMA CallOthers ==
  ASSUME NEW c \in Callers, Get(c) \/ GetOrSet(c) \/ Timeout(c)
  PROVE  /\ UNCHANGED <<permission, setter>>
         /\ (UNCHANGED <<cache, hist>>) \/ Store(c)
  BY DEF Get, GetOrSet, Acquire, Recheck, Resolve, Publish, Unlock, Subscribe, Listen,
         LastGet, Timeout, Store

\* The steps that are no call's leave every call alone or end it.
LEMMA Others ==
  ASSUME \/ \E v \in Versions : Notice(v)
         \/ LockExpires \/ ValueExpires \/ Crash \/ UNCHANGED vars
  PROVE  /\ \A c \in Callers : call'[c] = call[c] \/ call'[c] = Idle
         /\ \A s \in Setters : setter'[s] = setter[s] \/ setter'[s] = Quiet
         /\ permission' = permission
         /\ cache' = cache \/ cache' = Null
         /\ \/ hist' = hist
            \/ hist' = [hist EXCEPT !.early = @ + 1]
  <1>1. CASE \E v \in Versions : Notice(v)
    BY <1>1 DEF Notice
  <1>2. CASE LockExpires
    BY <1>2 DEF LockExpires
  <1>3. CASE ValueExpires
    BY <1>3 DEF ValueExpires
  <1>4. CASE Crash
    BY <1>4 DEF Crash
  <1>5. CASE UNCHANGED vars
    BY <1>5 DEF vars
  <1> QED
    BY <1>1, <1>2, <1>3, <1>4, <1>5

LEMMA NotAheadStep ==
  ASSUME TypeOK, NotAhead, [Next]_vars
  PROVE  NotAhead'
  <1> USE CacheConstants DEF TypeOK, NotAhead, Versions
  <1>1. ASSUME NEW c \in Callers, Get(c) \/ GetOrSet(c) \/ Timeout(c) PROVE NotAhead'
    <2>1. \A d \in Callers : call'[d].val # Null => call'[d].val <= permission
      BY <1>1, CallMovesInv DEF CallMoves, Idle
    <2>2. CASE UNCHANGED <<cache, hist>>
      BY <1>1, <2>1, <2>2, CallOthers
    <2>3. CASE Store(c)
      <3>1. hist' = [hist EXCEPT !.newest = IF @ < call[c].val THEN call[c].val ELSE @]
              \/ hist' = hist
        BY <2>3 DEF Store
      <3>2. call[c].val \in Versions /\ call[c].val <= permission
        BY <2>3 DEF Store, At
      <3>3. hist'.newest <= permission /\ hist'.settled = hist.settled
        BY <3>1, <3>2
      <3> QED
        BY <1>1, <2>1, <3>3, CallOthers
    <2> QED
      BY <1>1, <2>2, <2>3, CallOthers
  <1>2. ASSUME NEW s \in Setters, SetManagerPermission(s) PROVE NotAhead'
    <2>1. CASE SetPermission(s)
      BY <2>1 DEF SetPermission, Quiet
    <2>2. CASE Keys(s) \/ Del(s)
      <3>1. setter[s].val \in Versions
        BY <2>2 DEF Keys, Del
      <3>2. \A r \in Setters : setter'[r].val # Null => setter'[r].val <= permission
        BY <2>2 DEF Keys, Del, Quiet
      <3>3. hist'.newest = hist.newest /\ hist'.settled <= permission
        <4>1. CASE hist' = hist
          BY <4>1
        <4>2. CASE Settle(s)
          <5>1. \/ hist'.settled = setter[s].val
                \/ hist'.settled = hist.settled
            BY <4>2 DEF Settle
          <5>2. hist'.newest = hist.newest
            BY <4>2 DEF Settle
          <5>3. setter[s].val # Null
            BY <3>1
          <5> QED
            BY <5>1, <5>2, <5>3
        <4> QED
          BY <2>2, <4>1, <4>2 DEF Keys, Del
      <3> QED
        BY <2>2, <3>2, <3>3 DEF Keys, Del
    <2> QED
      BY <1>2, <2>1, <2>2 DEF SetManagerPermission
  <1>3. CASE \/ \E v \in Versions : Notice(v)
             \/ LockExpires \/ ValueExpires \/ Crash \/ UNCHANGED vars
    <2>1. hist'.newest = hist.newest /\ hist'.settled = hist.settled
      BY <1>3, Others
    <2>2. \A c \in Callers : call'[c].val # Null => call'[c].val <= permission
      BY <1>3, Others DEF Idle
    <2>3. \A s \in Setters : setter'[s].val # Null => setter'[s].val <= permission
      BY <1>3, Others DEF Quiet
    <2> QED
      BY <1>3, <2>1, <2>2, <2>3, Others
  <1> QED
    BY <1>1, <1>2, <1>3 DEF Next

-----------------------------------------------------------------------------
(* The key never goes back                                                  *)

LEMMA SoleLoader ==
  ASSUME TypeOK, LoadersBounded, hist.early = 0,
         NEW c \in Loaders, NEW d \in Loaders
  PROVE  c = d
  <1>1. Cardinality(Loaders) <= 1
    BY LoadersFinite DEF LoadersBounded, Held
  <1>2. SUFFICES ASSUME c # d PROVE FALSE
    OBVIOUS
  <1>3. {c, d} \subseteq Loaders
    OBVIOUS
  <1>4. Cardinality({c, d}) <= Cardinality(Loaders)
    BY <1>3, LoadersFinite, FS_Subset
  <1>5. Cardinality({c, d}) = 2
    <2>1. IsFiniteSet({c}) /\ Cardinality({c}) = 1
      BY FS_Singleton
    <2>2. {c} \cup {d} = {c, d} /\ d \notin {c}
      BY <1>2
    <2>3. Cardinality({c} \cup {d}) = IF d \in {c} THEN Cardinality({c}) ELSE Cardinality({c}) + 1
      BY <2>1, FS_AddElement, Zenon
    <2> QED
      BY <2>1, <2>2, <2>3
  <1> QED
    BY <1>1, <1>4, <1>5, LoadersFinite

LEMMA NeverBackStep ==
  ASSUME TypeOK, NotAhead, LoadersBounded, NeverBack, [Next]_vars
  PROVE  NeverBack'
  <1> USE CacheConstants DEF TypeOK, NeverBack, Versions, At
  <1>0. SUFFICES ASSUME hist'.early = 0, NEW d \in Callers, call'[d].pc = "store"
                 PROVE  call'[d].val >= hist'.newest
    BY DEF NeverBack, At
  <1>1. ASSUME NEW c \in Callers, Get(c) \/ GetOrSet(c) \/ Timeout(c)
        PROVE  call'[d].val >= hist'.newest
    <2>1. \/ call'[d] = call[d]
          \/ call'[d] = [pc |-> "store", val |-> permission]
      BY <1>0, <1>1, CallMovesInv DEF CallMoves, Idle, WaiterPcs
    <2>2. CASE UNCHANGED <<cache, hist>>
      BY <1>0, <2>1, <2>2 DEF NotAhead
    <2>3. CASE Store(c)
      <3>1. call' = [call EXCEPT ![c].pc = "publish"] \/ call' = [call EXCEPT ![c].pc = "unlock"]
        BY <2>3 DEF Store, Goto
      <3>2. d # c /\ call'[d] = call[d]
        BY <1>0, <3>1
      <3>3. hist.early = 0
        BY <1>0, <2>3 DEF Store
      <3>4. c \in Loaders /\ d \in Loaders
        BY <1>0, <2>3, <3>2 DEF Store, Loaders, LoaderPcs
      <3> QED
        BY <3>2, <3>3, <3>4, SoleLoader
    <2> QED
      BY <1>1, <2>2, <2>3, CallOthers
  <1>2. ASSUME NEW s \in Setters, SetManagerPermission(s)
        PROVE  call'[d].val >= hist'.newest
    <2>1. call' = call /\ hist'.early = hist.early /\ hist'.newest = hist.newest
      BY <1>2 DEF SetManagerPermission, SetPermission, Keys, Del, Settle
    <2> QED
      BY <1>0, <2>1
  <1>3. CASE \/ \E v \in Versions : Notice(v)
             \/ LockExpires \/ ValueExpires \/ Crash \/ UNCHANGED vars
    <2>1. call'[d] = call[d]
      BY <1>0, <1>3, Others DEF Idle
    <2>2. hist' = hist
      BY <1>0, <1>3, Others
    <2> QED
      BY <1>0, <2>1, <2>2
  <1> QED
    BY <1>1, <1>2, <1>3 DEF Next

LEMMA Begins ==
  Init => TypeOK /\ NotAhead /\ LoadersBounded /\ NeverBack /\ LoadersFresh
          /\ InvalidatedUnlessRacing
  <1> SUFFICES ASSUME Init PROVE TypeOK /\ NotAhead /\ LoadersBounded /\ NeverBack
                                 /\ LoadersFresh /\ InvalidatedUnlessRacing
    OBVIOUS
  <1>1. TypeOK
    BY TypeInit
  <1>2. Loaders = {} /\ hist.early = 0 /\ Held = 0
    BY DEF Init, Loaders, LoaderPcs, Idle, Held
  <1>3. LoadersBounded
    BY <1>2, FS_EmptySet DEF LoadersBounded
  <1>4. NotAhead
    BY DEF Init, NotAhead, Idle, Quiet
  <1>5. NeverBack /\ LoadersFresh /\ InvalidatedUnlessRacing
    BY DEF Init, NeverBack, LoadersFresh, InvalidatedUnlessRacing, Idle, At
  <1> QED
    BY <1>1, <1>3, <1>4, <1>5

\* A key whose lock outlives every loader takes newer and newer answers only.
THEOREM KeyNeverGoesBack == Spec => []NeverBack
  <1> DEFINE Inv == TypeOK /\ NotAhead /\ LoadersBounded /\ NeverBack
  <1>1. Init => Inv
    BY Begins
  <1>2. Inv /\ [Next]_vars => Inv'
    BY TypeStep, NotAheadStep, LoadersStep, NeverBackStep
  <1>3. Inv => NeverBack
    OBVIOUS
  <1> QED
    BY <1>1, <1>2, <1>3, PTL DEF Spec

-----------------------------------------------------------------------------
(* Invalidation                                                             *)

LEMMA FreshStep ==
  ASSUME TypeOK, NotAhead, LoadersFresh, InvalidatedUnlessRacing, [Next]_vars
  PROVE  LoadersFresh' /\ InvalidatedUnlessRacing'
  <1> USE CacheConstants DEF TypeOK, LoadersFresh, InvalidatedUnlessRacing, Versions, At
  <1>1. ASSUME NEW c \in Callers, Get(c) \/ GetOrSet(c) \/ Timeout(c)
        PROVE  LoadersFresh' /\ InvalidatedUnlessRacing'
    <2>1. \A d \in Callers : call'[d].pc = "store" =>
            call'[d] = call[d] \/ call'[d] = [pc |-> "store", val |-> permission]
      BY <1>1, CallMovesInv DEF CallMoves, Idle, WaiterPcs
    <2>2. hist'.settled = hist.settled /\ hist'.raced = hist.raced
      BY <1>1, CallOthers DEF Store
    <2>3. LoadersFresh'
      BY <2>1, <2>2 DEF NotAhead
    <2>4. cache' = cache \/ (call[c].pc = "store" /\ cache' = call[c].val)
      BY <1>1, CallOthers DEF Store
    <2> QED
      BY <2>2, <2>3, <2>4
  <1>2. ASSUME NEW s \in Setters, SetManagerPermission(s)
        PROVE  LoadersFresh' /\ InvalidatedUnlessRacing'
    <2>1. call' = call
      BY <1>2 DEF SetManagerPermission, SetPermission, Keys, Del
    <2>2. CASE hist' = hist
      <3>1. cache' = cache \/ cache' = Null
        BY <1>2 DEF SetManagerPermission, SetPermission, Keys, Del
      <3> QED
        BY <2>1, <2>2, <3>1
    <2>3. CASE Settle(s) /\ cache' = Null /\ setter[s].pc # "idle"
      <3>1. \/ hist'.settled = setter[s].val
            \/ hist'.settled = hist.settled
        BY <2>3 DEF Settle
      <3>2. ASSUME ~hist'.raced
            PROVE  /\ ~hist.raced
                   /\ \A d \in Callers :
                        call[d].pc = "store" => ~(call[d].val < setter[s].val)
        BY <2>3, <3>2 DEF Settle, Overtaken
      <3>3. setter[s].val \in Versions
        BY <2>3
      <3> QED
        BY <2>1, <2>3, <3>1, <3>2, <3>3
    <2> QED
      BY <1>2, <2>2, <2>3 DEF SetManagerPermission, SetPermission, Keys, Del
  <1>3. CASE \/ \E v \in Versions : Notice(v)
             \/ LockExpires \/ ValueExpires \/ Crash \/ UNCHANGED vars
    <2>1. hist'.settled = hist.settled /\ hist'.raced = hist.raced
      BY <1>3, Others
    <2>2. LoadersFresh'
      BY <1>3, <2>1, Others DEF Idle
    <2> QED
      BY <1>3, <2>1, <2>2, Others
  <1> QED
    BY <1>1, <1>2, <1>3 DEF Next

\* However many callers and setters: setManagerPermission leaves an older answer
\* behind only through a loader that had read before it.
THEOREM InvalidationHolds == Spec => []InvalidatedUnlessRacing
  <1> DEFINE Inv == TypeOK /\ NotAhead /\ LoadersFresh /\ InvalidatedUnlessRacing
  <1>1. Init => Inv
    BY Begins
  <1>2. Inv /\ [Next]_vars => Inv'
    BY TypeStep, NotAheadStep, FreshStep
  <1>3. Inv => InvalidatedUnlessRacing
    OBVIOUS
  <1> QED
    BY <1>1, <1>2, <1>3, PTL DEF Spec
=============================================================================
