-------------------------- MODULE GuildAccessCache --------------------------
(***************************************************************************)
(* The cached answer to "may this user act for this Discord guild":          *)
(* RedisService.getOrSet on one key, the resolver of                         *)
(* DiscordGuildAccessService, and setManagerPermission, which changes what   *)
(* the resolver reads and drops the key.                                     *)
(*                                                                         *)
(* One caller takes a lock in Redis and asks the resolver; the others wait   *)
(* for its notice on a channel, and look at the key once more when their     *)
(* timer fires.  The lock has a limit, is the same value for everybody and   *)
(* is deleted by whoever is through.  All waiters share one connection: the  *)
(* first that is through unsubscribes the channel for all.                   *)
(***************************************************************************)
EXTENDS Integers, FiniteSets, FiniteSetsExt

CONSTANTS
  Callers,      \* calls of getOrSet that may be in flight at once
  Setters,      \* calls of setManagerPermission that may be in flight at once
  Events,       \* what may go wrong
  MaxVersion,   \* bound on the changes of the permission
  MaxEarly,     \* bound on the locks that run out under a working holder
  Null

ASSUME CacheConstants ==
  /\ IsFiniteSet(Callers)
  /\ MaxVersion \in Nat
  /\ MaxEarly \in Nat
  /\ Null \notin Nat

\* What the resolver finds is told apart by the change it has seen.
Versions == 0..MaxVersion

VARIABLES
  permission,   \* the guild's managerPermission
  cache,        \* the value under the key
  lock,         \* the lock key exists
  subscribed,   \* the connection is subscribed to the key's channel
  mail,         \* notices on their way to the connection
  call,         \* calls of getOrSet
  setter,       \* calls of setManagerPermission
  hist          \* what happened, for the properties

vars == <<permission, cache, lock, subscribed, mail, call, setter, hist>>

Idle == [pc |-> "idle", val |-> Null]
Quiet == [pc |-> "idle", val |-> Null]

At(c, pc) == call[c].pc = pc
Goto(c, pc) == call' = [call EXCEPT ![c].pc = pc]
Done(c) == call' = [call EXCEPT ![c] = Idle]

\* A command to Redis, or the resolver, fails.
Fails(e) == e \in Events

LoaderPcs == {"recheck", "load", "store", "publish", "unlock"}
WaiterPcs == {"subscribe", "subscribing", "listening", "lastGet"}

\* The calls between setNX and the deletion of the lock.
Loaders == {c \in Callers : call[c].pc \in LoaderPcs}

-----------------------------------------------------------------------------
(* getOrSet                                                                 *)

\* A caller that finds the key is through at once.
Get(c) ==
  /\ At(c, "idle")
  /\ cache = Null
  /\ Goto(c, "acquire")
  /\ UNCHANGED <<permission, cache, lock, subscribed, mail, setter, hist>>

AcquireUnchecked(c) ==
  /\ At(c, "acquire")
  /\ Goto(c, "recheck")
  /\ lock' = TRUE
  /\ UNCHANGED <<permission, cache, subscribed, mail, setter, hist>>

\* setNX(lockKey, '1', 10)
Acquire(c) ==
  /\ At(c, "acquire")
  /\ \/ /\ Goto(c, IF lock THEN "subscribe" ELSE "recheck")
        /\ lock' = TRUE
     \/ Fails("redis_fails") /\ Done(c) /\ UNCHANGED lock
  /\ UNCHANGED <<permission, cache, subscribed, mail, setter, hist>>

\* The double-check.
Recheck(c) ==
  /\ At(c, "recheck")
  /\ \/ Goto(c, IF cache # Null THEN "unlock" ELSE "load")
     \/ Fails("redis_fails") /\ Goto(c, "unlock")
  /\ UNCHANGED <<permission, cache, lock, subscribed, mail, setter, hist>>

ResolveUnlocks(c) ==
  /\ At(c, "load")
  /\ \/ call' = [call EXCEPT ![c] = [pc |-> "store", val |-> permission]]
     \/ Fails("load_fails") /\ Goto(c, "unlock")
  /\ lock' = FALSE
  /\ UNCHANGED <<permission, cache, subscribed, mail, setter, hist>>

\* resolveAccess: the user's guilds, then the guild's managerPermission.  It
\* throws when Discord does, or does not list the guild.
Resolve(c) ==
  /\ At(c, "load")
  /\ \/ call' = [call EXCEPT ![c] = [pc |-> "store", val |-> permission]]
     \/ Fails("load_fails") /\ Goto(c, "unlock")
  /\ UNCHANGED <<permission, cache, lock, subscribed, mail, setter, hist>>

Store(c) ==
  /\ At(c, "store")
  /\ \/ /\ cache' = call[c].val
        /\ Goto(c, "publish")
        /\ hist' = [hist EXCEPT !.newest = IF @ < call[c].val THEN call[c].val ELSE @]
     \/ Fails("redis_fails") /\ Goto(c, "unlock") /\ UNCHANGED <<cache, hist>>
  /\ UNCHANGED <<permission, lock, subscribed, mail, setter>>

Publish(c) ==
  /\ At(c, "publish")
  /\ \/ mail' = IF subscribed THEN mail \cup {call[c].val} ELSE mail
     \/ Fails("redis_fails") /\ UNCHANGED mail
  /\ Goto(c, "unlock")
  /\ UNCHANGED <<permission, cache, lock, subscribed, setter, hist>>

\* The finally: whoever holds the lock by now, it is deleted.
Unlock(c) ==
  /\ At(c, "unlock")
  /\ lock' = FALSE \/ (Fails("redis_fails") /\ UNCHANGED lock)
  /\ Done(c)
  /\ UNCHANGED <<permission, cache, subscribed, mail, setter, hist>>

-----------------------------------------------------------------------------
(* waitForCacheReady                                                        *)

\* SUBSCRIBE has its effect before its caller registers the handler.
Subscribe(c) ==
  /\ At(c, "subscribe")
  /\ subscribed' = TRUE
  /\ Goto(c, "subscribing")
  /\ UNCHANGED <<permission, cache, lock, mail, setter, hist>>

Listen(c) ==
  /\ At(c, "subscribing")
  /\ Goto(c, "listening")
  /\ UNCHANGED <<permission, cache, lock, subscribed, mail, setter, hist>>

\* The first notice ends every wait whose handler is registered, and every end
\* unsubscribes the channel.
Notice(v) ==
  LET woken == {c \in Callers : At(c, "listening")}
  IN  /\ v \in mail
      /\ mail' = mail \ {v}
      /\ call' = [c \in Callers |-> IF c \in woken THEN Idle ELSE call[c]]
      /\ subscribed' = (subscribed /\ woken = {})
      /\ UNCHANGED <<permission, cache, lock, setter, hist>>

TimeoutWhenSubscribed(c) ==
  /\ call[c].pc \in {"subscribe", "subscribing"}
  /\ Goto(c, "lastGet")
  /\ UNCHANGED <<permission, cache, lock, subscribed, mail, setter, hist>>

\* The timer started with the wait, whatever the loader takes.
Timeout(c) ==
  /\ call[c].pc \in {"subscribe", "subscribing", "listening"}
  /\ Goto(c, "lastGet")
  /\ UNCHANGED <<permission, cache, lock, subscribed, mail, setter, hist>>

\* The value, or an InternalServerErrorException.
LastGet(c) ==
  /\ At(c, "lastGet")
  /\ subscribed' = FALSE
  /\ Done(c)
  /\ UNCHANGED <<permission, cache, lock, mail, setter, hist>>

-----------------------------------------------------------------------------
(* setManagerPermission                                                     *)

SetPermission(s) ==
  /\ setter[s].pc = "idle"
  /\ permission + 1 \in Versions
  /\ permission' = permission + 1
  /\ setter' = [setter EXCEPT ![s] = [Quiet EXCEPT !.pc = "keys", !.val = permission + 1]]
  /\ UNCHANGED <<cache, lock, subscribed, mail, call, hist>>

\* A loader has read an older permission than v and will store it.
Overtaken(v) == \E c \in Callers : At(c, "store") /\ call[c].val < v

Settle(s) ==
  hist' = [hist EXCEPT !.settled = IF @ < setter[s].val THEN setter[s].val ELSE @,
                       !.raced = @ \/ Overtaken(setter[s].val)]

KeysWhenFree(s) ==
  /\ setter[s].pc = "keys"
  /\ IF cache # Null /\ ~lock
     THEN setter' = [setter EXCEPT ![s].pc = "del"] /\ UNCHANGED hist
     ELSE setter' = [setter EXCEPT ![s] = Quiet] /\ Settle(s)
  /\ UNCHANGED <<permission, cache, lock, subscribed, mail, call>>

\* deleteByPattern: without a match there is nothing to delete.
Keys(s) ==
  /\ setter[s].pc = "keys"
  /\ \/ /\ cache # Null
        /\ setter' = [setter EXCEPT ![s].pc = "del"]
        /\ UNCHANGED hist
     \/ /\ cache = Null
        /\ setter' = [setter EXCEPT ![s] = Quiet]
        /\ Settle(s)
     \/ /\ Fails("redis_fails")
        /\ setter' = [setter EXCEPT ![s] = Quiet]
        /\ UNCHANGED hist
  /\ UNCHANGED <<permission, cache, lock, subscribed, mail, call>>

Del(s) ==
  /\ setter[s].pc = "del"
  /\ \/ cache' = Null /\ Settle(s)
     \/ Fails("redis_fails") /\ UNCHANGED <<cache, hist>>
  /\ setter' = [setter EXCEPT ![s] = Quiet]
  /\ UNCHANGED <<permission, lock, subscribed, mail, call>>

-----------------------------------------------------------------------------
(* Redis and the process                                                    *)

LockExpiresNever ==
  /\ lock
  /\ Loaders # {}
  /\ lock' = FALSE
  /\ hist.early < MaxEarly
  /\ hist' = [hist EXCEPT !.early = @ + 1]
  /\ UNCHANGED <<permission, cache, subscribed, mail, call, setter>>

\* The lock runs out after ten seconds, perhaps under a slow loader.
LockExpires ==
  /\ lock
  /\ lock' = FALSE
  /\ IF Loaders = {} THEN UNCHANGED hist
     ELSE hist.early < MaxEarly /\ hist' = [hist EXCEPT !.early = @ + 1]
  /\ UNCHANGED <<permission, cache, subscribed, mail, call, setter>>

\* The value runs out after two hours.
ValueExpires ==
  /\ cache # Null
  /\ cache' = Null
  /\ UNCHANGED <<permission, lock, subscribed, mail, call, setter, hist>>

\* The api restarts: its calls and its connections are gone, Redis stays.
Crash ==
  /\ Fails("crash")
  /\ call' = [c \in Callers |-> Idle]
  /\ setter' = [s \in Setters |-> Quiet]
  /\ subscribed' = FALSE
  /\ mail' = {}
  /\ UNCHANGED <<permission, cache, lock, hist>>

-----------------------------------------------------------------------------

Init ==
  /\ permission = 0
  /\ cache = Null
  /\ lock = FALSE
  /\ subscribed = FALSE
  /\ mail = {}
  /\ call = [c \in Callers |-> Idle]
  /\ setter = [s \in Setters |-> Quiet]
  /\ hist = [early |-> 0, newest |-> 0, settled |-> 0, raced |-> FALSE]

\* getOrSet once it has missed the key.
GetOrSet(c) ==
  \/ Acquire(c) \/ Recheck(c) \/ Resolve(c) \/ Store(c) \/ Publish(c) \/ Unlock(c)
  \/ Subscribe(c) \/ Listen(c) \/ LastGet(c)

SetManagerPermission(s) == SetPermission(s) \/ Keys(s) \/ Del(s)

Next ==
  \/ \E c \in Callers : Get(c) \/ GetOrSet(c) \/ Timeout(c)
  \/ \E v \in Versions : Notice(v)
  \/ \E s \in Setters : SetManagerPermission(s)
  \/ LockExpires
  \/ ValueExpires
  \/ Crash

Spec == Init /\ [][Next]_vars

\* Calls go on, timers fire and the limit of the lock is reached.
Fairness ==
  /\ \A c \in Callers : WF_vars(GetOrSet(c)) /\ WF_vars(Timeout(c))
  /\ WF_vars(LockExpires)

FairSpec == Spec /\ Fairness

-----------------------------------------------------------------------------
(* Properties                                                               *)

\* The types; whoever stores or publishes has a value, a setter its change.
TypeOK ==
  /\ permission \in Versions
  /\ cache \in Versions \cup {Null}
  /\ lock \in BOOLEAN
  /\ subscribed \in BOOLEAN
  /\ mail \subseteq Versions
  /\ call \in [Callers -> [pc: {"idle", "acquire"} \cup LoaderPcs \cup WaiterPcs,
                           val: Versions \cup {Null}]]
  /\ setter \in [Setters -> [pc: {"idle", "keys", "del"}, val: Versions \cup {Null}]]
  /\ hist \in [early: 0..MaxEarly, newest: Versions, settled: Versions, raced: BOOLEAN]
  /\ \A c \in Callers : call[c].pc \in {"store", "publish"} => call[c].val \in Versions
  /\ \A s \in Setters : setter[s].pc # "idle" => setter[s].val \in Versions

Held == IF lock THEN 1 ELSE 0

\* Although a holder deletes the lock of whoever took it after it ran out, a
\* lock that ran out early costs one loader too many, not more: without one
\* the source is asked by one caller at a time.
LoadersBounded == Cardinality(Loaders) <= Held + hist.early

\* As long as no lock ran out under its holder, the key never takes a value
\* older than one it had before.
NeverBack ==
  hist.early = 0 => \A c \in Callers : At(c, "store") => call[c].val >= hist.newest

\* Once setManagerPermission has returned, the key holds no older answer, unless
\* a loader had read the old permission and not yet stored its answer.
InvalidatedUnlessRacing ==
  cache # Null /\ cache < hist.settled => hist.raced

\* A waiter whose notice is lost, sent before it listened or cut off when another
\* waiter unsubscribed, answers all the same.
EveryCallAnswers == \A c \in Callers : call[c].pc # "idle" ~> At(c, "idle")

\* A restart under the lock, or a failing deletion, blocks the key for a while only.
LockIsReleased == lock ~> ~lock
=============================================================================
