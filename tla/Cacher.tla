------------------------------- MODULE Cacher -------------------------------
(* backend/utils/cacher: a reference-counted cache whose misses are loaded   *)
(* outside the lock by one goroutine, while the others wait on its channel.  *)
(* A client is one use of a resource, from Get to Release; a goroutine that  *)
(* uses several resources is several clients.                                *)
EXTENDS Integers, FiniteSets

CONSTANTS Client, UID, Handle,
          NoClient, NoUID, NoHandle,
          MaxHandles,  \* options.MaxHandles, 0: no limit
          RefMod       \* reference counts are taken modulo this (2^32 in the code)

ASSUME ClientAssumption == NoClient \notin Client /\ IsFiniteSet(Client)
ASSUME UIDAssumption == NoUID \notin UID /\ IsFiniteSet(UID)
ASSUME HandleAssumption == NoHandle \notin Handle
ASSUME MaxHandlesAssumption == MaxHandles \in Nat
ASSUME RefModAssumption == RefMod \in Nat /\ RefMod > Cardinality(Client)

VARIABLES cache,    \* uid -> handle
          refs,     \* uid -> reference count (0: no key)
          getting,  \* uid -> the client whose channel is registered
          count,
          pc,       \* where a client is
          uid,      \* the argument of its Get
          handle,   \* what its Get loaded or returned
          channel,  \* the client whose channel it waits on
          closed    \* Close was called

cacherVars == <<cache, refs, getting, count, pc, uid, handle, channel, closed>>

Points == {"idle", "get", "wait", "load", "install", "fail", "notify", "hold"}

TypeOK ==
  /\ cache \in [UID -> Handle \cup {NoHandle}]
  /\ refs \in [UID -> 0..(RefMod - 1)]
  /\ getting \in [UID -> Client \cup {NoClient}]
  /\ count \in Nat
  /\ pc \in [Client -> Points]
  /\ uid \in [Client -> UID \cup {NoUID}]
  /\ handle \in [Client -> Handle \cup {NoHandle}]
  /\ channel \in [Client -> Client \cup {NoClient}]
  /\ closed \in BOOLEAN

Init ==
  /\ cache = [u \in UID |-> NoHandle]
  /\ refs = [u \in UID |-> 0]
  /\ getting = [u \in UID |-> NoClient]
  /\ count = 0
  /\ pc = [c \in Client |-> "idle"]
  /\ uid = [c \in Client |-> NoUID]
  /\ handle = [c \in Client |-> NoHandle]
  /\ channel = [c \in Client |-> NoClient]
  /\ closed = FALSE
-----------------------------------------------------------------------------
goto(c, p) == pc' = [pc EXCEPT ![c] = p]

(* A client calls Get. *)
Call(c, u) ==
  /\ pc[c] = "idle" /\ goto(c, "get")
  /\ uid' = [uid EXCEPT ![c] = u]
  /\ UNCHANGED <<cache, refs, getting, count, handle, channel, closed>>

(* The four ways through Get's loop body. *)
GetSubscribe(c) ==
  /\ pc[c] = "get" /\ getting[uid[c]] # NoClient
  /\ goto(c, "wait")
  /\ channel' = [channel EXCEPT ![c] = getting[uid[c]]]
  /\ UNCHANGED <<cache, refs, getting, count, uid, handle, closed>>

GetHit(c) ==
  /\ pc[c] = "get" /\ getting[uid[c]] = NoClient
  /\ cache[uid[c]] # NoHandle
  /\ goto(c, "hold")
  /\ handle' = [handle EXCEPT ![c] = cache[uid[c]]]
  /\ refs' = [refs EXCEPT ![uid[c]] = (@ + 1) % RefMod]
  /\ UNCHANGED <<cache, getting, count, uid, channel, closed>>

Miss(c) == pc[c] = "get" /\ getting[uid[c]] = NoClient /\ cache[uid[c]] = NoHandle

GetFull(c) ==
  /\ Miss(c)
  /\ MaxHandles > 0 /\ count = MaxHandles
  /\ goto(c, "idle")
  /\ uid' = [uid EXCEPT ![c] = NoUID]
  /\ UNCHANGED <<cache, refs, getting, count, handle, channel, closed>>

(* Mutant of GetReserve: the placeholder is not counted until it is loaded. *)
GetReserveUncounted(c) ==
  /\ Miss(c)
  /\ ~(MaxHandles > 0 /\ count = MaxHandles)
  /\ goto(c, "load")
  /\ getting' = [getting EXCEPT ![uid[c]] = c]
  /\ UNCHANGED <<cache, refs, count, uid, handle, channel, closed>>

GetReserve(c) ==
  /\ Miss(c)
  /\ ~(MaxHandles > 0 /\ count = MaxHandles)
  /\ goto(c, "load")
  /\ getting' = [getting EXCEPT ![uid[c]] = c]
  /\ count' = count + 1
  /\ UNCHANGED <<cache, refs, uid, handle, channel, closed>>

(* options.Get, without the lock: a new handle, or an error. *)
InUse(h) == \E c \in Client : handle[c] = h

Load(c) ==
  /\ pc[c] = "load"
  /\ \/ goto(c, "fail") /\ UNCHANGED handle
     \/ /\ goto(c, "install")
        /\ \E h \in Handle : /\ ~InUse(h) /\ \A u \in UID : cache[u] # h
                             /\ handle' = [handle EXCEPT ![c] = h]
  /\ UNCHANGED <<cache, refs, getting, count, uid, channel, closed>>

(* Mutant of Install: the loader's own reference is not counted. *)
InstallUnreferenced(c) ==
  /\ pc[c] = "install" /\ goto(c, "notify")
  /\ getting' = [getting EXCEPT ![uid[c]] = NoClient]
  /\ cache' = [cache EXCEPT ![uid[c]] = handle[c]]
  /\ UNCHANGED <<refs, count, uid, handle, channel, closed>>

(* Get after options.Get, up to the release of the lock. *)
Install(c) ==
  /\ pc[c] = "install" /\ goto(c, "notify")
  /\ getting' = [getting EXCEPT ![uid[c]] = NoClient]
  /\ cache' = [cache EXCEPT ![uid[c]] = handle[c]]
  /\ refs' = [refs EXCEPT ![uid[c]] = 1]
  /\ UNCHANGED <<count, uid, handle, channel, closed>>

Fail(c) ==
  /\ pc[c] = "fail" /\ goto(c, "notify")
  /\ getting' = [getting EXCEPT ![uid[c]] = NoClient]
  /\ count' = count - 1
  /\ UNCHANGED <<cache, refs, uid, handle, channel, closed>>

(* (mutant: after an error Get never comes to close the channel) *)
NotifyBlocks(c) ==
  /\ pc[c] = "notify" /\ handle[c] # NoHandle
  /\ pc' = [d \in Client |->
              IF d = c THEN "hold"
              ELSE IF pc[d] = "wait" /\ channel[d] = c THEN "get" ELSE pc[d]]
  /\ channel' = [d \in Client |-> IF channel[d] = c THEN NoClient ELSE channel[d]]
  /\ UNCHANGED <<cache, refs, getting, count, uid, handle, closed>>

(* close(ch) wakes every subscriber, which starts the loop again; then Get   *)
(* returns.                                                                  *)
Notify(c) ==
  /\ pc[c] = "notify"
  /\ pc' = [d \in Client |->
              IF d = c THEN IF handle[c] = NoHandle THEN "idle" ELSE "hold"
              ELSE IF pc[d] = "wait" /\ channel[d] = c THEN "get" ELSE pc[d]]
  /\ uid' = [uid EXCEPT ![c] = IF handle[c] = NoHandle THEN NoUID ELSE @]
  /\ channel' = [d \in Client |-> IF channel[d] = c THEN NoClient ELSE channel[d]]
  /\ UNCHANGED <<cache, refs, getting, count, handle, closed>>

Release(c) ==
  LET u == uid[c]
      n == (refs[u] + (RefMod - 1)) % RefMod IN
  /\ pc[c] = "hold" /\ goto(c, "idle")
  /\ refs' = [refs EXCEPT ![u] = n]
  /\ IF n = 0 THEN cache' = [cache EXCEPT ![u] = NoHandle] /\ count' = count - 1
              ELSE UNCHANGED <<cache, count>>
  /\ uid' = [uid EXCEPT ![c] = NoUID]
  /\ handle' = [handle EXCEPT ![c] = NoHandle]
  /\ UNCHANGED <<getting, channel, closed>>

(* Close releases what is cached, used or not; count keeps its value. *)
Close ==
  /\ ~closed
  /\ cache' = [u \in UID |-> NoHandle]
  /\ refs' = [u \in UID |-> IF cache[u] # NoHandle THEN 0 ELSE refs[u]]
  /\ closed' = TRUE
  /\ UNCHANGED <<getting, count, pc, uid, handle, channel>>

Step(c) ==
  \/ GetSubscribe(c) \/ GetHit(c) \/ GetFull(c) \/ GetReserve(c)
  \/ Load(c) \/ Install(c) \/ Fail(c) \/ Notify(c)

Next ==
  \/ \E c \in Client : Step(c) \/ Release(c) \/ \E u \in UID : Call(c, u)
  \/ Close

Spec == Init /\ [][Next]_cacherVars
-----------------------------------------------------------------------------
Users(u) == {c \in Client : uid[c] = u /\ handle[c] # NoHandle /\ pc[c] \in {"notify", "hold"}}

(* Until Close, the reference count of a uid is the number of its users, and *)
(* every user has the copy that is in the cache: no Release destroys a       *)
(* resource in use and no load creates a second copy of one.                 *)
UsersShareCopy ==
  ~closed => \A u \in UID :
    /\ refs[u] = Cardinality(Users(u))
    /\ \A c \in Users(u) : cache[u] = handle[c]

(* Until Close, count is the number of cached and of loading resources, so   *)
(* the limit holds during concurrent loads and after failed ones, and a      *)
(* resource nobody uses takes no room.                                       *)
CountExact ==
  ~closed =>
    /\ count = Cardinality({u \in UID : refs[u] > 0 \/ getting[u] # NoClient})
    /\ MaxHandles > 0 => count <= MaxHandles

(* Whoever waits does so on the channel of a Get that is still going to      *)
(* close it, also when that load failed and a third Get has reserved the uid *)
(* again before the channel closed (cacher.go:54).                           *)
WaitersHaveLoader ==
  \A c \in Client : pc[c] = "wait" =>
    /\ channel[c] \in Client
    /\ pc[channel[c]] \in {"load", "install", "fail", "notify"}
    /\ uid[channel[c]] = uid[c]

(* A Get that waits for another one's load is woken, also when the load      *)
(* failed and a third Get reserved the uid again before the channel closed.  *)
SubscribersWoken ==
  \A c \in Client : pc[c] = "wait" ~> pc[c] # "wait" \/ closed
=============================================================================
