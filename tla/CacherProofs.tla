---------------------------- MODULE CacherProofs ----------------------------
(* Proofs about Cacher, for any clients, resources, limit and width of the    *)
(* reference counts that can count the clients.  IInv adds to the three       *)
(* invariants who is registered in getting, which clients have a handle, and  *)
(* that a resource is cached exactly when it is referenced and not loading.   *)
EXTENDS Cacher, FiniteSetTheorems, TLAPS

Loads(c) == pc[c] \in {"load", "install", "fail"}

ClientInv ==
  /\ \A c \in Client : pc[c] # "idle" => uid[c] \in UID
  /\ \A c \in Client : handle[c] # NoHandle => pc[c] \in {"install", "notify", "hold"}
  /\ \A c \in Client : pc[c] \in {"install", "hold"} => handle[c] # NoHandle
  /\ \A c \in Client, u \in UID : getting[u] = c <=> (uid[c] = u /\ Loads(c))
  /\ \A c \in Client : pc[c] # "wait" => channel[c] = NoClient

Counted == {u \in UID : refs[u] > 0 \/ getting[u] # NoClient}

CacheInv ==
  ~closed =>
    /\ \A u \in UID : refs[u] > 0 <=> cache[u] # NoHandle
    /\ \A u \in UID : getting[u] # NoClient => cache[u] = NoHandle

Types ==
  /\ cache \in [UID -> Handle \cup {NoHandle}] /\ refs \in [UID -> 0..(RefMod - 1)]
  /\ getting \in [UID -> Client \cup {NoClient}] /\ count \in Int
  /\ pc \in [Client -> Points] /\ uid \in [Client -> UID \cup {NoUID}]
  /\ handle \in [Client -> Handle \cup {NoHandle}] /\ channel \in [Client -> Client \cup {NoClient}]
  /\ closed \in BOOLEAN

IInv == Types /\ ClientInv /\ CacheInv /\ UsersShareCopy /\ CountExact /\ WaitersHaveLoader

-----------------------------------------------------------------------------
(* Counting modulo RefMod *)

(* Below the modulus, nothing wraps. *)
LEMMA ModSmall == ASSUME NEW m \in Nat \ {0}, NEW a \in Nat, a < m PROVE a % m = a
  BY SMT

(* Adding the modulus less one is subtracting one. *)
LEMMA ModDown == ASSUME NEW m \in Nat \ {0}, NEW a \in Nat \ {0}, a < m PROVE (a + (m - 1)) % m = a - 1
  BY SMT

LEMMA ModRange == ASSUME NEW m \in Nat \ {0}, NEW a \in Int PROVE a % m \in 0..(m - 1)
  BY SMT

LEMMA Modulus == RefMod \in Nat \ {0} /\ Cardinality(Client) \in Nat
  BY RefModAssumption, ClientAssumption, FS_CardinalityType

(* The users of a resource can be counted. *)
LEMMA UsersFinite ==
  ASSUME NEW S \in SUBSET Client
  PROVE  IsFiniteSet(S) /\ Cardinality(S) \in Nat /\ Cardinality(S) < RefMod
<1>1. IsFiniteSet(S) /\ Cardinality(S) <= Cardinality(Client)
  BY ClientAssumption, FS_Subset
<1>2. Cardinality(S) \in Nat
  BY <1>1, FS_CardinalityType
<1>. QED
  BY <1>1, <1>2, Modulus, RefModAssumption

LEMMA CountedFinite ==
  ASSUME NEW S \in SUBSET UID
  PROVE  IsFiniteSet(S) /\ Cardinality(S) \in Nat
  BY UIDAssumption, FS_Subset, FS_CardinalityType

LEMMA InitIInv == Init => IInv
<1>. SUFFICES ASSUME Init PROVE IInv
  OBVIOUS
<1>0. 0 \in 0..(RefMod - 1)
  BY Modulus
<1>1. Types
  <2>1. refs \in [UID -> 0..(RefMod - 1)]
    BY <1>0, Zenon DEF Init
  <2>2. cache \in [UID -> Handle \cup {NoHandle}] /\ getting \in [UID -> Client \cup {NoClient}]
    BY DEF Init
  <2>3. pc \in [Client -> Points] /\ uid \in [Client -> UID \cup {NoUID}]
    BY DEF Init, Points
  <2>4. handle \in [Client -> Handle \cup {NoHandle}] /\ channel \in [Client -> Client \cup {NoClient}]
    BY DEF Init
  <2>5. count \in Int
    BY DEF Init
  <2>6. closed \in BOOLEAN
    BY Zenon DEF Init
  <2>. QED
    BY <2>1, <2>2, <2>3, <2>4, <2>5, <2>6, Zenon DEF Types
<1>2. ClientInv /\ CacheInv /\ WaitersHaveLoader
  BY ClientAssumption, UIDAssumption DEF Init, ClientInv, Loads, CacheInv, WaitersHaveLoader
<1>3. \A u \in UID : Users(u) = {}
  BY DEF Init, Users
<1>4. UsersShareCopy
  BY <1>3, FS_EmptySet DEF Init, UsersShareCopy
<1>5. {u \in UID : refs[u] > 0 \/ getting[u] # NoClient} = {}
  BY DEF Init
<1>6. CountExact
  BY <1>5, FS_EmptySet, MaxHandlesAssumption DEF Init, CountExact
<1>. QED
  BY <1>1, <1>2, <1>4, <1>6 DEF IInv

-----------------------------------------------------------------------------
(* Who is registered, who has a handle, who waits on whom *)

LEMMA TypesKept == IInv /\ [Next]_cacherVars => Types'
<1>. SUFFICES ASSUME IInv, [Next]_cacherVars PROVE Types'
  OBVIOUS
<1>. USE DEF IInv, Types, Points, goto
<1>0. \A a \in Int : a % RefMod \in 0..(RefMod - 1)
  BY Modulus, ModRange
<1>a. \A u \in UID : refs[u] + 1 \in Int /\ refs[u] + (RefMod - 1) \in Int
  BY Modulus
<1>b. 0 \in 0..(RefMod - 1) /\ (Client # {} => 1 \in 0..(RefMod - 1))
  <2>1. Client # {} => Cardinality(Client) # 0
    BY ClientAssumption, FS_EmptySet
  <2>. QED
    BY <2>1, Modulus, RefModAssumption
<1>1. ASSUME NEW c \in Client, NEW u \in UID, Call(c, u) PROVE Types'
  BY <1>1 DEF Call
<1>2. ASSUME NEW c \in Client, GetSubscribe(c) PROVE Types'
  BY <1>2 DEF GetSubscribe, ClientInv
<1>3. ASSUME NEW c \in Client, GetHit(c) PROVE Types'
  BY <1>0, <1>a, <1>3 DEF GetHit, ClientInv
<1>4. ASSUME NEW c \in Client, GetFull(c) PROVE Types'
  BY <1>4 DEF GetFull
<1>5. ASSUME NEW c \in Client, GetReserve(c) PROVE Types'
  <2>1. count' \in Int
    BY <1>5 DEF GetReserve
  <2>2. getting' \in [UID -> Client \cup {NoClient}] /\ pc' \in [Client -> Points]
    BY <1>5 DEF GetReserve
  <2>3. UNCHANGED <<cache, refs, uid, handle, channel, closed>>
    BY <1>5 DEF GetReserve
  <2>. QED
    BY <2>1, <2>2, <2>3
<1>6. ASSUME NEW c \in Client, Load(c) PROVE Types'
  BY <1>6 DEF Load
<1>7. ASSUME NEW c \in Client, Install(c) PROVE Types'
  <2>1. refs' \in [UID -> 0..(RefMod - 1)]
    BY <1>b, <1>7 DEF Install
  <2>. QED
    BY <1>7, <2>1 DEF Install
<1>8. ASSUME NEW c \in Client, Fail(c) PROVE Types'
  <2>1. count' \in Int
    BY <1>8 DEF Fail
  <2>2. getting' \in [UID -> Client \cup {NoClient}] /\ pc' \in [Client -> Points]
    BY <1>8 DEF Fail
  <2>3. UNCHANGED <<cache, refs, uid, handle, channel, closed>>
    BY <1>8 DEF Fail
  <2>. QED
    BY <2>1, <2>2, <2>3
<1>9. ASSUME NEW c \in Client, Notify(c) PROVE Types'
  BY <1>9 DEF Notify
<1>10. ASSUME NEW c \in Client, Release(c) PROVE Types'
  <2>1. refs' \in [UID -> 0..(RefMod - 1)]
    BY <1>0, <1>a, <1>10 DEF Release, ClientInv
  <2>2. cache' \in [UID -> Handle \cup {NoHandle}] /\ count' \in Int
    BY <1>10 DEF Release
  <2>. QED
    BY <1>10, <2>1, <2>2 DEF Release
<1>11. CASE Close
  <2>1. refs' \in [UID -> 0..(RefMod - 1)] /\ cache' \in [UID -> Handle \cup {NoHandle}]
    BY <1>b, <1>11 DEF Close
  <2>2. closed' \in BOOLEAN
    BY <1>11, Zenon DEF Close
  <2>3. UNCHANGED <<getting, count, pc, uid, handle, channel>>
    BY <1>11 DEF Close
  <2>. QED
    BY <2>1, <2>2, <2>3
<1>12. CASE UNCHANGED cacherVars
  BY <1>12 DEF cacherVars
<1>. QED
  BY <1>1, <1>2, <1>3, <1>4, <1>5, <1>6, <1>7, <1>8, <1>9, <1>10, <1>11, <1>12 DEF Next, Step

LEMMA ClientsKept == IInv /\ [Next]_cacherVars => ClientInv' /\ WaitersHaveLoader'
<1>. SUFFICES ASSUME IInv, [Next]_cacherVars PROVE ClientInv' /\ WaitersHaveLoader'
  OBVIOUS
<1>. USE ClientAssumption, UIDAssumption, HandleAssumption DEF IInv, Types, Points, goto, ClientInv, Loads, WaitersHaveLoader
<1>1. ASSUME NEW c \in Client, NEW u \in UID, Call(c, u) PROVE ClientInv' /\ WaitersHaveLoader'
  BY <1>1 DEF Call
<1>2. ASSUME NEW c \in Client, GetSubscribe(c) PROVE ClientInv' /\ WaitersHaveLoader'
  BY <1>2 DEF GetSubscribe
<1>3. ASSUME NEW c \in Client, GetHit(c) PROVE ClientInv' /\ WaitersHaveLoader'
  BY <1>3 DEF GetHit
<1>4. ASSUME NEW c \in Client, GetFull(c) PROVE ClientInv' /\ WaitersHaveLoader'
  BY <1>4 DEF GetFull, Miss
<1>5. ASSUME NEW c \in Client, GetReserve(c) PROVE ClientInv' /\ WaitersHaveLoader'
  BY <1>5 DEF GetReserve, Miss
<1>6. ASSUME NEW c \in Client, Load(c) PROVE ClientInv' /\ WaitersHaveLoader'
  BY <1>6 DEF Load, InUse
<1>7. ASSUME NEW c \in Client, Install(c) PROVE ClientInv' /\ WaitersHaveLoader'
  BY <1>7 DEF Install
<1>8. ASSUME NEW c \in Client, Fail(c) PROVE ClientInv' /\ WaitersHaveLoader'
  BY <1>8 DEF Fail
<1>9. ASSUME NEW c \in Client, Notify(c) PROVE ClientInv' /\ WaitersHaveLoader'
  BY <1>9 DEF Notify
<1>10. ASSUME NEW c \in Client, Release(c) PROVE ClientInv' /\ WaitersHaveLoader'
  BY <1>10 DEF Release
<1>11. CASE Close
  BY <1>11 DEF Close
<1>12. CASE UNCHANGED cacherVars
  BY <1>12 DEF cacherVars
<1>. QED
  BY <1>1, <1>2, <1>3, <1>4, <1>5, <1>6, <1>7, <1>8, <1>9, <1>10, <1>11, <1>12 DEF Next, Step

-----------------------------------------------------------------------------
(* What is cached and counted *)

(* A step that changes no count, no registration and no user. *)
LEMMA QuietStep ==
  ASSUME IInv, UNCHANGED <<cache, refs, getting, count, closed>>,
         \A u \in UID : Users(u)' = Users(u), \A u \in UID : \A c \in Users(u) : handle'[c] = handle[c]
  PROVE  CacheInv' /\ UsersShareCopy' /\ CountExact'
<1>1. CacheInv' /\ CountExact'
  BY DEF IInv, CacheInv, CountExact
<1>2. UsersShareCopy'
  <2>. SUFFICES ASSUME ~closed, NEW u \in UID
                PROVE  refs[u] = Cardinality(Users(u)') /\ \A c \in Users(u)' : cache[u] = handle'[c]
    BY DEF UsersShareCopy
  <2>1. refs[u] = Cardinality(Users(u)) /\ \A c \in Users(u) : cache[u] = handle[c]
    BY DEF IInv, UsersShareCopy
  <2>2. Users(u)' = Users(u) /\ \A c \in Users(u) : handle'[c] = handle[c]
    OBVIOUS
  <2>. QED
    BY <2>1, <2>2
<1>. QED
  BY <1>1, <1>2

LEMMA QuietKept ==
  ASSUME IInv, NEW c \in Client,
         GetSubscribe(c) \/ GetFull(c) \/ Load(c) \/ Notify(c) \/ (\E u \in UID : Call(c, u))
  PROVE  CacheInv' /\ UsersShareCopy' /\ CountExact'
<1>1. UNCHANGED <<cache, refs, getting, count, closed>>
  BY DEF GetSubscribe, GetFull, Load, Notify, Call
<1>2. \A u \in UID : Users(u)' = Users(u) /\ \A d \in Users(u) : handle'[d] = handle[d]
  <2>. USE HandleAssumption, UIDAssumption DEF IInv, Types, ClientInv, Users, goto, Points
  <2>1. CASE GetSubscribe(c)
    BY <2>1 DEF GetSubscribe
  <2>2. CASE GetFull(c)
    BY <2>2 DEF GetFull, Miss
  <2>3. CASE Load(c)
    BY <2>3 DEF Load
  <2>4. CASE Notify(c)
    BY <2>4 DEF Notify
  <2>5. CASE \E u \in UID : Call(c, u)
    BY <2>5 DEF Call
  <2>. QED
    BY <2>1, <2>2, <2>3, <2>4, <2>5
<1>. QED
  BY <1>1, <1>2, QuietStep

(* A hit adds one user and one reference, which do not wrap. *)
LEMMA GetHitKept ==
  ASSUME IInv, NEW c \in Client, GetHit(c)
  PROVE  CacheInv' /\ UsersShareCopy' /\ CountExact'
<1>2. PICK v \in UID : v = uid[c]
  BY DEF GetHit, IInv, ClientInv
<1>1. /\ v \in UID /\ cache[v] # NoHandle /\ handle' = [handle EXCEPT ![c] = cache[v]]
      /\ refs' = [refs EXCEPT ![v] = (refs[v] + 1) % RefMod] /\ UNCHANGED <<cache, getting, count, uid, closed>>
      /\ pc[c] = "get" /\ pc' = [pc EXCEPT ![c] = "hold"]
  BY <1>2 DEF GetHit, goto
<1>. SUFFICES ASSUME ~closed PROVE CacheInv' /\ UsersShareCopy' /\ CountExact'
  BY <1>1 DEF CacheInv, UsersShareCopy, CountExact
<1>3. Users(v)' = Users(v) \cup {c} /\ c \notin Users(v) /\ \A u \in UID : u # v => Users(u)' = Users(u)
  BY <1>1, <1>2, HandleAssumption DEF Users, IInv, Types
<1>4. \A u \in UID : \A d \in Users(u)' : handle'[d] = IF d = c THEN cache[v] ELSE handle[d]
  BY <1>1 DEF IInv, Types, Users
<1>5. refs[v] = Cardinality(Users(v)) /\ Cardinality(Users(v)') = Cardinality(Users(v)) + 1
  <2>1. IsFiniteSet(Users(v))
    BY UsersFinite DEF Users
  <2>. QED
    BY <1>1, <1>3, <2>1, FS_AddElement DEF IInv, UsersShareCopy
<1>6. Cardinality(Users(v)') < RefMod /\ Cardinality(Users(v)) \in Nat
  <2>1. Users(v)' \in SUBSET Client /\ Users(v) \in SUBSET Client
    BY DEF Users
  <2>. QED
    BY <2>1, UsersFinite
<1>7. refs'[v] = refs[v] + 1 /\ refs[v] \in Nat /\ \A u \in UID : u # v => refs'[u] = refs[u]
  <2>1. (refs[v] + 1) % RefMod = refs[v] + 1
    BY <1>5, <1>6, Modulus, ModSmall
  <2>. QED
    BY <1>1, <1>5, <1>6, <2>1 DEF IInv, Types
<1>8. refs[v] > 0
  BY <1>1 DEF IInv, CacheInv
<1>9. CacheInv'
  BY <1>1, <1>7, <1>8 DEF IInv, CacheInv
<1>10. UsersShareCopy'
  <2>1. refs'[v] = Cardinality(Users(v)')
    BY <1>5, <1>7
  <2>2. \A u \in UID : u # v => refs'[u] = Cardinality(Users(u)')
    BY <1>3, <1>7 DEF IInv, UsersShareCopy
  <2>3. \A u \in UID : \A d \in Users(u)' : cache'[u] = handle'[d]
    <3>1. \A u \in UID : c \notin Users(u)
      BY <1>1 DEF Users
    <3>2. \A u \in UID : \A d \in Users(u) : cache[u] = handle[d]
      BY DEF IInv, UsersShareCopy
    <3>. QED
      BY <1>1, <1>3, <1>4, <3>1, <3>2
  <2>. QED
    BY <2>1, <2>2, <2>3 DEF UsersShareCopy
<1>11. {u \in UID : refs'[u] > 0 \/ getting'[u] # NoClient} = {u \in UID : refs[u] > 0 \/ getting[u] # NoClient}
  BY <1>1, <1>7, <1>8
<1>12. CountExact'
  BY <1>1, <1>11 DEF IInv, CountExact
<1>. QED
  BY <1>9, <1>10, <1>12

(* A miss registers its client and counts the resource before it is loaded. *)
LEMMA GetReserveKept ==
  ASSUME IInv, NEW c \in Client, GetReserve(c)
  PROVE  CacheInv' /\ UsersShareCopy' /\ CountExact'
<1>1. PICK v \in UID : v = uid[c]
  BY DEF GetReserve, Miss, IInv, ClientInv
<1>2. /\ pc[c] = "get" /\ pc' = [pc EXCEPT ![c] = "load"] /\ getting[v] = NoClient /\ cache[v] = NoHandle
      /\ ~(MaxHandles > 0 /\ count = MaxHandles) /\ getting' = [getting EXCEPT ![v] = c]
      /\ count' = count + 1 /\ UNCHANGED <<cache, refs, uid, handle, closed>>
  BY <1>1 DEF GetReserve, Miss, goto
<1>. SUFFICES ASSUME ~closed PROVE CacheInv' /\ UsersShareCopy' /\ CountExact'
  BY <1>2 DEF CacheInv, UsersShareCopy, CountExact
<1>3. \A u \in UID : Users(u)' = Users(u)
  BY <1>2 DEF Users, IInv, Types
<1>4. UsersShareCopy'
  BY <1>2, <1>3 DEF IInv, UsersShareCopy
<1>5. ~(refs[v] > 0)
  BY <1>2 DEF IInv, CacheInv
<1>6. CacheInv'
  BY <1>2 DEF IInv, Types, CacheInv
<1>7. Counted' = Counted \cup {v} /\ v \notin Counted
  BY <1>2, <1>5, ClientAssumption DEF Counted, IInv, Types
<1>8. Cardinality(Counted') = Cardinality(Counted) + 1 /\ Cardinality(Counted) \in Nat
  <2>1. IsFiniteSet(Counted) /\ Cardinality(Counted) \in Nat
    BY CountedFinite DEF Counted
  <2>. QED
    BY <1>7, <2>1, FS_AddElement
<1>9. count = Cardinality(Counted) /\ (MaxHandles > 0 => count <= MaxHandles)
  BY DEF IInv, CountExact, Counted
<1>10. count' = Cardinality(Counted') /\ (MaxHandles > 0 => count' <= MaxHandles)
  BY <1>2, <1>8, <1>9, MaxHandlesAssumption
<1>11. CountExact'
  BY <1>10 DEF CountExact, Counted
<1>. QED
  BY <1>4, <1>6, <1>11

(* The loaded resource has one user, its loader. *)
LEMMA InstallKept ==
  ASSUME IInv, NEW c \in Client, Install(c)
  PROVE  CacheInv' /\ UsersShareCopy' /\ CountExact'
<1>1. PICK v \in UID : v = uid[c]
  BY DEF Install, IInv, ClientInv
<1>2. /\ pc[c] = "install" /\ pc' = [pc EXCEPT ![c] = "notify"] /\ getting' = [getting EXCEPT ![v] = NoClient]
      /\ cache' = [cache EXCEPT ![v] = handle[c]] /\ refs' = [refs EXCEPT ![v] = 1]
      /\ UNCHANGED <<count, uid, handle, closed>>
  BY <1>1 DEF Install, goto
<1>. SUFFICES ASSUME ~closed PROVE CacheInv' /\ UsersShareCopy' /\ CountExact'
  BY <1>2 DEF CacheInv, UsersShareCopy, CountExact
<1>3. getting[v] = c /\ handle[c] # NoHandle /\ cache[v] = NoHandle
  BY <1>1, <1>2, ClientAssumption DEF IInv, ClientInv, Loads, CacheInv
<1>4. /\ cache'[v] = handle[c] /\ refs'[v] = 1 /\ getting'[v] = NoClient
      /\ \A u \in UID : u # v => cache'[u] = cache[u] /\ refs'[u] = refs[u] /\ getting'[u] = getting[u]
  BY <1>2 DEF IInv, Types
<1>5. Users(v) = {}
  <2>1. \A d \in Users(v) : cache[v] = handle[d] /\ handle[d] # NoHandle
    BY DEF IInv, UsersShareCopy, Users
  <2>. QED
    BY <1>3, <2>1
<1>6. Users(v)' = {c} /\ \A u \in UID : u # v => Users(u)' = Users(u)
  <2>1. \A u \in UID : Users(u)' = IF u = v THEN Users(u) \cup {c} ELSE Users(u)
    BY <1>1, <1>2, <1>3 DEF Users, IInv, Types
  <2>. QED
    BY <1>5, <2>1
<1>7. UsersShareCopy'
  <2>1. Cardinality({c}) = 1
    BY FS_Singleton
  <2>2. refs'[v] = Cardinality(Users(v)') /\ \A d \in Users(v)' : cache'[v] = handle'[d]
    BY <1>2, <1>4, <1>6, <2>1
  <2>3. ASSUME NEW u \in UID, u # v
        PROVE  refs'[u] = Cardinality(Users(u)') /\ \A d \in Users(u)' : cache'[u] = handle'[d]
    <3>1. refs[u] = Cardinality(Users(u)) /\ \A d \in Users(u) : cache[u] = handle[d]
      BY DEF IInv, UsersShareCopy
    <3>. QED
      BY <1>2, <1>4, <1>6, <2>3, <3>1
  <2>. QED
    BY <2>2, <2>3 DEF UsersShareCopy
<1>8. CacheInv'
  BY <1>2, <1>3, <1>4 DEF IInv, CacheInv
<1>9. {u \in UID : refs'[u] > 0 \/ getting'[u] # NoClient} = {u \in UID : refs[u] > 0 \/ getting[u] # NoClient}
  BY <1>3, <1>4, ClientAssumption
<1>10. CountExact'
  BY <1>2, <1>9 DEF IInv, CountExact
<1>. QED
  BY <1>7, <1>8, <1>10

(* After a failed load the resource is not counted any more. *)
LEMMA FailKept ==
  ASSUME IInv, NEW c \in Client, Fail(c)
  PROVE  CacheInv' /\ UsersShareCopy' /\ CountExact'
<1>1. PICK v \in UID : v = uid[c]
  BY DEF Fail, IInv, ClientInv
<1>2. /\ pc[c] = "fail" /\ pc' = [pc EXCEPT ![c] = "notify"] /\ getting' = [getting EXCEPT ![v] = NoClient]
      /\ count' = count - 1 /\ UNCHANGED <<cache, refs, uid, handle, closed>>
  BY <1>1 DEF Fail, goto
<1>. SUFFICES ASSUME ~closed PROVE CacheInv' /\ UsersShareCopy' /\ CountExact'
  BY <1>2 DEF CacheInv, UsersShareCopy, CountExact
<1>3. getting[v] = c /\ handle[c] = NoHandle /\ ~(refs[v] > 0)
  BY <1>1, <1>2, ClientAssumption DEF IInv, ClientInv, Loads, CacheInv
<1>4. getting'[v] = NoClient /\ \A u \in UID : u # v => getting'[u] = getting[u]
  BY <1>2 DEF IInv, Types
<1>5. \A u \in UID : Users(u)' = Users(u)
  BY <1>2, <1>3 DEF Users, IInv, Types
<1>6. UsersShareCopy'
  BY <1>2, <1>5 DEF IInv, UsersShareCopy
<1>7. CacheInv'
  BY <1>2, <1>4 DEF IInv, CacheInv
<1>8. Counted' = Counted \ {v} /\ v \in Counted
  BY <1>2, <1>3, <1>4, ClientAssumption DEF Counted
<1>9. Cardinality(Counted') = Cardinality(Counted) - 1 /\ Cardinality(Counted) \in Nat
  <2>1. IsFiniteSet(Counted) /\ Cardinality(Counted) \in Nat
    BY CountedFinite DEF Counted
  <2>. QED
    BY <1>8, <2>1, FS_RemoveElement
<1>10. count = Cardinality(Counted) /\ (MaxHandles > 0 => count <= MaxHandles)
  BY DEF IInv, CountExact, Counted
<1>11. count' = Cardinality(Counted') /\ (MaxHandles > 0 => count' <= MaxHandles)
  BY <1>2, <1>9, <1>10, MaxHandlesAssumption
<1>12. CountExact'
  BY <1>11 DEF CountExact, Counted
<1>. QED
  BY <1>6, <1>7, <1>12

(* A release takes one user away; the last one takes the resource with it. *)
LEMMA ReleaseKept ==
  ASSUME IInv, NEW c \in Client, Release(c)
  PROVE  CacheInv' /\ UsersShareCopy' /\ CountExact'
<1>1. PICK v \in UID : v = uid[c]
  BY DEF Release, IInv, ClientInv
<1>. DEFINE n == (refs[v] + (RefMod - 1)) % RefMod
<1>2. /\ pc[c] = "hold" /\ pc' = [pc EXCEPT ![c] = "idle"] /\ refs' = [refs EXCEPT ![v] = n]
      /\ IF n = 0 THEN cache' = [cache EXCEPT ![v] = NoHandle] /\ count' = count - 1 ELSE UNCHANGED <<cache, count>>
      /\ uid' = [uid EXCEPT ![c] = NoUID] /\ handle' = [handle EXCEPT ![c] = NoHandle]
      /\ UNCHANGED <<getting, closed>>
  BY <1>1 DEF Release, goto
<1>. HIDE DEF n
<1>. SUFFICES ASSUME ~closed PROVE CacheInv' /\ UsersShareCopy' /\ CountExact'
  BY <1>2 DEF CacheInv, UsersShareCopy, CountExact
<1>3. c \in Users(v) /\ Users(v)' = Users(v) \ {c} /\ \A u \in UID : u # v => Users(u)' = Users(u) /\ c \notin Users(u)
  BY <1>1, <1>2, UIDAssumption DEF Users, IInv, Types, ClientInv
<1>4. /\ refs[v] = Cardinality(Users(v)) /\ refs[v] \in Nat \ {0} /\ refs[v] < RefMod
      /\ Cardinality(Users(v)') = refs[v] - 1
  <2>1. Users(v) \in SUBSET Client
    BY DEF Users
  <2>2. IsFiniteSet(Users(v)) /\ Cardinality(Users(v)) \in Nat /\ Cardinality(Users(v)) < RefMod
    BY <2>1, UsersFinite
  <2>3. Cardinality(Users(v)) # 0
    BY <1>3, <2>2, FS_EmptySet
  <2>4. refs[v] = Cardinality(Users(v))
    BY DEF IInv, UsersShareCopy
  <2>. QED
    BY <1>3, <2>2, <2>3, <2>4, FS_RemoveElement
<1>5. n = refs[v] - 1
  BY <1>4, Modulus, ModDown DEF n
<1>6. refs'[v] = refs[v] - 1 /\ \A u \in UID : u # v => refs'[u] = refs[u] /\ cache'[u] = cache[u]
  BY <1>2, <1>5 DEF IInv, Types
<1>7. n = 0 => Users(v)' = {} /\ cache'[v] = NoHandle
  <2>1. IsFiniteSet(Users(v)')
    <3>1. Users(v)' \in SUBSET Client
      BY DEF Users
    <3>. QED
      BY <3>1, UsersFinite
  <2>. QED
    BY <1>2, <1>4, <1>5, <2>1, FS_EmptySet DEF IInv, Types
<1>8. n # 0 => cache' = cache /\ count' = count
  BY <1>2
<1>9. \A u \in UID : \A d \in Users(u)' : d \in Users(u) /\ d # c /\ handle'[d] = handle[d]
  <2>1. \A d \in Client : d # c => handle'[d] = handle[d]
    BY <1>2 DEF IInv, Types
  <2>2. \A u \in UID : Users(u) \subseteq Client
    BY DEF Users
  <2>. QED
    BY <1>3, <2>1, <2>2
<1>10. UsersShareCopy'
  <2>1. refs'[v] = Cardinality(Users(v)')
    BY <1>4, <1>6
  <2>2. \A u \in UID : u # v => refs'[u] = Cardinality(Users(u)')
    BY <1>3, <1>6 DEF IInv, UsersShareCopy
  <2>3. \A u \in UID : \A d \in Users(u) : cache[u] = handle[d]
    BY DEF IInv, UsersShareCopy
  <2>4. \A u \in UID : \A d \in Users(u)' : cache'[u] = handle'[d]
    BY <1>6, <1>7, <1>8, <1>9, <2>3
  <2>. QED
    BY <2>1, <2>2, <2>4 DEF UsersShareCopy
<1>11. cache[v] # NoHandle /\ getting[v] = NoClient
  BY <1>4 DEF IInv, CacheInv
<1>12. CacheInv'
  BY <1>2, <1>4, <1>5, <1>6, <1>7, <1>8, <1>11 DEF IInv, CacheInv
<1>13. CountExact'
  <2>0. count = Cardinality(Counted) /\ (MaxHandles > 0 => count <= MaxHandles)
    BY DEF IInv, CountExact, Counted
  <2>1. CASE n = 0
    <3>1. Counted' = Counted \ {v} /\ v \in Counted
      BY <1>2, <1>4, <1>5, <1>6, <1>11, <2>1 DEF Counted
    <3>2. Cardinality(Counted') = Cardinality(Counted) - 1 /\ Cardinality(Counted) \in Nat
      <4>1. IsFiniteSet(Counted) /\ Cardinality(Counted) \in Nat
        BY CountedFinite DEF Counted
      <4>. QED
        BY <3>1, <4>1, FS_RemoveElement
    <3>3. count' = Cardinality(Counted') /\ (MaxHandles > 0 => count' <= MaxHandles)
      BY <1>2, <2>0, <2>1, <3>2, MaxHandlesAssumption
    <3>. QED
      BY <3>3 DEF CountExact, Counted
  <2>2. CASE n # 0
    <3>1. Counted' = Counted
      BY <1>2, <1>4, <1>5, <1>6, <2>2 DEF Counted
    <3>2. count' = Cardinality(Counted') /\ (MaxHandles > 0 => count' <= MaxHandles)
      BY <1>8, <2>0, <2>2, <3>1
    <3>. QED
      BY <3>2 DEF CountExact, Counted
  <2>. QED
    BY <2>1, <2>2
<1>. QED
  BY <1>10, <1>12, <1>13

LEMMA NextIInv == IInv /\ [Next]_cacherVars => IInv'
<1>. SUFFICES ASSUME IInv, [Next]_cacherVars PROVE IInv'
  OBVIOUS
<1>1. Types' /\ ClientInv' /\ WaitersHaveLoader'
  BY TypesKept, ClientsKept
<1>2. CacheInv' /\ UsersShareCopy' /\ CountExact'
  <2>1. CASE Close
    BY <2>1 DEF Close, CacheInv, UsersShareCopy, CountExact
  <2>2. CASE UNCHANGED cacherVars
    <3>1. UNCHANGED <<cache, refs, getting, count, closed, pc, uid, handle>>
      BY <2>2 DEF cacherVars
    <3>. QED
      BY <3>1, QuietStep DEF Users
  <2>. QED
    BY <2>1, <2>2, QuietKept, GetHitKept, GetReserveKept, InstallKept, FailKept, ReleaseKept DEF Next, Step
<1>. QED
  BY <1>1, <1>2 DEF IInv

THEOREM Invariance == Spec => []IInv
  BY InitIInv, NextIInv, PTL DEF Spec

(* For any number of clients and resources: until Close, the reference count  *)
(* is the number of users and all of them have the cached copy, so that none  *)
(* is destroyed in use and none loaded twice (cacher.go:61, :110).            *)
THEOREM UsersAlwaysShareCopy == Spec => []UsersShareCopy
<1>1. IInv => UsersShareCopy
  BY DEF IInv
<1>. QED
  BY <1>1, Invariance, PTL

(* count is exact and within MaxHandles, through concurrent and failed loads  *)
(* (cacher.go:69).                                                            *)
THEOREM CountIsExact == Spec => []CountExact
<1>1. IInv => CountExact
  BY DEF IInv
<1>. QED
  BY <1>1, Invariance, PTL

(* Nobody waits on a channel that is not going to be closed (cacher.go:54).   *)
THEOREM WaitersAreServed == Spec => []WaitersHaveLoader
<1>1. IInv => WaitersHaveLoader
  BY DEF IInv
<1>. QED
  BY <1>1, Invariance, PTL
=============================================================================
