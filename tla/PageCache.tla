------------------------------ MODULE PageCache ------------------------------
(* backend/dm/pcacher: the page cache.  Its options.Get reads a page of the  *)
(* file, its options.Release writes a dirty page back under the cacher's     *)
(* lock.  Writes to the file are assumed to succeed.                         *)
EXTENDS Cacher

CONSTANTS Content, NoContent,
          MaxPages  \* bound on the pages ever created

ASSUME ContentAssumption == NoContent \notin Content
ASSUME PagesAssumption == MaxPages \in Nat /\ UID = 1..MaxPages

VARIABLES file,     \* uid -> content of the page on disk (NoContent: past the end)
          noPages,  \* number of the last page handed out by NewPage
          fresh,    \* client -> the page its NewPage has not written yet
          data,     \* handle -> content of the page in memory
          dirty,    \* handles with the dirty flag
          seen      \* client -> what it last read from its page

pageVars == <<file, noPages, fresh, data, dirty, seen>>
allVars == <<cacherVars, pageVars>>

PageTypeOK ==
  /\ TypeOK
  /\ file \in [UID -> Content \cup {NoContent}]
  /\ noPages \in 0..MaxPages
  /\ fresh \in [Client -> UID \cup {NoUID}]
  /\ data \in [Handle -> Content \cup {NoContent}]
  /\ dirty \in SUBSET Handle
  /\ seen \in [Client -> Content \cup {NoContent}]
  /\ \A u \in UID : cache[u] # NoHandle => data[cache[u]] \in Content

PageInit ==
  /\ Init
  /\ file = [u \in UID |-> NoContent]
  /\ noPages = 0
  /\ fresh = [c \in Client |-> NoUID]
  /\ data = [h \in Handle |-> NoContent]
  /\ dirty = {}
  /\ seen = [c \in Client |-> NoContent]
------------------------------------------------------------------------------
Idle(c) == pc[c] = "idle" /\ fresh[c] = NoUID

(* NewPage takes a number, then writes the page past the cacher. *)
NewPageNumber(c) ==
  /\ Idle(c) /\ noPages < MaxPages
  /\ noPages' = noPages + 1
  /\ fresh' = [fresh EXCEPT ![c] = noPages']
  /\ UNCHANGED <<cacherVars, file, data, dirty, seen>>

NewPageFlush(c, d) ==
  /\ fresh[c] # NoUID
  /\ file' = [file EXCEPT ![fresh[c]] = d]
  /\ fresh' = [fresh EXCEPT ![c] = NoUID]
  /\ UNCHANGED <<cacherVars, noPages, data, dirty, seen>>

(* Page numbers come from NewPage's result only. *)
GetPage(c, u) ==
  /\ Idle(c) /\ file[u] # NoContent
  /\ Call(c, u)
  /\ UNCHANGED pageVars

(* getForCacher: a new page, clean, with what the file holds. *)
getForCacher(c) ==
  /\ Load(c)
  /\ IF handle'[c] = NoHandle
       THEN UNCHANGED <<data, dirty>>
       ELSE /\ data' = [data EXCEPT ![handle'[c]] = file[uid[c]]]
            /\ dirty' = dirty \ {handle'[c]}
  /\ UNCHANGED <<file, noPages, fresh, seen>>

(* A user changes the page under page.Lock and marks it dirty. *)
WritePage(c, d) ==
  /\ pc[c] = "hold"
  /\ data' = [data EXCEPT ![handle[c]] = d]
  /\ dirty' = dirty \cup {handle[c]}
  /\ UNCHANGED <<cacherVars, file, noPages, fresh, seen>>

ReadPage(c) ==
  /\ pc[c] = "hold"
  /\ seen' = [seen EXCEPT ![c] = data[handle[c]]]
  /\ UNCHANGED <<cacherVars, file, noPages, fresh, data, dirty>>

FlushPage(c) ==
  /\ pc[c] = "hold"
  /\ file' = [file EXCEPT ![uid[c]] = data[handle[c]]]
  /\ UNCHANGED <<cacherVars, noPages, fresh, data, dirty, seen>>

(* Mutant of ReleasePage: the evicted page is not written back. *)
ReleasePageClean(c) ==
  LET h == handle[c]
      last == cache'[uid[c]] = NoHandle IN
  /\ Release(c)
  /\ dirty' = IF last THEN dirty \ {h} ELSE dirty
  /\ data' = IF last THEN [data EXCEPT ![h] = NoContent] ELSE data
  /\ seen' = [seen EXCEPT ![c] = NoContent]
  /\ UNCHANGED <<file, noPages, fresh>>

(* page.Release; releaseForCacher runs in it when the last user leaves, and   *)
(* nobody refers to the buffer any more.                                      *)
ReleasePage(c) ==
  LET h == handle[c]
      last == cache'[uid[c]] = NoHandle IN
  /\ Release(c)
  /\ file' = IF last /\ h \in dirty THEN [file EXCEPT ![uid[c]] = data[h]] ELSE file
  /\ dirty' = IF last THEN dirty \ {h} ELSE dirty
  /\ data' = IF last THEN [data EXCEPT ![h] = NoContent] ELSE data
  /\ seen' = [seen EXCEPT ![c] = NoContent]
  /\ UNCHANGED <<noPages, fresh>>

(* pcacher.Close: every cached page is released, used or not, and the file is *)
(* closed; the process ends.                                                  *)
ClosePages ==
  /\ Close
  /\ file' = [u \in UID |-> IF cache[u] # NoHandle /\ cache[u] \in dirty THEN data[cache[u]] ELSE file[u]]
  /\ dirty' = {h \in dirty : \A u \in UID : cache[u] # h}
  /\ UNCHANGED <<noPages, fresh, data, seen>>

Quiet(c) == GetSubscribe(c) \/ GetHit(c) \/ GetFull(c) \/ GetReserve(c)
            \/ Install(c) \/ Fail(c) \/ Notify(c)

PageNext ==
  \/ /\ ~closed
     /\ \E c \in Client :
          \/ NewPageNumber(c) \/ \E u \in UID : GetPage(c, u)
          \/ \E d \in Content : NewPageFlush(c, d) \/ WritePage(c, d)
          \/ getForCacher(c) \/ ReadPage(c) \/ FlushPage(c) \/ ReleasePage(c)
          \/ Quiet(c) /\ UNCHANGED pageVars
  \/ ClosePages

PageSpec == PageInit /\ [][PageNext]_allVars

(* A goroutine inside GetPage is scheduled, while the process runs. *)
Loading(c) == ~closed /\ (getForCacher(c) \/ (Quiet(c) /\ UNCHANGED pageVars))
FairPageSpec == PageSpec /\ \A c \in Client : WF_allVars(Loading(c))
------------------------------------------------------------------------------
(* The current content of a page: the cached copy's, or else the file's. *)
Current == [u \in UID |-> IF cache[u] # NoHandle THEN data[cache[u]] ELSE file[u]]

Using == [c \in Client |-> IF pc[c] = "hold" THEN uid[c] ELSE NoUID]

PS == INSTANCE PageStore WITH content <- Current, using <- Using

(* The cached pages implement PageStore: a page that is evicted, reloaded or *)
(* shared between goroutines never shows an old content, and only its users  *)
(* change it.                                                                *)
CacheIsCoherent == PS!Spec
==============================================================================
