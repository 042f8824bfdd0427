------------------------------ MODULE PageStore ------------------------------
(* What the page cache promises to the data manager: pages with one current  *)
(* content each, which their users read and write.                           *)
CONSTANTS Client, UID, Content, NoContent, NoUID

VARIABLES content,  \* uid -> current content (NoContent: no such page)
          using,    \* client -> the page it uses
          seen      \* client -> what it last read of the page it uses

storeVars == <<content, using, seen>>

Init ==
  /\ content = [u \in UID |-> NoContent]
  /\ using = [c \in Client |-> NoUID]
  /\ seen = [c \in Client |-> NoContent]

NewPage(u, d) ==
  /\ content[u] = NoContent
  /\ content' = [content EXCEPT ![u] = d]
  /\ UNCHANGED <<using, seen>>

Get(c, u) ==
  /\ using[c] = NoUID /\ content[u] # NoContent
  /\ using' = [using EXCEPT ![c] = u]
  /\ UNCHANGED <<content, seen>>

Write(c, d) ==
  /\ using[c] # NoUID
  /\ content' = [content EXCEPT ![using[c]] = d]
  /\ UNCHANGED <<using, seen>>

Read(c) ==
  /\ using[c] # NoUID
  /\ seen' = [seen EXCEPT ![c] = content[using[c]]]
  /\ UNCHANGED <<content, using>>

Release(c) ==
  /\ using[c] # NoUID
  /\ using' = [using EXCEPT ![c] = NoUID]
  /\ seen' = [seen EXCEPT ![c] = NoContent]
  /\ UNCHANGED content

Next ==
  \/ \E u \in UID, d \in Content : NewPage(u, d)
  \/ \E c \in Client :
       \/ \E u \in UID : Get(c, u)
       \/ \E d \in Content : Write(c, d)
       \/ Read(c)
       \/ Release(c)

Spec == Init /\ [][Next]_storeVars
==============================================================================
