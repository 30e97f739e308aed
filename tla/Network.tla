------------------------------ MODULE Network -------------------------------
(***************************************************************************)
(* The network storage: src/src/storage.c and socket.c at one end of a TCP *)
(* connection, a thread of src/server/server.py at the other.              *)
(*                                                                         *)
(* A connection carries units, not messages: a header is one unit and a    *)
(* page is PageUnits of them, which a read may split anywhere.  PUT, RM    *)
(* and RELEASE have no answer, so the module runs ahead of the server.     *)
(*                                                                         *)
(* Each load of the module opens a connection.  The server has a thread    *)
(* for each, and one dict for all of them; a thread may still be reading   *)
(* when the module is loaded again.  A connection may be closed by the     *)
(* other end, and the server may be killed and started again.              *)
(***************************************************************************)
EXTENDS Integers, Sequences, SequencesExt, Functions

CONSTANTS
  Pids, Addresses,   \* a page is stored under its thread and address
  Values,            \* what a page may hold
  Zero,              \* what a page that the server does not have holds
  PageUnits,         \* units in a page
  MaxConns,          \* bound: times that the module is loaded
  MaxUp, MaxDown,    \* bounds: units on their way, each direction
  Overlap,           \* whether the module is loaded again while the last thread has units to read
  Unlocked           \* whether a process ends, and its close handler runs, in the middle of a save

ASSUME NetworkAssumption ==
  /\ PageUnits \in Nat \ {0} /\ MaxConns \in Nat /\ MaxUp \in Nat /\ MaxDown \in Nat
  /\ Overlap \in BOOLEAN /\ Unlocked \in BOOLEAN

Keys == Pids \X Addresses
Conns == 1..MaxConns

VARIABLES
  client,    \* the call of the module: its step, key and value
  cur,       \* the last connection opened, 0 at first
  link,      \* whether it still reaches the server
  up,        \* connection |-> units the module sent and the server did not read
  down,      \* units the server sent on the last one and the module did not read
  server,    \* connection |-> its thread: the step, key and the units of a page
  pages,     \* the server's dict: key |-> units of the page
  saved,     \* history: stored key |-> the value last saved before the connection broke
  short,     \* history: some load on this connection read less than a page
  broken     \* history: some connection broke

wires == <<cur, link, up, down>>
history == <<short, broken>>
vars == <<client, wires, server, pages, saved, history>>

Header == [cmd : {"PUT", "GET", "RM"}, key : Keys] \cup [cmd : {"RELEASE"}]

Unit == [value : Values \cup {Zero}, part : 1..PageUnits]

Page(v) == [i \in 1..PageUnits |-> [value |-> v, part |-> i]]

IsHeader(u) == "cmd" \in DOMAIN u

Idle == [step |-> "idle"]
Closed == [step |-> "closed"]
NextHeader == [step |-> "header"]
Quit == [step |-> "quit"]

Nothing == [k \in {} |-> <<>>]

Init ==
  /\ client = Closed
  /\ cur = 0 /\ link = FALSE
  /\ up = [c \in Conns |-> <<>>] /\ down = <<>>
  /\ server = [c \in Conns |-> Quit]
  /\ pages = Nothing /\ saved = Nothing
  /\ short = FALSE /\ broken = FALSE

With(f, x, y) == [z \in DOMAIN f \cup {x} |-> IF z = x THEN y ELSE f[z]]

Without(f, x) == Restrict(f, DOMAIN f \ {x})

-----------------------------------------------------------------------------
(* storage.c and socket.c.  The module's semaphore lets one call in at a   *)
(* time; the close handler alone may come in between.                      *)

\* socket_send blocks when the window is full.  What is sent after the server
\* has closed the connection is lost.
socket_send(units) ==
  IF link
  THEN /\ Len(up[cur]) + Len(units) <= MaxUp
       /\ up' = [up EXCEPT ![cur] = @ \o units]
  ELSE UNCHANGED up

\* network_init: the server has a thread for each connection.
network_init ==
  /\ client = Closed /\ cur < MaxConns
  /\ cur > 0 /\ up[cur] # <<>> => Overlap
  /\ cur' = cur + 1 /\ link' = TRUE /\ down' = <<>>
  /\ client' = Idle
  /\ server' = [server EXCEPT ![cur'] = NextHeader]
  /\ short' = FALSE
  /\ UNCHANGED <<up, pages, saved, broken>>

\* network_save sends a header, then the page.
SaveHeader(k, v) ==
  /\ client = Idle
  /\ socket_send(<<[cmd |-> "PUT", key |-> k]>>)
  /\ client' = [step |-> "page", key |-> k, value |-> v]
  /\ UNCHANGED <<cur, link, down, server, pages, saved, history>>

\* On a broken connection the save may fail or not; the page is lost.
SavePage ==
  /\ client.step = "page" /\ client' = Idle
  /\ socket_send(Page(client.value))
  /\ saved' = IF link THEN With(saved, client.key, client.value) ELSE saved
  /\ UNCHANGED <<cur, link, down, server, pages, history>>

\* The callers remove and load stored pages only (generic_malloc.c:102, 244).
\* At the end of a process the close handler does not wait for the call of
\* another one.
network_remove(k) ==
  /\ client # Closed /\ link /\ k \in DOMAIN saved
  /\ client.step = "page" => Unlocked
  /\ client # Idle => k[1] # client.key[1]
  /\ socket_send(<<[cmd |-> "RM", key |-> k]>>)
  /\ saved' = Without(saved, k)
  /\ UNCHANGED <<client, cur, link, down, server, pages, history>>

\* network_load sends a header and waits for the page.
LoadHeader(k) ==
  /\ client = Idle /\ k \in DOMAIN saved
  /\ socket_send(<<[cmd |-> "GET", key |-> k]>>)
  /\ client' = [step |-> "recv", key |-> k]
  /\ UNCHANGED <<cur, link, down, server, pages, saved, history>>

\* socket_recv asks for a page and takes what is there, a unit at least, or
\* returns with nothing when the connection is closed.
socket_recv ==
  /\ client.step = "recv" /\ client' = Idle
  /\ \E n \in 0..PageUnits :
       /\ n <= Len(down) /\ (n = 0 => ~link /\ down = <<>>)
       /\ down' = SubSeq(down, n + 1, Len(down))
       /\ short' = (short \/ n \in 1..(PageUnits - 1))
  /\ UNCHANGED <<cur, link, up, server, pages, saved, broken>>

\* The module is removed; it closes the connection and forgets what it stored.
network_release ==
  /\ client = Idle
  /\ socket_send(<<[cmd |-> "RELEASE"]>>)
  /\ client' = Closed
  /\ saved' = Nothing
  /\ UNCHANGED <<cur, link, down, server, pages, history>>

-----------------------------------------------------------------------------
(* server.py                                                               *)

\* Mutant: the first page stays.
Put_first(k, data) == IF k \in DOMAIN pages THEN pages ELSE With(pages, k, data)

Put(k, data) == With(pages, k, data)

\* Mutant: the address alone is looked up.
Get_address(k) ==
  IF \E j \in DOMAIN pages : j[2] = k[2] THEN pages[CHOOSE j \in DOMAIN pages : j[2] = k[2]]
  ELSE Page(Zero)

Get(k) == IF k \in DOMAIN pages THEN pages[k] ELSE Page(Zero)

\* handle: what a header commands.
Command(c, h) ==
  \/ /\ h.cmd = "PUT"
     /\ server' = [server EXCEPT ![c] = [step |-> "data", key |-> h.key, data |-> <<>>]]
     /\ UNCHANGED <<down, pages>>
  \/ /\ h.cmd = "GET" /\ c = cur /\ link
     /\ Len(down) + PageUnits <= MaxDown
     /\ down' = down \o Get(h.key)
     /\ UNCHANGED <<server, pages>>
  \/ /\ h.cmd = "GET" /\ ~(c = cur /\ link)
     /\ server' = [server EXCEPT ![c] = Quit]
     /\ UNCHANGED <<down, pages>>
  \/ /\ h.cmd = "RM"
     /\ pages' = Without(pages, h.key)
     /\ UNCHANGED <<down, server>>
  \/ /\ h.cmd = "RELEASE"
     /\ pages' = Nothing
     /\ UNCHANGED <<down, server>>

\* The thread reads a header; an unknown command does nothing.
Handle(c) ==
  /\ server[c].step = "header" /\ up[c] # <<>>
  /\ up' = [up EXCEPT ![c] = Tail(@)]
  /\ IF IsHeader(Head(up[c])) THEN Command(c, Head(up[c])) ELSE UNCHANGED <<down, server, pages>>
  /\ UNCHANGED <<client, cur, link, saved, history>>

\* Mutant: the first packet is taken for the whole page.
Complete_packet(data) == data # <<>>

\* Mutant: it asks for more than a page.
Complete_more(data) == Len(data) > PageUnits

Complete(data) == Len(data) = PageUnits

\* recvall reads on until it has a whole page.
recvall(c) ==
  /\ server[c].step = "data"
  /\ \E n \in 1..(PageUnits - Len(server[c].data)) :
       /\ n <= Len(up[c])
       /\ up' = [up EXCEPT ![c] = SubSeq(@, n + 1, Len(@))]
       /\ LET data == server[c].data \o SubSeq(up[c], 1, n)
          IN  IF Complete(data)
              THEN /\ pages' = Put(server[c].key, data)
                   /\ server' = [server EXCEPT ![c] = NextHeader]
              ELSE server' = [server EXCEPT ![c].data = data] /\ UNCHANGED pages
  /\ UNCHANGED <<client, cur, link, down, saved, history>>

\* Mutant: what was received of a page is stored when the connection ends.
Ended_partial(c) ==
  IF server[c].step = "data" THEN pages' = Put(server[c].key, server[c].data)
  ELSE UNCHANGED pages

\* A page that is not whole is dropped.
Ended(c) == UNCHANGED pages

\* The end of the stream ends the thread, in the middle of a page by an error.
EndOfStream(c) ==
  /\ server[c].step \in {"header", "data"} /\ up[c] = <<>>
  /\ ~(c = cur /\ link /\ client # Closed)
  /\ server' = [server EXCEPT ![c] = Quit]
  /\ Ended(c)
  /\ UNCHANGED <<client, wires, saved, history>>

\* The connection breaks: of what was on its way, a part still arrives.
Break ==
  /\ link /\ client # Closed /\ link' = FALSE
  /\ \E n \in 0..Len(up[cur]) : up' = [up EXCEPT ![cur] = SubSeq(@, 1, n)]
  /\ \E n \in 0..Len(down) : down' = SubSeq(down, 1, n)
  /\ broken' = TRUE
  /\ UNCHANGED <<client, cur, server, pages, saved, short>>

\* The server is killed; its dict was in its memory.
Kill ==
  /\ link /\ link' = FALSE
  /\ pages' = Nothing
  /\ server' = [c \in Conns |-> Quit]
  /\ up' = [c \in Conns |-> <<>>]
  /\ UNCHANGED <<client, cur, down, saved, history>>

Client ==
  \/ network_init
  \/ \E k \in Keys : LoadHeader(k) \/ network_remove(k) \/ \E v \in Values : SaveHeader(k, v)
  \/ SavePage
  \/ socket_recv
  \/ network_release

Server(c) == Handle(c) \/ recvall(c) \/ EndOfStream(c)

Next == Client \/ Break \/ Kill \/ \E c \in Conns : Server(c)

\* The server's threads run, and a call under way goes on when it can.
Fairness ==
  /\ \A c \in Conns : WF_vars(Server(c))
  /\ WF_vars(socket_recv) /\ WF_vars(SavePage)

Spec == Init /\ [][Next]_vars /\ Fairness

-----------------------------------------------------------------------------
(* Properties.                                                             *)

\* Every variable has its type.
TypeOK ==
  /\ client.step \in {"idle", "page", "recv", "closed"}
  /\ cur \in 0..MaxConns /\ link \in BOOLEAN
  /\ up \in [Conns -> Seq(Header \cup Unit)] /\ down \in Seq(Header \cup Unit)
  /\ \A c \in Conns : server[c].step \in {"header", "data", "quit"}
  /\ DOMAIN pages \subseteq Keys
  /\ \A k \in DOMAIN pages : pages[k] \in Seq(Header \cup Unit) /\ Len(pages[k]) = PageUnits
  /\ DOMAIN saved \subseteq Keys /\ Range(saved) \subseteq Values
  /\ short \in BOOLEAN /\ broken \in BOOLEAN

\* A server thread never takes a part of a page for a command, however the
\* stream is cut into packets and wherever it ends (server.py:50-57, 78-81).
Aligned ==
  \A c \in Conns : server[c].step = "header" /\ up[c] # <<>> => IsHeader(Head(up[c]))

\* A server that has read everything holds what was saved, whole, and nothing
\* that was removed or released, unless a connection broke and its RELEASE never
\* came (server.py:78-106).
CaughtUp ==
  /\ link /\ client.step \in {"idle", "recv"}
  /\ server[cur] = NextHeader /\ up[cur] = <<>>
  => /\ \A k \in DOMAIN saved : k \in DOMAIN pages /\ pages[k] = Page(saved[k])
     /\ ~broken => DOMAIN pages = DOMAIN saved

\* As long as every answer was read whole, a load finds the last value saved
\* under its key and no other, whatever the connections before this one left
\* behind (storage.c:56-70).
LoadFresh ==
  [][client.step = "recv" /\ client'.step = "idle" /\ down # <<>> /\ ~short'
       => SubSeq(down, 1, Len(down) - Len(down')) = Page(saved[client.key])]_vars

\* Every load has its answer or its error, if the other end closes the
\* connection at worst (storage.c:65-67, server.py:89-96).
LoadReturns == client.step = "recv" ~> client.step = "idle"
=============================================================================
