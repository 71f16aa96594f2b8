------------------------------ MODULE BenchLive ------------------------------
(***************************************************************************)
(* The asynchronous benchmark (bench-live): worker threads take clients    *)
(* from a queue and carry each through DISCOVER and REQUEST; a receive     *)
(* manager thread finds the client of a reply by its xid and puts the      *)
(* reply into the client's mailbox.  They are composed with the NPRC       *)
(* server, whose actions they take.  The link to the server keeps order    *)
(* and may lose frames; how long a frame is under way is put on the reply, *)
(* so a frame that is not lost is served as it is sent.  Replies may       *)
(* overtake one another, and one that stays under way for ever is lost.    *)
(*                                                                         *)
(* A client stands for its hardware address.  Its xid is drawn at random   *)
(* by main, and nothing keeps two clients from drawing the same one.  The  *)
(* benchmark lasts seconds, so the server's clock does not move.           *)
(***************************************************************************)
EXTENDS NprcPool, Sequences, FiniteSets

CONSTANTS
  Workers,
  Clients,          \* the clients in the order main pushes them
  Xids, NoXid,      \* what rand() returns
  Draws,            \* the ways in which the clients may have drawn their xids
  MAX_RETRIES,
  Backlog           \* bound: replies under way at a time

ASSUME BenchAssumption ==
  /\ Clients \in Seq(Macs)
  /\ Len(Clients) = Cardinality(Macs)
  /\ \A i, j \in 1 .. Len(Clients) : Clients[i] = Clients[j] => i = j
  /\ NoXid \notin Xids
  /\ Draws \subseteq [Macs -> Xids]
  /\ MAX_RETRIES \in Nat \ {0}
  /\ Backlog \in Nat

VARIABLES
  queue,       \* the client queue
  xid,         \* for each client: its xid
  xid_tab,     \* the xid table: the client entered under an xid, or NoMac
  pc, cur,     \* for each worker: where it is, and the client it works on
  built,       \* for each worker: bmeta, the frame it sends and sends again
  client,      \* for each client: state, retries and assigned_ip
  mb,          \* for each client: the frame in its mailbox
  hand,        \* the frame the receive manager has found a client for, and recv_c
  toClients    \* the replies under way

benchVars == <<queue, xid, xid_tab, pc, cur, built, client, mb, hand, toClients, vars>>

-----------------------------------------------------------------------------
Frame(type, x, c, ip) == [type |-> type, xid |-> x, mac |-> c, ip |-> ip]

NoFrame == Frame("NONE", NoXid, NoMac, 0)

NoHand == [frame |-> NoFrame, to |-> NoMac]

BenchInit ==
  /\ queue = Clients
  /\ xid \in Draws
  /\ xid_tab = [x \in Xids |-> NoMac]
  /\ pc = [w \in Workers |-> "pop"]
  /\ cur = [w \in Workers |-> NoMac]
  /\ built = [w \in Workers |-> NoFrame]
  /\ client = [c \in Macs |-> [state |-> "NEW", retries |-> 0, assigned_ip |-> 0]]
  /\ mb = [c \in Macs |-> NoFrame]
  /\ hand = NoHand
  /\ toClients = {}
  /\ Init

\* The xid table, each call under its lock.  An entry under the same xid is replaced.
xid_tab_insert(c) == xid_tab' = [xid_tab EXCEPT ![xid[c]] = c]

xid_tab_lookup(x) == xid_tab[x]

xid_tab_remove(x) == xid_tab' = [xid_tab EXCEPT ![x] = NoMac]

\* What the receive manager reads of a frame, and what the worker of client c makes of it:
\* the hardware address in it is not looked at.
parse_xid(f) == f.xid

parse_frame(f, c) == IF f.xid = xid[c] THEN f ELSE Frame("UNKNOWN", xid[c], c, 0)

Goto(w, place) == pc' = [pc EXCEPT ![w] = place]

\* The server handles a frame.  Equal replies under way are not told apart.
Serve(f) ==
  /\ \/ f.type = "DISCOVER" /\ Discover(f.mac)
     \/ f.type = "REQUEST" /\ Request(f.mac, f.ip)
  /\ Cardinality(toClients) < Backlog
  /\ toClients' = IF resp' = NoReply THEN toClients
                  ELSE toClients \cup {Frame(resp'.type, f.xid, resp'.mac, resp'.ip)}

Send(w, f) ==
  /\ built' = [built EXCEPT ![w] = f]
  /\ Serve(f) \/ UNCHANGED <<toClients, vars>>

SendNothing == UNCHANGED <<built, toClients, vars>>

-----------------------------------------------------------------------------
(***************************************************************************)
(* The worker threads.                                                     *)
(***************************************************************************)
\* pop_client under the queue's lock; without a client the thread returns.
Pop(w) ==
  /\ pc[w] = "pop"
  /\ IF queue = <<>> THEN Goto(w, "exit") /\ UNCHANGED <<queue, cur>>
     ELSE /\ queue' = Tail(queue)
          /\ cur' = [cur EXCEPT ![w] = Head(queue)]
          /\ Goto(w, "register")
  /\ UNCHANGED <<xid, xid_tab, built, client, mb, hand, toClients, vars>>

\* The mailbox is emptied without its lock, then the client is entered in the table.
Register(w) ==
  /\ pc[w] = "register"
  /\ mb' = [mb EXCEPT ![cur[w]] = NoFrame]
  /\ xid_tab_insert(cur[w])
  /\ Goto(w, "discover")
  /\ UNCHANGED <<queue, xid, cur, built, client, hand, toClients, vars>>

\* The first DISCOVER; when sendto fails the client is left as it is.
SendDiscover(w) ==
  /\ pc[w] = "discover"
  /\ \/ /\ Send(w, Frame("DISCOVER", xid[cur[w]], cur[w], 0))
        /\ client' = [client EXCEPT ![cur[w]].state = "DISCOVER"]
        /\ Goto(w, "check")
     \/ /\ Goto(w, "out")
        /\ SendNothing
        /\ UNCHANGED client
  /\ UNCHANGED <<queue, xid, xid_tab, cur, mb, hand>>

\* With the mailbox's lock held: wait while the mailbox is empty.
Wait(w) ==
  /\ pc[w] = "check"
  /\ mb[cur[w]] = NoFrame
  /\ Goto(w, "waiting")
  /\ UNCHANGED <<queue, xid, xid_tab, cur, built, client, mb, hand, toClients, vars>>

\* The condition variable is signalled; a wake-up without a frame waits again.
Wake(w) ==
  /\ pc[w] = "waiting"
  /\ mb[cur[w]] # NoFrame
  /\ Goto(w, "check")
  /\ UNCHANGED <<queue, xid, xid_tab, cur, built, client, mb, hand, toClients, vars>>

\* Mutant: the retransmission is not counted.
TimeoutUncounted(w) ==
  /\ pc[w] = "waiting"
  /\ Send(w, built[w])
  /\ Goto(w, "check")
  /\ UNCHANGED <<queue, xid, xid_tab, cur, client, mb, hand>>

\* Mutant: the client gives up one timeout too late.
TimeoutLate(w) ==
  LET c == cur[w] IN
  /\ pc[w] = "waiting"
  /\ \/ /\ client[c].retries + 1 > MAX_RETRIES
        /\ client' = [client EXCEPT ![c].retries = @ + 1, ![c].state = "FAILED"]
        /\ Goto(w, "out")
        /\ SendNothing
     \/ /\ client[c].retries + 1 <= MAX_RETRIES
        /\ client' = [client EXCEPT ![c].retries = @ + 1]
        /\ Send(w, built[w])
        /\ Goto(w, "check")
  /\ UNCHANGED <<queue, xid, xid_tab, cur, mb, hand>>

\* pthread_cond_timedwait reports the timeout even if a frame has just arrived.
\* A retransmission that sendto cannot send is a frame lost.
Timeout(w) ==
  LET c == cur[w] IN
  /\ pc[w] = "waiting"
  /\ \/ /\ client[c].retries + 1 >= MAX_RETRIES
        /\ client' = [client EXCEPT ![c].retries = @ + 1, ![c].state = "FAILED"]
        /\ Goto(w, "out")
        /\ SendNothing
     \/ /\ client[c].retries + 1 < MAX_RETRIES
        /\ client' = [client EXCEPT ![c].retries = @ + 1]
        /\ Send(w, built[w])
        /\ Goto(w, "check")
  /\ UNCHANGED <<queue, xid, xid_tab, cur, mb, hand>>

\* The frame is taken out of the mailbox under its lock and handled.
Take(w) ==
  /\ pc[w] = "check"
  /\ mb[cur[w]] # NoFrame
  /\ mb' = [mb EXCEPT ![cur[w]] = NoFrame]
  /\ UNCHANGED <<queue, xid, xid_tab, cur, hand>>

\* An OFFER in state DISCOVER is answered by a REQUEST; sendto may fail here too.
TakeOffer(w) ==
  LET c == cur[w]
      f == parse_frame(mb[c], c) IN
  /\ Take(w)
  /\ f.type = "OFFER"
  /\ client[c].state = "DISCOVER"
  /\ \/ /\ Send(w, Frame("REQUEST", xid[c], c, f.ip))
        /\ client' = [client EXCEPT ![c].state = "REQUEST", ![c].retries = 0]
        /\ UNCHANGED pc
     \/ /\ Goto(w, "out")
        /\ SendNothing
        /\ UNCHANGED client

\* Mutant: any reply that carries an address completes the request.
TakeAckAny(w) ==
  LET c == cur[w]
      f == parse_frame(mb[c], c) IN
  /\ Take(w)
  /\ f.type \in {"ACK", "OFFER"}
  /\ client[c].state = "REQUEST"
  /\ client' = [client EXCEPT ![c].state = "DONE", ![c].assigned_ip = f.ip]
  /\ Goto(w, "out")
  /\ SendNothing

TakeAck(w) ==
  LET c == cur[w]
      f == parse_frame(mb[c], c) IN
  /\ Take(w)
  /\ f.type = "ACK"
  /\ client[c].state = "REQUEST"
  /\ client' = [client EXCEPT ![c].state = "DONE", ![c].assigned_ip = f.ip]
  /\ Goto(w, "out")
  /\ SendNothing

\* A NAK fails the client in any state.
TakeNak(w) ==
  /\ Take(w)
  /\ parse_frame(mb[cur[w]], cur[w]).type = "NAK"
  /\ client' = [client EXCEPT ![cur[w]].state = "FAILED"]
  /\ Goto(w, "out")
  /\ SendNothing

\* A frame that does not fit the state is ignored, and the worker waits anew.
TakeOther(w) ==
  LET type == parse_frame(mb[cur[w]], cur[w]).type IN
  /\ Take(w)
  /\ type # "NAK"
  /\ <<type, client[cur[w]].state>> \notin {<<"OFFER", "DISCOVER">>, <<"ACK", "REQUEST">>}
  /\ SendNothing
  /\ UNCHANGED <<pc, client>>

\* Mutant: the client stays in the table.
FinishKept(w) ==
  /\ pc[w] = "out"
  /\ cur' = [cur EXCEPT ![w] = NoMac]
  /\ built' = [built EXCEPT ![w] = NoFrame]
  /\ Goto(w, "pop")
  /\ UNCHANGED <<queue, xid, xid_tab, client, mb, hand, toClients, vars>>

Finish(w) ==
  /\ pc[w] = "out"
  /\ xid_tab_remove(xid[cur[w]])
  /\ cur' = [cur EXCEPT ![w] = NoMac]
  /\ built' = [built EXCEPT ![w] = NoFrame]
  /\ Goto(w, "pop")
  /\ UNCHANGED <<queue, xid, client, mb, hand, toClients, vars>>

Worker(w) ==
  \/ Pop(w) \/ Register(w) \/ SendDiscover(w)
  \/ Wait(w) \/ Wake(w) \/ Timeout(w)
  \/ TakeOffer(w) \/ TakeAck(w) \/ TakeNak(w) \/ TakeOther(w)
  \/ Finish(w)

-----------------------------------------------------------------------------
(***************************************************************************)
(* The receive manager: it looks the xid up under the table's lock and     *)
(* delivers under the mailbox's lock, so the client may be finished in     *)
(* between.  A frame in the mailbox is overwritten.                        *)
(***************************************************************************)
Lookup(f) ==
  LET recv_c == xid_tab_lookup(parse_xid(f)) IN
  /\ hand = NoHand
  /\ hand' = IF recv_c = NoMac THEN NoHand ELSE [frame |-> f, to |-> recv_c]
  /\ toClients' = toClients \ {f}
  /\ UNCHANGED <<queue, xid, xid_tab, pc, cur, built, client, mb, vars>>

Deliver ==
  /\ hand # NoHand
  /\ mb' = [mb EXCEPT ![hand.to] = hand.frame]
  /\ hand' = NoHand
  /\ UNCHANGED <<queue, xid, xid_tab, pc, cur, built, client, toClients, vars>>

BenchNext ==
  \/ \E w \in Workers : Worker(w)
  \/ \E f \in toClients : Lookup(f)
  \/ Deliver

(***************************************************************************)
(* The threads are scheduled and pthread_cond_timedwait returns in the     *)
(* end, so every worker keeps taking steps.  Nothing is assumed of the     *)
(* network, the server or the receive manager.                             *)
(***************************************************************************)
BenchSpec == BenchInit /\ [][BenchNext]_benchVars /\ \A w \in Workers : WF_benchVars(Worker(w))

-----------------------------------------------------------------------------
Frames == [type : {"DISCOVER", "REQUEST", "OFFER", "ACK", "NAK"}, xid : Xids, mac : Macs,
           ip : (PoolStart .. PoolEnd) \cup {0}]

BenchTypeOK ==
  /\ queue \in Seq(Macs)
  /\ xid \in [Macs -> Xids]
  /\ xid_tab \in [Xids -> Macs \cup {NoMac}]
  /\ pc \in [Workers -> {"pop", "register", "discover", "check", "waiting", "out", "exit"}]
  /\ cur \in [Workers -> Macs \cup {NoMac}]
  /\ built \in [Workers -> Frames \cup {NoFrame}]
  /\ client \in [Macs -> [state : {"NEW", "DISCOVER", "REQUEST", "DONE", "FAILED"},
                          retries : 0 .. MAX_RETRIES,
                          assigned_ip : (PoolStart .. PoolEnd) \cup {0}]]
  /\ mb \in [Macs -> Frames \cup {NoFrame}]
  /\ hand \in [frame : Frames, to : Macs] \cup {NoHand}
  /\ toClients \subseteq Frames
  /\ TypeOK

\* No other client has drawn the xid of c.
OwnXid(c) == \A d \in Macs : xid[d] = xid[c] => d = c

(***************************************************************************)
(* A client with an xid of its own that is counted as passed was given the *)
(* address it records, and no other client was, although frames are lost,  *)
(* sent again, reordered and overwritten in the mailbox, and other clients *)
(* may share an xid (the DHCP_ACK case of worker_thread).                  *)
(***************************************************************************)
PassedIsServed ==
  \A c \in Macs : client[c].state = "DONE" /\ OwnXid(c) =>
    {m \in Macs : Live(m, client[c].assigned_ip)} = {c}

\* The clients the workers have entered in the table and not removed yet.
Active == {cur[w] : w \in {v \in Workers : pc[v] \in {"discover", "check", "waiting", "out"}}}

(***************************************************************************)
(* Each client is waiting in the queue, with one worker, or through with.  *)
(* The table finds no client that no worker is on, also where two clients  *)
(* share an xid, replace each other's entry and remove it; a client with   *)
(* an xid of its own is found as long as a worker is on it                 *)
(* (xid_tab_insert, xid_tab_remove on every path to out).                  *)
(***************************************************************************)
TableExact ==
  /\ \A x \in Xids : xid_tab[x] # NoMac => xid_tab[x] \in Active /\ xid[xid_tab[x]] = x
  /\ \A c \in Active : OwnXid(c) => xid_tab[xid[c]] = c
  /\ \A v, w \in Workers : cur[v] = cur[w] /\ cur[v] # NoMac => v = w
  /\ \A w \in Workers, i \in 1 .. Len(queue) : cur[w] # queue[i]

(***************************************************************************)
(* The benchmark ends whatever is lost, and if clients share an xid and    *)
(* take each other's replies: every worker comes to find the queue empty   *)
(* and returns, and main's joins succeed.                                  *)
(***************************************************************************)
Terminates == <>(\A w \in Workers : pc[w] = "exit")
=============================================================================
