----------------------------- MODULE EventRelay ------------------------------
(***************************************************************************)
(* How an event reaches the WebSocket clients: ws_forwarder of             *)
(* kernel/main.py, which the event bus (event_bus.py) runs once for every  *)
(* event, and the endpoint (routers/ws.py).  All of them run on one loop   *)
(* and share the list ws_connections; a forwarder goes through that list,  *)
(* not through a copy, and yields to the others at every send.             *)
(***************************************************************************)
EXTENDS Integers, Sequences, Functions

CONSTANTS
  Clients,      \* connections; one that is gone does not come back
  Events

VARIABLES
  clients,      \* ws_connections
  state,        \* state[c]: "new", "up", "dead" (nobody has noticed) or "gone"
  pc,           \* pc[e]: "new", "next", "sending", "removing" or "done"
  at,           \* at[e]: the index of the loop over ws_connections
  to,           \* to[e]: the client it is sending to
  disconnected, \* disconnected[e]: the clients a send to which failed
  got,          \* got[c]: the events a client has received, in order
  present,      \* history: present[e], the clients that have been up since e began
  shifted       \* history: events during whose loop someone else left the list

vars == <<clients, state, pc, at, to, disconnected, got, present, shifted>>

Init ==
  /\ clients = <<>> /\ state = [c \in Clients |-> "new"]
  /\ pc = [e \in Events |-> "new"] /\ at = [e \in Events |-> 0]
  /\ to = [e \in Events |-> 0]
  /\ disconnected = [e \in Events |-> <<>>] /\ got = [c \in Clients |-> <<>>]
  /\ present = [e \in Events |-> {}] /\ shifted = {}

Looping == {e \in Events : pc[e] \in {"next", "sending"}}

\* What stays in the list moves up, in its order.
Stay(positions) ==
  \E n \in 0..Len(clients) : \E k \in Surjection(1..n, positions) :
    /\ \A i, j \in 1..n : i < j => k[i] < k[j]
    /\ clients' = [i \in 1..n |-> clients[k[i]]]

\* list.remove: the first entry goes.
remove(c) ==
  \E p \in DOMAIN clients :
    clients[p] = c /\ (\A q \in 1..(p - 1) : clients[q] # c) /\ Stay(DOMAIN clients \ {p})

\* websocket_endpoint: accept and append.
connect(c) ==
  /\ state[c] = "new"
  /\ state' = [state EXCEPT ![c] = "up"] /\ clients' = Append(clients, c)
  /\ UNCHANGED <<pc, at, to, disconnected, got, present, shifted>>

\* The client goes; a send fails from now on.
die(c) ==
  /\ state[c] = "up" /\ state' = [state EXCEPT ![c] = "dead"]
  /\ present' = [e \in Events |-> present[e] \ {c}]
  /\ UNCHANGED <<clients, pc, at, to, disconnected, got, shifted>>

\* WebSocketDisconnect: the endpoint takes its client from the list, from which
\* a forwarder may have taken it (then remove raises, and nobody minds).
disconnect(c) ==
  /\ state[c] = "dead" /\ state' = [state EXCEPT ![c] = "gone"]
  /\ IF c \in Range(clients) THEN remove(c) /\ shifted' = shifted \cup Looping
     ELSE UNCHANGED <<clients, shifted>>
  /\ UNCHANGED <<pc, at, to, disconnected, got, present>>

\* EventBus.publish starts the forwarder, unless a client sent the event.
publish(e) ==
  /\ pc[e] = "new" /\ pc' = [pc EXCEPT ![e] = "next"]
  /\ present' = [present EXCEPT ![e] = {c \in Clients : state[c] = "up"}]
  /\ UNCHANGED <<clients, state, at, to, disconnected, got, shifted>>

\* The loop takes the entry at its index, whatever the list has become.
next_client(e) ==
  /\ pc[e] = "next"
  /\ IF at[e] < Len(clients)
     THEN /\ to' = [to EXCEPT ![e] = clients[at[e] + 1]] /\ at' = [at EXCEPT ![e] = @ + 1]
          /\ pc' = [pc EXCEPT ![e] = "sending"]
     ELSE pc' = [pc EXCEPT ![e] = "removing"] /\ UNCHANGED <<to, at>>
  /\ UNCHANGED <<clients, state, disconnected, got, present, shifted>>

\* Mutant: a client that is gone is taken from the list at once.
send_removing(e) ==
  /\ pc[e] = "sending" /\ pc' = [pc EXCEPT ![e] = "next"]
  /\ IF state[to[e]] = "up"
     THEN got' = [got EXCEPT ![to[e]] = Append(@, e)] /\ UNCHANGED clients
     ELSE remove(to[e]) /\ UNCHANGED got
  /\ UNCHANGED <<state, at, to, disconnected, present, shifted>>

\* await ws.send_text: delivered, or the client is put on the forwarder's list.
send_text(e) ==
  /\ pc[e] = "sending" /\ pc' = [pc EXCEPT ![e] = "next"]
  /\ IF state[to[e]] = "up"
     THEN got' = [got EXCEPT ![to[e]] = Append(@, e)] /\ UNCHANGED disconnected
     ELSE disconnected' = [disconnected EXCEPT ![e] = Append(@, to[e])] /\ UNCHANGED got
  /\ UNCHANGED <<clients, state, at, to, present, shifted>>

\* The removals, in one go; the first that is no longer there raises, and the
\* others stay for the next event.
remove_disconnected(e) ==
  /\ pc[e] = "removing" /\ pc' = [pc EXCEPT ![e] = "done"]
  /\ \E n \in 0..Len(disconnected[e]) :
       LET there(i) == disconnected[e][i] \in Range(clients)
           leaving == {disconnected[e][i] : i \in 1..n} IN
       /\ \A i \in 1..n : there(i)
       /\ n < Len(disconnected[e]) => ~there(n + 1)
       /\ IF leaving = {} THEN UNCHANGED <<clients, shifted>>
          ELSE /\ Stay({p \in DOMAIN clients : clients[p] \notin leaving})
               /\ shifted' = shifted \cup (Looping \ {e})
  /\ UNCHANGED <<state, at, to, disconnected, got, present>>

Next ==
  \/ \E c \in Clients : connect(c) \/ die(c) \/ disconnect(c)
  \/ \E e \in Events : publish(e) \/ next_client(e) \/ send_text(e) \/ remove_disconnected(e)

Spec == Init /\ [][Next]_vars

-----------------------------------------------------------------------------
\* A client that was connected all the while gets an event once; it is passed
\* over only if somebody else left the list in the middle of the loop.
HeardUnlessShifted ==
  /\ \A c \in Clients : IsInjective(got[c])
  /\ \A e \in Events, c \in Clients :
       pc[e] = "done" /\ c \in present[e] /\ e \notin shifted => e \in Range(got[c])
=============================================================================
