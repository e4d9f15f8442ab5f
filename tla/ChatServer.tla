----------------------------- MODULE ChatServer -----------------------------
(***************************************************************************)
(* charming_chatroom/server.c with the socket helpers of utils.c: main     *)
(* accepts connections into the array clients, one detached thread per     *)
(* client reads messages and broadcasts each of them to the whole array    *)
(* under mutex, as a size and a body.  A thread that ends closes its       *)
(* descriptor before it takes the mutex to give its slot back.  Clients,   *)
(* descriptors and signals are the kernel's.                               *)
(***************************************************************************)
EXTENDS Integers, Sequences, FiniteSets, FiniteSetsExt

CONSTANTS
  Conns,        (* the clients that may connect                           *)
  MAX_CLIENTS,
  NULL,
  Senders,      (* the clients that send messages, the others listen      *)
  Quota,        (* how many messages a sender sends                       *)
  MayLeave,     (* the clients that may disconnect                        *)
  MayStall,     (* the clients that may stop reading for a while          *)
  MaySignal     (* may the user send SIGINT?                              *)

ASSUME ChatAssumption ==
  /\ IsFiniteSet(Conns) /\ NULL \notin Conns \cup (Conns \X Nat)
  /\ MAX_CLIENTS \in Nat \ {0} /\ Quota \in Nat
  /\ MayLeave \subseteq Conns /\ Senders \subseteq Conns
  /\ MayStall \subseteq Conns /\ MaySignal \in BOOLEAN

Slots == 0..(MAX_CLIENTS - 1)
Fds == 1..(Cardinality(Conns) + 1)

VARIABLES
  conn,       (* conn[c]: "off", "open" once accept took it, or "gone"     *)
  sent,       (* sent[c]: how many messages c has sent                     *)
  stalled,    (* the clients that do not read and whose buffers are full   *)
  fdtab,      (* fdtab[f]: the connection behind descriptor f, or NULL     *)
  main, client_fd,          (* main: where it is, and its local variable   *)
  endSession, clientsCount, clients, mutex,
  pc, slot,   (* the thread of client c: where it is, and its clientId     *)
  msg, i,     (* ... the message it broadcasts, and its loop index         *)
  out,        (* out[c]: what arrived at client c                          *)
  reset,      (* the connections whose peer answered a write with a reset  *)
  fate,       (* "alive", "killed" by SIGPIPE, "undefined" after clients[-1]*)
  reused      (* history: the connections that got a descriptor whose      *)
              (* number was still in a slot                                *)

vars == <<conn, sent, stalled, fdtab, main, client_fd, endSession, clientsCount,
          clients, mutex, pc, slot, msg, i, out, reset, fate, reused>>
net == <<conn, sent, stalled, fdtab, out, reset, reused>>
thread == <<pc, slot, msg, i>>
server == <<main, client_fd, endSession, clientsCount, clients, mutex, thread, fate>>

(* run_server up to its loop *)
Init ==
  /\ conn = [c \in Conns |-> "off"] /\ sent = [c \in Conns |-> 0]
  /\ fdtab = [f \in Fds |-> NULL] /\ out = [c \in Conns |-> <<>>] /\ reset = {}
  /\ stalled = {} /\ reused = {}
  /\ main = "accept" /\ client_fd = -1
  /\ endSession = 0 /\ clientsCount = 0
  /\ clients = [s \in Slots |-> -1] /\ mutex = NULL
  /\ pc = [c \in Conns |-> "none"] /\ slot = [c \in Conns |-> -1]
  /\ msg = [c \in Conns |-> NULL] /\ i = [c \in Conns |-> 0]
  /\ fate = "alive"

(***************************************************************************)
(* The clients and the user.                                               *)
(***************************************************************************)
Send(c) ==
  /\ conn[c] = "open" /\ c \in Senders /\ sent[c] < Quota
  /\ sent' = [sent EXCEPT ![c] = @ + 1]
  /\ UNCHANGED <<conn, stalled, fdtab, out, reset, reused, server>>

(* A client may leave inside a message; what came of its body is then a     *)
(* message for the server, which takes a short read for a whole one.        *)
Disconnect(c) ==
  /\ c \in MayLeave /\ conn[c] = "open"
  /\ conn' = [conn EXCEPT ![c] = "gone"]
  /\ stalled' = stalled \ {c}
  /\ \/ UNCHANGED sent
     \/ c \in Senders /\ sent[c] < Quota /\ sent' = [sent EXCEPT ![c] = @ + 1]
  /\ UNCHANGED <<fdtab, out, reset, reused, server>>

(* A client stops reading until its buffers are full; it may go on later.   *)
Stall(c) ==
  /\ c \in MayStall /\ conn[c] = "open" /\ c \notin stalled
  /\ stalled' = stalled \cup {c}
  /\ UNCHANGED <<conn, sent, fdtab, out, reset, reused, server>>

Resume(c) ==
  /\ c \in stalled /\ stalled' = stalled \ {c}
  /\ UNCHANGED <<conn, sent, fdtab, out, reset, reused, server>>

(* close_server: the flag.  A main thread blocked in accept is interrupted  *)
(* only if the kernel delivers the signal to it.                            *)
close_server ==
  /\ MaySignal /\ endSession = 0
  /\ endSession' = 1
  /\ \/ /\ main = "accept"
        /\ client_fd' = -1 /\ main' = "admit"
     \/ UNCHANGED <<client_fd, main>>
  /\ UNCHANGED <<net, clientsCount, clients, mutex, thread, fate>>

(***************************************************************************)
(* main                                                                    *)
(***************************************************************************)
(* A client that connects waits in the backlog of listen until accept takes *)
(* it; nothing of it shows before.  The kernel hands out the lowest free    *)
(* descriptor, which a slot may still hold when the thread that closed it   *)
(* has not cleared the slot.                                                *)
FreeFd == Min({f \in Fds : fdtab[f] = NULL})

accept(c) ==
  /\ main = "accept" /\ conn[c] = "off"
  /\ conn' = [conn EXCEPT ![c] = "open"]
  /\ client_fd' = FreeFd
  /\ fdtab' = [fdtab EXCEPT ![FreeFd] = c]
  /\ reused' = IF \E s \in Slots : clients[s] = FreeFd THEN reused \cup {c} ELSE reused
  /\ main' = "admit"
  /\ UNCHANGED <<sent, stalled, endSession, clientsCount, clients, mutex, thread, out,
                 reset, fate>>

(* Mutant: slot 0 always looks free. *)
MutFree == {s \in Slots : s > 0 => clients[s] = -1}
Free == {s \in Slots : clients[s] = -1}
find_free_client == IF Free = {} THEN -1 ELSE Min(Free)

(* The section under mutex and pthread_create.  Room is denied only when    *)
(* more than MAX_CLIENTS are there; with exactly MAX_CLIENTS the new one is *)
(* stored at clients[-1].  An interrupted accept stores -1 in a free slot   *)
(* and starts a thread that only undoes the increment of clientsCount; main *)
(* is about to leave its loop, so the two cancel out.                       *)
admit ==
  /\ main = "admit" /\ mutex = NULL
  /\ IF clientsCount > MAX_CLIENTS
     THEN /\ fdtab' = [fdtab EXCEPT ![client_fd] = NULL]
          /\ main' = "accept"
          /\ UNCHANGED <<clients, clientsCount, pc, slot, fate>>
     ELSE /\ IF find_free_client = -1
             THEN fate' = "undefined" /\ UNCHANGED clients
             ELSE UNCHANGED fate
                  /\ clients' = [clients EXCEPT ![find_free_client] = client_fd]
          /\ clientsCount' = IF client_fd = -1 THEN clientsCount ELSE clientsCount + 1
          /\ IF client_fd = -1 THEN UNCHANGED <<pc, slot>>
             ELSE /\ pc' = [pc EXCEPT ![fdtab[client_fd]] = "loop"]
                  /\ slot' = [slot EXCEPT ![fdtab[client_fd]] = find_free_client]
          /\ main' = "check"
          /\ UNCHANGED fdtab
  /\ UNCHANGED <<conn, sent, stalled, client_fd, endSession, mutex, msg, i, out, reset,
                 reused>>

(* if (endSession == 1) break *)
check ==
  /\ main = "check"
  /\ main' = IF endSession = 1 THEN "cleanup" ELSE "accept"
  /\ UNCHANGED <<net, client_fd, endSession, clientsCount, clients, mutex, thread,
                 fate>>

(* cleanup, without mutex, and pthread_exit: the threads live on. *)
cleanup ==
  /\ main = "cleanup"
  /\ main' = "exited"
  /\ fdtab' = [f \in Fds |-> IF \E s \in Slots : clients[s] = f THEN NULL ELSE fdtab[f]]
  /\ UNCHANGED <<conn, sent, stalled, client_fd, endSession, clientsCount, clients,
                 mutex, thread, out, reset, fate, reused>>

(***************************************************************************)
(* process_client                                                          *)
(***************************************************************************)
Peer(s) == IF clients[s] = -1 THEN NULL ELSE fdtab[clients[s]]

(* How many messages of c its thread has read, and whether there is another. *)
Got(c) == IF msg[c] = NULL THEN 0 ELSE msg[c][2]
Unread(c) == sent[c] > Got(c)

(* while (retval > 0 && endSession == 0) *)
loop(c) ==
  /\ pc[c] = "loop"
  /\ pc' = [pc EXCEPT ![c] = IF endSession = 0 THEN "read" ELSE "close"]
  /\ UNCHANGED <<net, main, client_fd, endSession, clientsCount, clients, mutex,
                 slot, msg, i, fate>>

(* get_message_size and read_all_from_socket: a message, or what came of    *)
(* one before the end of file ...                                           *)
receive(c) ==
  /\ pc[c] = "read"
  /\ Peer(slot[c]) = c /\ Unread(c)
  /\ msg' = [msg EXCEPT ![c] = <<c, Got(c) + 1>>]
  /\ pc' = [pc EXCEPT ![c] = "lock"]
  /\ UNCHANGED <<net, main, client_fd, endSession, clientsCount, clients, mutex,
                 slot, i, fate>>

(* ... or the end of the loop: end of file or an error. *)
finish(c) ==
  /\ pc[c] = "read"
  /\ Peer(slot[c]) # c \/ (conn[c] = "gone" /\ ~Unread(c))
  /\ pc' = [pc EXCEPT ![c] = "close"]
  /\ UNCHANGED <<net, main, client_fd, endSession, clientsCount, clients, mutex,
                 slot, msg, i, fate>>

(* Mutant: the broadcast does not take the mutex. *)
MutLock(c) ==
  /\ pc[c] = "lock"
  /\ i' = [i EXCEPT ![c] = 0]
  /\ pc' = [pc EXCEPT ![c] = "size"]
  /\ UNCHANGED <<net, main, client_fd, endSession, clientsCount, clients, mutex,
                 slot, msg, fate>>

(* write_to_clients *)
lock(c) ==
  /\ pc[c] = "lock" /\ mutex = NULL
  /\ mutex' = c
  /\ i' = [i EXCEPT ![c] = 0]
  /\ pc' = [pc EXCEPT ![c] = "size"]
  /\ UNCHANGED <<net, main, client_fd, endSession, clientsCount, clients, slot, msg,
                 fate>>

(* write(2) to descriptor f: nothing (error), a delivery, which waits for a *)
(* client that does not read, or, when the peer is gone, a reset the first  *)
(* time and SIGPIPE the next.                                               *)
Written(f) == f # -1 /\ fdtab[f] # NULL
write(f, part) ==
  CASE ~Written(f) -> UNCHANGED <<out, reset, fate>>
    [] Written(f) /\ conn[fdtab[f]] # "gone" ->
         /\ fdtab[f] \notin stalled
         /\ out' = [out EXCEPT ![fdtab[f]] = Append(@, part)]
         /\ UNCHANGED <<reset, fate>>
    [] OTHER ->
         /\ reset' = reset \cup {fdtab[f]}
         /\ fate' = IF fdtab[f] \in reset THEN "killed" ELSE fate
         /\ UNCHANGED out

(* write_message_size to clients[i]; a failed one skips the body. *)
write_size(c) ==
  /\ pc[c] = "size" /\ i[c] \in Slots
  /\ write(clients[i[c]], <<"size", msg[c]>>)
  /\ IF Written(clients[i[c]])
     THEN pc' = [pc EXCEPT ![c] = "body"] /\ UNCHANGED i
     ELSE i' = [i EXCEPT ![c] = @ + 1] /\ UNCHANGED pc
  /\ UNCHANGED <<conn, sent, stalled, fdtab, main, client_fd, endSession,
                 clientsCount, clients, mutex, slot, msg, reused>>

write_body(c) ==
  /\ pc[c] = "body"
  /\ write(clients[i[c]], <<"body", msg[c]>>)
  /\ i' = [i EXCEPT ![c] = @ + 1]
  /\ pc' = [pc EXCEPT ![c] = "size"]
  /\ UNCHANGED <<conn, sent, stalled, fdtab, main, client_fd, endSession,
                 clientsCount, clients, mutex, slot, msg, reused>>

(* Mutant: the mutex stays locked. *)
MutUnlock(c) ==
  /\ pc[c] = "size" /\ i[c] \notin Slots
  /\ pc' = [pc EXCEPT ![c] = "loop"]
  /\ UNCHANGED <<net, main, client_fd, endSession, clientsCount, clients, mutex,
                 slot, msg, i, fate>>

unlock(c) ==
  /\ pc[c] = "size" /\ i[c] \notin Slots
  /\ mutex' = NULL
  /\ pc' = [pc EXCEPT ![c] = "loop"]
  /\ UNCHANGED <<net, main, client_fd, endSession, clientsCount, clients, slot, msg,
                 i, fate>>

(* close(clients[clientId]), before the mutex *)
close(c) ==
  /\ pc[c] = "close"
  /\ fdtab' = IF clients[slot[c]] = -1 THEN fdtab
              ELSE [fdtab EXCEPT ![clients[slot[c]]] = NULL]
  /\ pc' = [pc EXCEPT ![c] = "release"]
  /\ UNCHANGED <<conn, sent, stalled, main, client_fd, endSession, clientsCount,
                 clients, mutex, slot, msg, i, out, reset, fate, reused>>

(* the slot and the counter, under mutex *)
release(c) ==
  /\ pc[c] = "release" /\ mutex = NULL
  /\ clients' = [clients EXCEPT ![slot[c]] = -1]
  /\ clientsCount' = clientsCount - 1
  /\ pc' = [pc EXCEPT ![c] = "done"]
  /\ UNCHANGED <<net, main, client_fd, endSession, mutex, slot, msg, i, fate>>

(***************************************************************************)
(* The specification.                                                      *)
(***************************************************************************)
Main == (\E c \in Conns : accept(c)) \/ admit \/ check \/ cleanup
Thread(c) ==
  \/ loop(c) \/ receive(c) \/ finish(c) \/ lock(c) \/ write_size(c) \/ write_body(c)
  \/ unlock(c) \/ close(c) \/ release(c)

Next ==
  /\ fate = "alive"
  /\ \/ \E c \in Conns : \/ Send(c) \/ Disconnect(c)
                        \/ Stall(c) \/ Resume(c) \/ Thread(c)
     \/ close_server
     \/ Main

Spec == Init /\ [][Next]_vars

(* The kernel schedules main and every thread and lets a thread that keeps  *)
(* asking for mutex have it, or write when its client reads again and       *)
(* again.  Nothing makes clients connect, send or read.                     *)
FairSpec ==
  /\ Spec
  /\ WF_vars(fate = "alive" /\ (check \/ cleanup)) /\ SF_vars(fate = "alive" /\ admit)
  /\ \A c \in Conns : SF_vars(fate = "alive" /\ Thread(c))

(***************************************************************************)
(* Properties.                                                             *)
(***************************************************************************)
Whole(c) ==
  \A k \in 1..Len(out[c]) :
    IF k % 2 = 1 THEN out[c][k][1] = "size"
    ELSE out[c][k] = <<"body", out[c][k - 1][2]>>

(* What a client receives is a sequence of whole messages, each size        *)
(* followed by its body, although several threads broadcast, clients join   *)
(* and leave in the middle, and descriptors change hands: all but a client  *)
(* whose own descriptor had a number that a slot still held                 *)
(* (server.c:172-186,216-221).                                              *)
FramesWhole == \A c \in Conns \ reused : Whole(c)

(* What the comment of write_to_clients says, "Broadcasts the message to    *)
(* all connected clients", holds of every client, whatever the number of    *)
(* its descriptor (server.c:167,216).                                       *)
BroadcastWhole == \A c \in Conns : Whole(c)

(* No client is sent a message twice (c = d), and two clients that both     *)
(* receive two messages receive them in one order; with the same exception  *)
(* (server.c:173-185).                                                      *)
SameOrder ==
  \A c, d \in Conns \ reused : \A j, k \in 1..Len(out[c]) : \A l, n \in 1..Len(out[d]) :
    out[c][j] = out[d][l] /\ out[c][k] = out[d][n] /\ j < k => l < n

(* Until SIGINT a thread that has not closed its connection finds it in its *)
(* slot, and no thread shares its slot; of two slots that hold one          *)
(* descriptor one is about to be cleared, by the thread that closed it; and *)
(* clientsCount counts the slots in use (server.c:61-71,152-154,216-221).   *)
SlotsAgree ==
  endSession = 0 /\ fate # "undefined" =>
    /\ \A c \in Conns : pc[c] \in {"loop", "read", "lock", "size", "body", "close"} =>
         Peer(slot[c]) = c
    /\ \A s, r \in Slots : clients[s] = clients[r] /\ clients[s] # -1 /\ s # r =>
         \E c \in Conns : pc[c] = "release" /\ slot[c] \in {s, r}
    /\ \A b, c \in Conns : slot[b] = slot[c] /\ b # c =>
         pc[b] \in {"none", "done"} \/ pc[c] \in {"none", "done"}
    /\ clientsCount = Cardinality({s \in Slots : clients[s] # -1})

(* run_server serves at most MAX_CLIENTS clients at a time, as its comment  *)
(* says: a client beyond them is not given a thread or a place in clients   *)
(* (server.c:75,144).                                                       *)
LimitKept ==
  Cardinality({c \in Conns : pc[c] \notin {"none", "done"}}) <= MAX_CLIENTS

(* A message that was read is broadcast to the end, unless the server is    *)
(* killed: as long as no client stops reading for good, no thread waits for *)
(* ever, for mutex or in a write, whoever leaves and however main stops     *)
(* (server.c:173-185).                                                      *)
EveryMessageBroadcast ==
  (\A d \in MayStall : []<>(d \notin stalled)) =>
    \A c \in Senders : (pc[c] = "lock") ~> (pc[c] = "loop" \/ fate # "alive")
=============================================================================
