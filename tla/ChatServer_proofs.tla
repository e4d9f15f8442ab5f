------------------------- MODULE ChatServer_proofs -------------------------
(***************************************************************************)
(* Theorems about the chat server of charming_chatroom for any number of   *)
(* clients, messages and slots, whenever clients join, leave and stop      *)
(* reading.  A client that gets the descriptor of a connection closed in   *)
(* the middle of a broadcast can receive the rest of it: what is proved of *)
(* arriving messages is about the others, the plain ones.                  *)
(***************************************************************************)
EXTENDS ChatServer, SequenceLemmas, FiniteSetTheorems, TLAPS

Messages == Conns \X Nat
Parts == {"size", "body"} \X Messages

(* A thread that has a slot; one that has not closed its connection; one    *)
(* inside write_to_clients.                                                 *)
Active(c) == pc[c] \in {"loop", "read", "lock", "size", "body", "close", "release"}
Serving(c) == Active(c) /\ pc[c] # "release"
Broadcasts(c) == pc[c] \in {"size", "body"}
Used == {s \in Slots : clients[s] # -1}
Plain == Conns \ reused

CSTypeOK ==
  /\ conn \in [Conns -> {"off", "open", "gone"}]
  /\ sent \in [Conns -> Nat]
  /\ fdtab \in [Fds -> Conns \cup {NULL}]
  /\ main \in {"accept", "admit", "check", "cleanup", "exited"}
  /\ client_fd \in Fds \cup {-1}
  /\ endSession \in {0, 1}
  /\ clients \in [Slots -> Fds \cup {-1}]
  /\ mutex \in Conns \cup {NULL}
  /\ pc \in [Conns -> {"none", "loop", "read", "lock", "size", "body", "close",
                       "release", "done"}]
  /\ slot \in [Conns -> Slots \cup {-1}]
  /\ msg \in [Conns -> Messages \cup {NULL}]
  /\ i \in [Conns -> Nat]
  /\ out \in [Conns -> Seq(Parts)]

(* A connection has one descriptor at most, and none before it is accepted. *)
Descriptors ==
  /\ \A f, g \in Fds : fdtab[f] = fdtab[g] /\ fdtab[f] # NULL => f = g
  /\ \A f \in Fds : fdtab[f] # NULL => conn[fdtab[f]] \in {"open", "gone"}
  /\ \A c \in Conns : conn[c] = "off" => pc[c] = "none" /\ out[c] = <<>>

(* Every slot in use is one thread's, and that thread's connection is       *)
(* behind it until it is closed.                                            *)
SlotsOwned ==
  /\ \A s \in Slots : clients[s] # -1 => \E c \in Conns : Active(c) /\ slot[c] = s
  /\ \A c \in Conns : Active(c) => slot[c] \in Slots /\ clients[slot[c]] # -1
  /\ \A b, c \in Conns : Active(b) /\ Active(c) /\ slot[b] = slot[c] => b = c
  /\ \A c \in Conns : Serving(c) => Peer(slot[c]) = c \/ main = "exited"
  /\ clientsCount = Cardinality(Used)

(* The descriptor of a plain client is in one slot at most. *)
Alone ==
  \A f \in Fds : fdtab[f] \in Plain =>
    \A s, r \in Slots : clients[s] = f /\ clients[r] = f => s = r

(* What main has just accepted is nobody's yet. *)
Admission ==
  /\ main = "admit" /\ client_fd # -1 =>
       /\ fdtab[client_fd] # NULL /\ pc[fdtab[client_fd]] = "none"
       /\ fdtab[client_fd] \in Plain => \A s \in Slots : clients[s] # client_fd
  /\ endSession = 0 => main \in {"accept", "admit", "check"} /\ (main = "admit" => client_fd # -1)

(* mutex is held by the one thread that broadcasts, so that no slot changes *)
(* under it; it has a message.                                              *)
Broadcaster ==
  /\ \A c \in Conns : mutex = c <=> Broadcasts(c)
  /\ \A c \in Conns : pc[c] = "body" => i[c] \in Slots /\ clients[i[c]] # -1
  /\ \A c \in Conns : msg[c] # NULL => msg[c][1] = c
  /\ \A c \in Conns : pc[c] = "lock" \/ Broadcasts(c) => msg[c] # NULL

(* What arrived was read before, and is not what still waits for mutex. *)
Old(x) == x[2] <= Got(x[1]) /\ (pc[x[1]] = "lock" => x # msg[x[1]])
Arrived == \A d \in Conns : \A k \in 1..Len(out[d]) : Old(out[d][k][2])

(* Which connection a broadcasting thread is at. *)
Target(b) == fdtab[clients[i[b]]]

(* The size without its body is the last that arrived, and its body comes   *)
(* next or never.                                                           *)
Framing ==
  /\ \A b \in Conns, c \in Plain : pc[b] = "body" /\ Target(b) = c /\ conn[c] # "gone" =>
       /\ Len(out[c]) % 2 = 1
       /\ out[c][Len(out[c])] = <<"size", msg[b]>>
  /\ \A c \in Plain : Len(out[c]) % 2 = 1 =>
       \/ conn[c] = "gone"
       \/ \A f \in Fds : fdtab[f] # c
       \/ \E b \in Conns : pc[b] = "body" /\ Target(b) = c

(* The message that is being broadcast is the last that arrived at a plain  *)
(* client, and has not arrived where the thread has not been.               *)
Reached(b) == IF pc[b] = "body" THEN i[b] + 1 ELSE i[b]
AtEnd ==
  \A b \in Conns : Broadcasts(b) =>
    \A d \in Plain : \A k \in 1..Len(out[d]) : out[d][k][2] = msg[b] =>
      \/ k = Len(out[d])
      \/ k + 1 = Len(out[d]) /\ out[d][k + 1] = <<"body", msg[b]>>
Ahead ==
  /\ \A b \in Conns : Broadcasts(b) =>
       \A s \in Slots : s >= Reached(b) /\ clients[s] # -1 =>
         \A d \in Plain : fdtab[clients[s]] = d =>
           \A k \in 1..Len(out[d]) : out[d][k][2] # msg[b]
  /\ \A b \in Conns, d \in Plain : pc[b] = "body" /\ Target(b) = d =>
       \A k \in 1..Len(out[d]) : out[d][k] # <<"body", msg[b]>>

Table == Descriptors /\ SlotsOwned /\ Alone /\ Admission /\ Broadcaster
Traffic == Arrived /\ Framing /\ AtEnd /\ Ahead

(* The inductive invariant; a write to clients[-1] ends what can be said of *)
(* the server, but not what has arrived.                                    *)
ChatInv ==
  /\ CSTypeOK /\ FramesWhole /\ SameOrder
  /\ fate # "undefined" => Table /\ Traffic

-----------------------------------------------------------------------------
(* What the constants, the kernel and the search for a slot give *)

LEMMA Constants ==
  /\ Cardinality(Conns) \in Nat /\ IsFiniteSet(Fds)
  /\ Cardinality(Fds) = Cardinality(Conns) + 1
  /\ Fds \subseteq Nat /\ -1 \notin Fds
  /\ Slots \subseteq Nat /\ -1 \notin Slots /\ IsFiniteSet(Slots)
  /\ Cardinality(Slots) = MAX_CLIENTS
  /\ NULL \notin Conns /\ NULL \notin Messages /\ Plain \subseteq Conns
<1>1. Cardinality(Conns) \in Nat
  BY ChatAssumption, FS_CardinalityType
<1>2. /\ IsFiniteSet(1..(Cardinality(Conns) + 1))
      /\ Cardinality(1..(Cardinality(Conns) + 1)) = Cardinality(Conns) + 1
  BY SMTT(40), <1>1, FS_Interval
<1>3. /\ IsFiniteSet(0..(MAX_CLIENTS - 1))
      /\ Cardinality(0..(MAX_CLIENTS - 1)) = MAX_CLIENTS
  <2>1. MAX_CLIENTS - 1 \in Int /\ 0 \in Int /\ ~(0 > MAX_CLIENTS - 1)
        /\ (MAX_CLIENTS - 1) - 0 + 1 = MAX_CLIENTS
    BY ChatAssumption
  <2> QED
    BY <2>1, FS_Interval
<1>4. Fds \subseteq Nat /\ -1 \notin Fds /\ Slots \subseteq Nat /\ -1 \notin Slots
  BY <1>1, ChatAssumption DEF Fds, Slots
<1> QED
  BY <1>1, <1>2, <1>3, <1>4, ChatAssumption DEF Fds, Slots, Messages, Plain

(* There are more descriptors than connections. *)
LEMMA FreeFdFree ==
  ASSUME CSTypeOK, Descriptors
  PROVE  FreeFd \in Fds /\ fdtab[FreeFd] = NULL
<1> DEFINE F == {f \in Fds : fdtab[f] = NULL}
<1>1. F # {}
  <2> SUFFICES ASSUME F = {} PROVE FALSE
    OBVIOUS
  <2>1. fdtab \in [Fds -> Conns]
    BY DEF CSTypeOK
  <2>2. \E x, y \in Fds : x # y /\ fdtab[x] = fdtab[y]
    <3>1. Cardinality(Conns) < Cardinality(Fds)
      BY Constants
    <3> QED
      BY <2>1, <3>1, Constants, ChatAssumption, FS_PigeonHole
  <2> QED
    BY <2>1, <2>2, Constants DEF Descriptors
<1>2. Min(F) \in F
  BY <1>1, Constants, MinOfSet
<1> QED
  BY <1>2 DEF FreeFd

LEMMA FreeSlot ==
  ASSUME CSTypeOK
  PROVE  /\ find_free_client \in Slots \cup {-1}
         /\ find_free_client # -1 => clients[find_free_client] = -1
<1>1. Free # {} => Min(Free) \in Free
  <2>1. Free \subseteq Nat
    BY Constants DEF Free
  <2> QED
    BY <2>1, MinOfSet
<1> QED
  BY <1>1 DEF find_free_client, Free

(* The slots in use, when one is taken or given back. *)
LEMMA UsedSlots ==
  ASSUME CSTypeOK
  PROVE  /\ IsFiniteSet(Used) /\ Cardinality(Used) \in Nat
         /\ Cardinality(Used) <= MAX_CLIENTS
         /\ \A s \in Slots : \A f \in Fds :
              /\ clients[s] = -1 /\ clients' = [clients EXCEPT ![s] = f]
                   => Cardinality(Used') = Cardinality(Used) + 1
              /\ clients[s] # -1 /\ clients' = [clients EXCEPT ![s] = -1]
                   => Cardinality(Used') = Cardinality(Used) - 1
<1>1. /\ IsFiniteSet(Used) /\ Cardinality(Used) \in Nat
      /\ Cardinality(Used) <= MAX_CLIENTS
  <2>1. Used \in SUBSET Slots
    BY DEF Used
  <2> QED
    BY <2>1, Constants, FS_Subset, FS_CardinalityType
<1>2. ASSUME NEW s \in Slots, NEW f \in Fds, clients[s] = -1,
             clients' = [clients EXCEPT ![s] = f]
      PROVE  Cardinality(Used') = Cardinality(Used) + 1
  <2>1. Used' = Used \cup {s} /\ s \notin Used
    BY <1>2, Constants DEF Used, CSTypeOK
  <2> QED
    BY <1>1, <2>1, FS_AddElement
<1>3. ASSUME NEW s \in Slots, clients[s] # -1,
             clients' = [clients EXCEPT ![s] = -1]
      PROVE  Cardinality(Used') = Cardinality(Used) - 1
  <2>1. Used' = Used \ {s} /\ s \in Used
    BY <1>3 DEF Used, CSTypeOK
  <2> QED
    BY <1>1, <2>1, FS_RemoveElement
<1> QED
  BY <1>1, <1>2, <1>3

(* A step of a client. *)
Outside(c) == Send(c) \/ Disconnect(c) \/ Stall(c) \/ Resume(c)

(* write(2): a failure, a delivery, or a reset. *)
Undelivered == UNCHANGED <<out, reset, fate>>
Delivered(d, part) == out' = [out EXCEPT ![d] = Append(@, part)] /\ UNCHANGED <<reset, fate>>
Refused == UNCHANGED out /\ fate' \in {fate, "killed"}
LEMMA WriteCases ==
  ASSUME NEW f, NEW part, write(f, part)
  PROVE  \/ ~Written(f) /\ Undelivered
         \/ Written(f) /\ conn[fdtab[f]] # "gone" /\ Delivered(fdtab[f], part)
         \/ Written(f) /\ conn[fdtab[f]] = "gone" /\ Refused
<1>1. CASE ~Written(f)
  BY <1>1 DEF write, Undelivered
<1>2. CASE Written(f) /\ conn[fdtab[f]] # "gone"
  BY <1>2 DEF write, Delivered
<1>3. CASE Written(f) /\ conn[fdtab[f]] = "gone"
  BY <1>3 DEF write, Refused
<1> QED
  BY <1>1, <1>2, <1>3

-----------------------------------------------------------------------------
(* The types *)

LEMMA ThreadTypes ==
  ASSUME CSTypeOK, Table, NEW c \in Conns, Thread(c)
  PROVE  CSTypeOK'
<1>1. CASE loop(c) \/ finish(c)
  BY <1>1 DEF CSTypeOK, loop, finish, net
<1>2. CASE receive(c)
  <2>1. Got(c) \in Nat
    BY DEF Got, CSTypeOK, Messages
  <2>2. <<c, Got(c) + 1>> \in Messages
    BY <2>1 DEF Messages
  <2> QED
    BY <1>2, <2>2 DEF CSTypeOK, receive, net
<1>3. CASE lock(c)
  BY <1>3 DEF CSTypeOK, lock, net
<1>4. CASE unlock(c)
  BY <1>4 DEF CSTypeOK, unlock, net
<1>5. CASE write_size(c) \/ write_body(c)
  <2>1. Broadcasts(c)
    BY <1>5 DEF write_size, write_body, Broadcasts
  <2>2. msg[c] \in Messages
    BY <2>1 DEF Table, Broadcaster, CSTypeOK
  <2>3. ASSUME NEW part \in Parts, NEW f, write(f, part)
        PROVE  out' \in [Conns -> Seq(Parts)]
    <3>1. CASE Written(f) /\ Delivered(fdtab[f], part)
      <4>1. CASE fdtab[f] \in Conns
        <5>1. Append(out[fdtab[f]], part) \in Seq(Parts)
          BY <2>3, <4>1 DEF CSTypeOK
        <5> QED
          BY <3>1, <5>1 DEF Delivered, CSTypeOK
      <4>2. CASE fdtab[f] \notin Conns
        BY <3>1, <4>2 DEF Delivered, CSTypeOK
      <4> QED
        BY <4>1, <4>2
    <3>2. CASE Undelivered \/ Refused
      BY <3>2 DEF Undelivered, Refused, CSTypeOK
    <3> QED
      BY <2>3, <3>1, <3>2, WriteCases
  <2>4. <<"size", msg[c]>> \in Parts /\ <<"body", msg[c]>> \in Parts
    BY <2>2 DEF Parts
  <2>5. out' \in [Conns -> Seq(Parts)]
    BY <1>5, <2>3, <2>4 DEF write_size, write_body
  <2>6. pc' \in [Conns -> {"none", "loop", "read", "lock", "size", "body", "close",
                           "release", "done"}] /\ i' \in [Conns -> Nat]
    <3>1. \/ pc' = [pc EXCEPT ![c] = "body"]
          \/ pc' = [pc EXCEPT ![c] = "size"]
          \/ pc' = pc
      BY <1>5 DEF write_size, write_body
    <3>2. i' = i \/ i' = [i EXCEPT ![c] = @ + 1]
      BY <1>5 DEF write_size, write_body
    <3>3. i \in [Conns -> Nat]
      BY DEF CSTypeOK
    <3>4. i' \in [Conns -> Nat]
      BY <3>2, <3>3
    <3> QED
      BY <3>1, <3>4 DEF CSTypeOK
  <2> QED
    BY <1>5, <2>5, <2>6 DEF CSTypeOK, write_size, write_body
<1>6. CASE close(c)
  BY <1>6 DEF CSTypeOK, close
<1>7. CASE release(c)
  BY <1>7 DEF CSTypeOK, release, net
<1> QED
  BY <1>1, <1>2, <1>3, <1>4, <1>5, <1>6, <1>7 DEF Thread

LEMMA TypesStep ==
  ASSUME CSTypeOK, Table, Next
  PROVE  CSTypeOK'
<1>1. ASSUME NEW c \in Conns, Outside(c)
      PROVE  CSTypeOK'
  <2>1. CASE Send(c)
    BY <2>1 DEF CSTypeOK, Send, server, thread
  <2>2. CASE Disconnect(c)
    <3>1. conn' \in [Conns -> {"off", "open", "gone"}]
      <4>1. conn \in [Conns -> {"off", "open", "gone"}] /\ conn' = [conn EXCEPT ![c] = "gone"]
        BY <2>2 DEF CSTypeOK, Disconnect
      <4> QED
        BY <4>1
    <3>2. sent' \in [Conns -> Nat]
      <4>1. sent \in [Conns -> Nat] /\ (sent' = sent \/ sent' = [sent EXCEPT ![c] = @ + 1])
        BY <2>2 DEF CSTypeOK, Disconnect
      <4> QED
        BY <4>1
    <3> QED
      BY <2>2, <3>1, <3>2 DEF CSTypeOK, Disconnect, server, thread
  <2>3. CASE Stall(c) \/ Resume(c)
    BY <2>3 DEF CSTypeOK, Stall, Resume, server, thread
  <2> QED
    BY <1>1, <2>1, <2>2, <2>3 DEF Outside
<1>2. ASSUME NEW c \in Conns, Thread(c) PROVE CSTypeOK'
  BY <1>2, ThreadTypes
<1>3. CASE close_server
  BY <1>3 DEF CSTypeOK, close_server, net, thread
<1>4. ASSUME NEW c \in Conns, accept(c) PROVE CSTypeOK'
  <2>1. FreeFd \in Fds
    BY FreeFdFree DEF Table
  <2> QED
    BY <1>4, <2>1 DEF CSTypeOK, accept, thread
<1>5. CASE admit
  <2>1. find_free_client \in Slots \cup {-1}
    BY FreeSlot
  <2>2. UNCHANGED <<conn, sent, client_fd, endSession, mutex, msg, i, out, reset>>
    BY <1>5 DEF admit
  <2>3. CASE clientsCount > MAX_CLIENTS
    BY <1>5, <2>2, <2>3 DEF CSTypeOK, admit
  <2>4. CASE ~(clientsCount > MAX_CLIENTS)
    <3>1. /\ clients' \in [Slots -> Fds \cup {-1}]
          /\ pc' \in [Conns -> {"none", "loop", "read", "lock", "size", "body", "close",
                           "release", "done"}]
          /\ slot' \in [Conns -> Slots \cup {-1}]
          /\ main' = "check" /\ fdtab' = fdtab
      BY ZenonT(60), <1>5, <2>1, <2>4 DEF CSTypeOK, admit
    <3> QED
      BY <2>2, <3>1 DEF CSTypeOK
  <2> QED
    BY <2>3, <2>4
<1>6. CASE check
  BY <1>6 DEF CSTypeOK, check, net, thread
<1>7. CASE cleanup
  BY <1>7 DEF CSTypeOK, cleanup, thread
<1> QED
  BY <1>1, <1>2, <1>3, <1>4, <1>5, <1>6, <1>7 DEF Next, Main, Outside

-----------------------------------------------------------------------------
(* What arrives at the clients *)

LEMMA PartTypes ==
  ASSUME CSTypeOK, NEW d \in Conns
  PROVE  /\ out[d] \in Seq(Parts) /\ Len(out[d]) \in Nat
         /\ \A k \in 1..Len(out[d]) :
              /\ out[d][k] = <<out[d][k][1], out[d][k][2]>>
              /\ out[d][k][2] \in Messages
              /\ out[d][k][2][1] \in Conns /\ out[d][k][2][2] \in Nat
<1>1. out[d] \in Seq(Parts)
  BY DEF CSTypeOK
<1>2. \A k \in 1..Len(out[d]) : out[d][k] \in Parts
  BY <1>1
<1>3. \A k \in 1..Len(out[d]) :
        out[d][k] = <<out[d][k][1], out[d][k][2]>> /\ out[d][k][2] \in Messages
  BY <1>2 DEF Parts
<1>4. \A x \in Messages : x[1] \in Conns /\ x[2] \in Nat
  BY DEF Messages
<1> QED
  BY <1>1, <1>3, <1>4

LEMMA Parity ==
  ASSUME NEW n \in Nat
  PROVE  /\ n % 2 = 0 \/ n % 2 = 1
         /\ n % 2 = 0 => (n + 1) % 2 = 1
         /\ n % 2 = 1 => (n + 1) % 2 = 0
         /\ n % 2 # 1 => n # 1
OBVIOUS

LEMMA OutKept ==
  ASSUME FramesWhole, SameOrder, Plain' \subseteq Plain,
         \A c \in Plain : out'[c] = out[c]
  PROVE  FramesWhole' /\ SameOrder'
<1>1. FramesWhole'
  <2>1. \A c \in Plain : Whole(c)' <=> Whole(c)
    BY DEF Whole
  <2> QED
    BY <2>1 DEF FramesWhole, Plain
<1>2. SameOrder'
  <2> SUFFICES ASSUME NEW c \in Plain', NEW d \in Plain',
                      NEW j \in 1..Len(out'[c]), NEW k \in 1..Len(out'[c]),
                      NEW l \in 1..Len(out'[d]), NEW n \in 1..Len(out'[d]),
                      out'[c][j] = out'[d][l], out'[c][k] = out'[d][n], j < k
               PROVE  l < n
    BY DEF SameOrder, Plain
  <2>0. c \in Plain /\ d \in Plain /\ out'[c] = out[c] /\ out'[d] = out[d]
    OBVIOUS
  <2>1. /\ j \in 1..Len(out[c]) /\ k \in 1..Len(out[c])
        /\ l \in 1..Len(out[d]) /\ n \in 1..Len(out[d])
        /\ out[c][j] = out[d][l] /\ out[c][k] = out[d][n]
    BY <2>0, Zenon
  <2> QED
    BY <2>0, <2>1, Zenon DEF SameOrder, Plain
<1> QED
  BY <1>1, <1>2

(* A step that writes nothing, begins no broadcast and gives no descriptor  *)
(* away.                                                                    *)
LEMMA TrafficKept ==
  ASSUME CSTypeOK, CSTypeOK', FramesWhole, SameOrder, Descriptors, Broadcaster, Traffic,
         out' = out, msg' = msg, reused' = reused,
         \A c \in Conns : pc'[c] = "lock" => pc[c] = "lock",
         \A c \in Conns : Broadcasts(c)' => pc'[c] = pc[c] /\ i'[c] = i[c],
         \A c \in Conns : pc[c] = "body" => pc'[c] = "body",
         \A c \in Conns : conn[c] = "gone" => conn'[c] = "gone",
         \A f \in Fds : fdtab'[f] \in {fdtab[f], NULL},
         (\E c \in Conns : Broadcasts(c)) => clients' = clients
  PROVE  FramesWhole' /\ SameOrder' /\ Traffic'
<1>0. Plain' = Plain /\ Plain \subseteq Conns
  BY DEF Plain
<1>1. FramesWhole' /\ SameOrder'
  BY <1>0, OutKept
<1>2. Arrived'
  <2>1. \A x \in Messages : Old(x) => Old(x)'
    BY DEF Old, Got, Messages
  <2> QED
    BY <2>1, PartTypes DEF Traffic, Arrived
<1>3. \A c \in Conns : Broadcasts(c)' =>
        Broadcasts(c) /\ pc'[c] = pc[c] /\ i'[c] = i[c] /\ clients' = clients
  BY DEF Broadcasts
<1>4. ASSUME NEW b \in Conns, pc'[b] = "body"
      PROVE  /\ pc[b] = "body" /\ i'[b] = i[b] /\ clients' = clients
             /\ clients[i[b]] \in Fds /\ Target(b)' = fdtab'[clients[i[b]]]
             /\ Target(b)' \in {Target(b), NULL}
  <2>1. Broadcasts(b)' /\ Broadcasts(b)
    BY <1>3, <1>4 DEF Broadcasts
  <2>2. pc[b] = "body" /\ i'[b] = i[b] /\ clients' = clients
    BY <1>3, <1>4, <2>1
  <2>3. clients[i[b]] \in Fds
    BY <2>2 DEF Broadcaster, CSTypeOK
  <2> QED
    BY <2>2, <2>3 DEF Target
<1>5. Framing'
  <2>1. ASSUME NEW b \in Conns, NEW c \in Plain, pc'[b] = "body", Target(b)' = c,
               conn'[c] # "gone"
        PROVE  Len(out'[c]) % 2 = 1 /\ out'[c][Len(out'[c])] = <<"size", msg'[b]>>
    <3>1. pc[b] = "body" /\ Target(b) = c /\ conn[c] # "gone"
      BY <1>0, <1>4, <2>1, Constants
    <3> QED
      BY ZenonT(60), <3>1 DEF Traffic, Framing
  <2>2. ASSUME NEW c \in Plain, Len(out'[c]) % 2 = 1
        PROVE  \/ conn'[c] = "gone"
               \/ \A f \in Fds : fdtab'[f] # c
               \/ \E b \in Conns : pc'[b] = "body" /\ Target(b)' = c
    <3>0. c \in Conns
      BY <1>0
    <3>1. CASE conn[c] = "gone"
      BY <3>0, <3>1
    <3>2. CASE \A f \in Fds : fdtab[f] # c
      BY <3>0, <3>2, Constants
    <3>3. CASE \E b \in Conns : pc[b] = "body" /\ Target(b) = c
      <4>1. PICK b \in Conns : pc[b] = "body" /\ Target(b) = c
        BY <3>3
      <4>2. pc'[b] = "body"
        BY <4>1
      <4>3. clients[i[b]] \in Fds /\ Target(b)' = fdtab'[clients[i[b]]]
        BY <1>4, <4>2
      <4>4. fdtab[clients[i[b]]] = c /\ c # NULL
        BY <3>0, <4>1, Constants DEF Target
      <4>5. \A f \in Fds : fdtab[f] = c => f = clients[i[b]]
        BY <4>3, <4>4 DEF Descriptors
      <4> QED
        BY <4>2, <4>3, <4>4, <4>5
    <3> QED
      BY <2>2, <3>1, <3>2, <3>3 DEF Traffic, Framing
  <2> QED
    BY <1>0, <2>1, <2>2 DEF Framing
<1>6. AtEnd'
  BY <1>0, <1>3 DEF Traffic, AtEnd
<1>7. Ahead'
  <2>1. ASSUME NEW b \in Conns, Broadcasts(b)', NEW s \in Slots, s >= Reached(b)',
               clients'[s] # -1, NEW d \in Plain, fdtab'[clients'[s]] = d,
               NEW k \in 1..Len(out'[d])
        PROVE  out'[d][k][2] # msg'[b]
    <3>1. Broadcasts(b) /\ pc'[b] = pc[b] /\ i'[b] = i[b] /\ clients' = clients
      BY <1>3, <2>1
    <3>2. Reached(b)' = Reached(b)
      BY <3>1 DEF Reached
    <3>3. clients[s] \in Fds /\ clients[s] # -1
      BY <2>1, <3>1 DEF CSTypeOK
    <3>4. fdtab[clients[s]] = d
      BY <1>0, <2>1, <3>1, <3>3, Constants
    <3> QED
      BY <2>1, <3>1, <3>2, <3>3, <3>4 DEF Traffic, Ahead
  <2>2. ASSUME NEW b \in Conns, NEW d \in Plain, pc'[b] = "body", Target(b)' = d,
               NEW k \in 1..Len(out'[d])
        PROVE  out'[d][k] # <<"body", msg'[b]>>
    <3>1. pc[b] = "body" /\ Target(b) = d
      BY <1>0, <1>4, <2>2, Constants
    <3> QED
      BY <2>2, <3>1 DEF Traffic, Ahead
  <2> QED
    BY <1>0, <2>1, <2>2 DEF Ahead
<1> QED
  BY <1>1, <1>2, <1>5, <1>6, <1>7 DEF Traffic

(* A new message: what arrived of its sender is older. *)
LEMMA ReceiveTraffic ==
  ASSUME CSTypeOK, CSTypeOK', FramesWhole, SameOrder, Broadcaster, Traffic,
         NEW e \in Conns, receive(e)
  PROVE  FramesWhole' /\ SameOrder' /\ Traffic'
<1>1. /\ pc[e] = "read" /\ msg' = [msg EXCEPT ![e] = <<e, Got(e) + 1>>]
      /\ pc' = [pc EXCEPT ![e] = "lock"]
      /\ UNCHANGED <<conn, fdtab, clients, i, out, reused>>
  BY DEF receive, net
<1>2. Plain' = Plain /\ Plain \subseteq Conns /\ FramesWhole' /\ SameOrder'
  BY <1>1, OutKept DEF Plain
<1>3. Got(e) \in Nat /\ <<e, Got(e) + 1>> \in Messages
  <2>1. Got(e) \in Nat
    BY DEF Got, CSTypeOK, Messages
  <2> QED
    BY <2>1 DEF Messages
<1>4. /\ msg'[e] = <<e, Got(e) + 1>> /\ Got(e)' = Got(e) + 1
      /\ \A b \in Conns \ {e} : msg'[b] = msg[b] /\ Got(b)' = Got(b) /\ pc'[b] = pc[b]
  BY ZenonT(60), <1>1, <1>3, Constants DEF CSTypeOK, Got
<1>5. Arrived'
  <2>1. ASSUME NEW b \in Conns, NEW n \in Nat, Old(<<b, n>>) PROVE Old(<<b, n>>)'
    <3>1. CASE b = e
      <4>1. n <= Got(e)
        BY <2>1, <3>1 DEF Old
      <4>2. n <= Got(e) + 1 /\ n # Got(e) + 1
        BY <1>3, <4>1
      <4> QED
        BY <1>4, <3>1, <4>2 DEF Old
    <3>2. CASE b # e
      BY <1>4, <2>1, <3>2 DEF Old
    <3> QED
      BY <3>1, <3>2
  <2>2. \A x \in Messages : Old(x) => Old(x)'
    BY <2>1 DEF Messages
  <2> QED
    BY <1>1, <2>2, PartTypes DEF Traffic, Arrived
<1>6. \A b \in Conns : Broadcasts(b)' =>
        b # e /\ Broadcasts(b) /\ pc'[b] = pc[b] /\ msg'[b] = msg[b] /\ i'[b] = i[b]
  BY <1>1, <1>4 DEF Broadcasts, CSTypeOK
<1>7. \A b \in Conns : /\ pc'[b] = "body" <=> pc[b] = "body"
                       /\ pc[b] = "body" => Broadcasts(b)'
                       /\ Target(b)' = Target(b) /\ Reached(b)' = Reached(b)
  BY SMTT(40), <1>1, <1>4 DEF Broadcasts, CSTypeOK, Target, Reached
<1>8. Framing'
  <2>1. ASSUME NEW b \in Conns, NEW c \in Plain, pc'[b] = "body", Target(b)' = c,
               conn'[c] # "gone"
        PROVE  Len(out'[c]) % 2 = 1 /\ out'[c][Len(out'[c])] = <<"size", msg'[b]>>
    <3>1. /\ pc[b] = "body" /\ Target(b) = c /\ conn[c] # "gone"
          /\ out' = out /\ msg'[b] = msg[b]
      BY <1>1, <1>6, <1>7, <2>1
    <3>2. Len(out[c]) % 2 = 1 /\ out[c][Len(out[c])] = <<"size", msg[b]>>
      BY <3>1 DEF Traffic, Framing
    <3> QED
      BY <3>1, <3>2
  <2>2. ASSUME NEW c \in Plain, Len(out'[c]) % 2 = 1
        PROVE  \/ conn'[c] = "gone"
               \/ \A f \in Fds : fdtab'[f] # c
               \/ \E b \in Conns : pc'[b] = "body" /\ Target(b)' = c
    BY ZenonT(60), <1>1, <1>7, <2>2 DEF Traffic, Framing
  <2> QED
    BY <1>2, <2>1, <2>2 DEF Framing
<1>9. AtEnd'
  BY <1>1, <1>2, <1>6 DEF Traffic, AtEnd
<1>10. Ahead'
  BY <1>1, <1>2, <1>6, <1>7 DEF Traffic, Ahead
<1> QED
  BY <1>2, <1>5, <1>8, <1>9, <1>10 DEF Traffic

(* The broadcast of a message begins: nothing of it arrived yet. *)
LEMMA LockTraffic ==
  ASSUME CSTypeOK, CSTypeOK', FramesWhole, SameOrder, Broadcaster, Traffic,
         NEW e \in Conns, lock(e)
  PROVE  FramesWhole' /\ SameOrder' /\ Traffic'
<1>1. /\ pc[e] = "lock" /\ mutex = NULL
      /\ i' = [i EXCEPT ![e] = 0] /\ pc' = [pc EXCEPT ![e] = "size"]
      /\ UNCHANGED <<conn, fdtab, clients, msg, out, reused>>
  BY DEF lock, net
<1>2. Plain' = Plain /\ Plain \subseteq Conns /\ FramesWhole' /\ SameOrder'
  BY <1>1, OutKept DEF Plain
<1>3. \A b \in Conns : ~Broadcasts(b)
  BY <1>1, Constants DEF Broadcaster
<1>4. \A b \in Conns : Broadcasts(b)' => b = e /\ pc'[b] = "size"
  BY <1>1, <1>3 DEF Broadcasts, CSTypeOK
<1>5. \A b \in Conns : pc[b] # "body" /\ pc'[b] # "body"
  BY <1>3, <1>4 DEF Broadcasts
<1>6. Arrived'
  <2>1. \A x \in Messages : Old(x) => Old(x)'
    BY <1>1 DEF Old, Got, Messages, CSTypeOK
  <2> QED
    BY <1>1, <2>1, PartTypes DEF Traffic, Arrived
<1>7. \A d \in Conns : \A k \in 1..Len(out[d]) : out[d][k][2] # msg[e]
  <2> SUFFICES ASSUME NEW d \in Conns, NEW k \in 1..Len(out[d]), out[d][k][2] = msg[e]
               PROVE  FALSE
    OBVIOUS
  <2>1. msg[e] # NULL /\ msg[e][1] = e
    BY <1>1 DEF Broadcaster
  <2>2. Old(msg[e])
    BY DEF Traffic, Arrived
  <2> QED
    BY <1>1, <2>1, <2>2 DEF Old
<1>8. Framing'
  BY <1>1, <1>2, <1>5 DEF Traffic, Framing
<1>9. AtEnd'
  BY <1>1, <1>2, <1>4, <1>7 DEF AtEnd
<1>10. Ahead'
  BY <1>1, <1>2, <1>4, <1>5, <1>7 DEF Ahead
<1> QED
  BY <1>2, <1>6, <1>8, <1>9, <1>10 DEF Traffic

(* A connection is accepted: if its descriptor is in a slot, it is not a    *)
(* plain one.                                                               *)
LEMMA AcceptTraffic ==
  ASSUME CSTypeOK, CSTypeOK', FramesWhole, SameOrder, Descriptors, Broadcaster,
         Traffic, NEW e \in Conns, accept(e)
  PROVE  FramesWhole' /\ SameOrder' /\ Traffic'
<1>1. /\ conn[e] = "off" /\ conn' = [conn EXCEPT ![e] = "open"]
      /\ fdtab' = [fdtab EXCEPT ![FreeFd] = e]
      /\ UNCHANGED <<clients, msg, pc, i, out>>
      /\ reused' = IF \E s \in Slots : clients[s] = FreeFd THEN reused \cup {e} ELSE reused
  BY DEF accept, thread
<1>2. Plain' \subseteq Plain /\ Plain \subseteq Conns /\ FramesWhole' /\ SameOrder'
  <2>1. Plain' \subseteq Plain /\ Plain \subseteq Conns
    BY <1>1 DEF Plain
  <2> QED
    BY <1>1, <2>1, OutKept
<1>3. FreeFd \in Fds /\ fdtab[FreeFd] = NULL
  BY FreeFdFree
<1>4. ASSUME NEW f \in Fds, NEW s \in Slots, clients[s] = f, NEW d \in Plain'
      PROVE  fdtab'[f] = d <=> fdtab[f] = d
  <2>1. CASE f = FreeFd
    <3>1. e \notin Plain'
      BY <1>1, <1>4, <2>1 DEF Plain
    <3>2. fdtab'[f] = e /\ fdtab[f] = NULL
      BY <1>1, <1>3, <2>1 DEF CSTypeOK
    <3> QED
      BY <3>1, <3>2, <1>2, Constants
  <2>2. CASE f # FreeFd
    BY <1>1, <2>2 DEF CSTypeOK
  <2> QED
    BY <2>1, <2>2
<1>5. ASSUME NEW b \in Conns, pc[b] = "body", NEW d \in Plain'
      PROVE  Target(b)' = d <=> Target(b) = d
  <2>1. i[b] \in Slots /\ clients[i[b]] \in Fds
    BY <1>5 DEF Broadcaster, CSTypeOK
  <2>2. UNCHANGED <<clients, i>>
    BY <1>1
  <2> QED
    BY <1>4, <2>1, <2>2 DEF Target
<1>6. \A b \in Conns : (Broadcasts(b)' <=> Broadcasts(b)) /\ Reached(b)' = Reached(b)
  BY <1>1 DEF Broadcasts, Reached
<1>7. out[e] = <<>> /\ pc[e] = "none" /\ Len(out[e]) = 0
  BY <1>1 DEF Descriptors
<1>8. Arrived'
  BY <1>1 DEF Traffic, Arrived, Old, Got
<1>9. Framing'
  <2>1. ASSUME NEW b \in Conns, NEW c \in Plain', pc'[b] = "body", Target(b)' = c,
               conn'[c] # "gone"
        PROVE  Len(out'[c]) % 2 = 1 /\ out'[c][Len(out'[c])] = <<"size", msg'[b]>>
    <3>1. c \in Plain /\ c \in Conns
      BY <1>2
    <3>2. pc[b] = "body" /\ Target(b) = c /\ conn[c] # "gone"
      BY <1>1, <1>5, <2>1, <3>1 DEF CSTypeOK
    <3> QED
      BY <1>1, <3>1, <3>2 DEF Traffic, Framing
  <2>2. ASSUME NEW c \in Plain', Len(out'[c]) % 2 = 1
        PROVE  \/ conn'[c] = "gone"
               \/ \A f \in Fds : fdtab'[f] # c
               \/ \E b \in Conns : pc'[b] = "body" /\ Target(b)' = c
    <3>1. c # e /\ c \in Plain /\ c \in Conns
      <4>1. 0 % 2 # 1
        OBVIOUS
      <4> QED
        BY <1>1, <1>2, <1>7, <2>2, <4>1
    <3>2. \/ conn[c] = "gone"
          \/ \A f \in Fds : fdtab[f] # c
          \/ \E b \in Conns : pc[b] = "body" /\ Target(b) = c
      BY <1>1, <2>2, <3>1 DEF Traffic, Framing
    <3>3. CASE conn[c] = "gone"
      BY <1>1, <3>1, <3>3 DEF CSTypeOK
    <3>4. CASE \A f \in Fds : fdtab[f] # c
      BY <1>1, <1>3, <3>1, <3>4 DEF CSTypeOK
    <3>5. CASE \E b \in Conns : pc[b] = "body" /\ Target(b) = c
      BY <1>1, <1>5, <3>5
    <3> QED
      BY <3>2, <3>3, <3>4, <3>5
  <2> QED
    BY <2>1, <2>2 DEF Framing
<1>10. AtEnd'
  BY <1>1, <1>2, <1>6 DEF Traffic, AtEnd
<1>11. Ahead'
  <2>1. ASSUME NEW b \in Conns, Broadcasts(b)', NEW s \in Slots, s >= Reached(b)',
               clients'[s] # -1, NEW d \in Plain', fdtab'[clients'[s]] = d,
               NEW k \in 1..Len(out'[d])
        PROVE  out'[d][k][2] # msg'[b]
    <3>1. /\ d \in Plain /\ Broadcasts(b) /\ s >= Reached(b)
          /\ clients[s] # -1 /\ clients[s] \in Fds /\ fdtab'[clients[s]] = d
      BY <1>1, <1>2, <1>6, <2>1 DEF CSTypeOK
    <3>2. fdtab[clients[s]] = d
      BY <1>4, <2>1, <3>1
    <3> QED
      BY <1>1, <2>1, <3>1, <3>2 DEF Traffic, Ahead
  <2>2. ASSUME NEW b \in Conns, NEW d \in Plain', pc'[b] = "body", Target(b)' = d,
               NEW k \in 1..Len(out'[d])
        PROVE  out'[d][k] # <<"body", msg'[b]>>
    <3>1. d \in Plain /\ pc[b] = "body" /\ Target(b) = d
      BY <1>1, <1>2, <1>5, <2>2
    <3> QED
      BY <1>1, <2>2, <3>1 DEF Traffic, Ahead
  <2> QED
    BY <2>1, <2>2 DEF Ahead
<1> QED
  BY <1>2, <1>8, <1>9, <1>10, <1>11 DEF Traffic

(* out'[d] is out[d] and p behind it. *)
LEMMA AppendAt ==
  ASSUME CSTypeOK, NEW d \in Conns, NEW p \in Parts,
         out' = [out EXCEPT ![d] = Append(@, p)]
  PROVE  /\ Len(out[d]) \in Nat /\ Len(out'[d]) = Len(out[d]) + 1
         /\ \A k \in 1..Len(out[d]) : k \in 1..Len(out'[d]) /\ out'[d][k] = out[d][k]
         /\ out'[d][Len(out[d]) + 1] = p
         /\ \A k \in 1..Len(out'[d]) : k \in 1..Len(out[d]) \/ k = Len(out[d]) + 1
         /\ \A c \in Conns \ {d} : out'[c] = out[c]
<1>1. out[d] \in Seq(Parts) /\ out'[d] = Append(out[d], p)
      /\ \A c \in Conns \ {d} : out'[c] = out[c]
  BY DEF CSTypeOK
<1> DEFINE q == out[d]
           r == out'[d]
<1>2. q \in Seq(Parts) /\ r = Append(q, p)
  BY <1>1
<1> HIDE DEF q, r
<1>3. /\ Len(q) \in Nat /\ Len(r) = Len(q) + 1
      /\ \A k \in 1..Len(q) : r[k] = q[k]
      /\ r[Len(q) + 1] = p
  BY <1>2
<1>4. /\ \A k \in 1..Len(q) : k \in 1..Len(r)
      /\ \A k \in 1..Len(r) : k \in 1..Len(q) \/ k = Len(q) + 1
  BY <1>3
<1> QED
  BY <1>1, <1>3, <1>4 DEF q, r

(* p may come behind everything that has arrived at d: it has not arrived   *)
(* there, and nothing of what has came behind p elsewhere.                  *)
MayFollow(d, p) ==
  /\ \A k \in 1..Len(out[d]) : out[d][k] # p
  /\ \A c \in Plain : \A j, k \in 1..Len(out[c]) : out[c][j] = p /\ j < k =>
       \A n \in 1..Len(out[d]) : out[c][k] # out[d][n]

LEMMA OrderAppend ==
  ASSUME CSTypeOK, SameOrder, NEW d \in Plain, NEW p \in Parts, Delivered(d, p),
         MayFollow(d, p), reused' = reused
  PROVE  SameOrder'
<1>0. /\ out' = [out EXCEPT ![d] = Append(@, p)]
      /\ \A k \in 1..Len(out[d]) : out[d][k] # p
      /\ \A c \in Plain : \A j, k \in 1..Len(out[c]) : out[c][j] = p /\ j < k =>
           \A n \in 1..Len(out[d]) : out[c][k] # out[d][n]
  BY DEF Delivered, MayFollow
<1>1. /\ Len(out[d]) \in Nat /\ Len(out'[d]) = Len(out[d]) + 1
      /\ \A k \in 1..Len(out[d]) : k \in 1..Len(out'[d]) /\ out'[d][k] = out[d][k]
      /\ out'[d][Len(out[d]) + 1] = p
      /\ \A k \in 1..Len(out'[d]) : k \in 1..Len(out[d]) \/ k = Len(out[d]) + 1
      /\ \A c \in Conns \ {d} : out'[c] = out[c]
  <2> d \in Conns
    BY Constants
  <2> QED
    BY <1>0, AppendAt
<1>2. \A c \in Conns : \A k \in 1..Len(out'[c]) :
        \/ k \in 1..Len(out[c]) /\ out'[c][k] = out[c][k]
        \/ c = d /\ k = Len(out[d]) + 1 /\ out'[c][k] = p
  BY <1>1
<1> DEFINE end == Len(out[d]) + 1
           Is(c, k) == c = d /\ k = end /\ out'[c][k] = p
           Was(c, k) == k \in 1..Len(out[c]) /\ out'[c][k] = out[c][k]
<1>3. ASSUME NEW c \in Plain, NEW e \in Plain,
             NEW j \in 1..Len(out'[c]), NEW k \in 1..Len(out'[c]),
             NEW l \in 1..Len(out'[e]), NEW n \in 1..Len(out'[e]),
             out'[c][j] = out'[e][l], out'[c][k] = out'[e][n], j < k
      PROVE  l < n
  <2> c \in Conns /\ d \in Conns /\ e \in Conns
    BY Constants
  <2>0. /\ \A f \in Conns : Len(out[f]) \in Nat
        /\ j \in Nat /\ k \in Nat /\ l \in Nat /\ n \in Nat
    BY PartTypes, <1>3
  <2>1. /\ Was(c, j) \/ Is(c, j)
        /\ Was(c, k) \/ Is(c, k)
        /\ Was(e, l) \/ Is(e, l)
        /\ Was(e, n) \/ Is(e, n)
    BY <1>2, <1>3
  <2>2. Was(c, j)
    BY <2>1, <2>0, <1>3, <1>1
  <2>3. CASE Was(c, k) /\ Was(e, l) /\ Was(e, n)
    BY ZenonT(60), <1>3, <2>2, <2>3 DEF SameOrder, Plain
  <2>4. CASE Is(c, k)
    <3>1. out'[e][n] = p /\ c = d
      BY <1>3, <2>4
    <3>2. CASE Was(e, n)
      <4>1. out[e][n] = p
        BY <3>1, <3>2
      <4>2. CASE Was(e, l)
        <5>1. out[e][l] = out[d][j]
          BY <1>0, <1>3, <2>2, <3>1, <4>2
        <5>2. l # n
          BY <1>0, <2>2, <3>1, <4>1, <5>1
        <5>3. ~(n < l)
          BY <1>0, <2>2, <3>1, <3>2, <4>1, <4>2, <5>1
        <5> QED
          BY <2>0, <5>2, <5>3
      <4>3. CASE Is(e, l)
        BY <1>0, <1>3, <2>2, <3>1, <4>3
      <4> QED
        BY <2>1, <4>2, <4>3
    <3>3. CASE Is(e, n)
      <4>1. CASE Was(e, l)
        BY <2>0, <3>3, <4>1
      <4>2. CASE Is(e, l)
        BY <1>0, <1>3, <2>2, <3>1, <4>2
      <4> QED
        BY <2>1, <4>1, <4>2
    <3> QED
      BY <2>1, <3>2, <3>3
  <2>5. CASE Was(c, k) /\ Is(e, n)
    <3>1. out[c][k] = p /\ e = d
      BY <1>3, <2>5
    <3>2. ~ Is(e, l)
      <4> SUFFICES ASSUME Is(e, l) PROVE FALSE
        OBVIOUS
      <4>1. out[c][j] = p /\ out[c][k] = p
        BY <1>3, <2>2, <3>1
      <4>2. j \in 1..Len(out[c]) /\ k \in 1..Len(out[c]) /\ out[c][j] = out[c][k]
        BY <2>2, <2>5, <4>1
      <4>3. k < k
        BY <1>3, <4>2 DEF SameOrder, Plain
      <4> QED
        BY <2>0, <4>3
    <3> QED
      BY <2>0, <2>1, <2>5, <3>1, <3>2
  <2>6. CASE Was(c, k) /\ Was(e, n) /\ Is(e, l)
    <3>1. out[c][j] = p /\ e = d /\ out[c][k] = out[d][n]
      BY <1>3, <2>2, <2>6
    <3> QED
      BY <1>0, <1>3, <2>2, <2>6, <3>1
  <2> QED
    BY <2>1, <2>3, <2>4, <2>5, <2>6
<1> QED
  BY SMTT(40), <1>3 DEF SameOrder, Plain

(* Only one thread broadcasts. *)
LEMMA OneBroadcaster ==
  ASSUME CSTypeOK, Broadcaster, NEW e \in Conns, Broadcasts(e)
  PROVE  /\ \A b \in Conns : Broadcasts(b) => b = e
         /\ msg[e] \in Messages /\ msg[e] # NULL
BY Constants DEF Broadcaster, CSTypeOK

(* What is written was read, and is not waiting for mutex. *)
LEMMA WriteArrived ==
  ASSUME CSTypeOK, CSTypeOK', Broadcaster, Traffic,
         NEW e \in Conns, Broadcasts(e), msg' = msg,
         \A c \in Conns : pc'[c] = "lock" <=> pc[c] = "lock",
         out' = out \/ \E d \in Conns : \E part \in {"size", "body"} :
                         out' = [out EXCEPT ![d] = Append(@, <<part, msg[e]>>)]
  PROVE  Arrived'
<1>1. msg[e] \in Messages /\ msg[e] # NULL /\ msg[e][1] = e /\ msg[e][2] \in Nat
      /\ pc[e] # "lock"
  BY OneBroadcaster DEF Broadcaster, Messages, Broadcasts
<1>2. \A x \in Messages : Old(x) => Old(x)'
  BY DEF Old, Got, Messages
<1>3. Old(msg[e])
  BY <1>1 DEF Old, Got
<1>4. CASE out' = out
  BY <1>2, <1>4, PartTypes DEF Traffic, Arrived
<1>5. CASE out' # out
  <2>1. PICK d \in Conns, part \in {"size", "body"} :
          out' = [out EXCEPT ![d] = Append(@, <<part, msg[e]>>)]
    BY <1>5
  <2>2. <<part, msg[e]>> \in Parts
    BY <1>1 DEF Parts
  <2>3. /\ out'[d][Len(out[d]) + 1] = <<part, msg[e]>>
        /\ \A k \in 1..Len(out[d]) : out'[d][k] = out[d][k]
        /\ \A k \in 1..Len(out'[d]) : k \in 1..Len(out[d]) \/ k = Len(out[d]) + 1
        /\ \A c \in Conns \ {d} : out'[c] = out[c]
    BY <2>1, <2>2, AppendAt
  <2>4. ASSUME NEW c \in Conns, NEW k \in 1..Len(out'[c])
        PROVE  out'[c][k][2] \in Messages /\ Old(out'[c][k][2])
    <3>1. CASE c = d /\ k = Len(out[d]) + 1
      <4>1. out'[c][k][2] = msg[e]
        BY <2>3, <3>1
      <4> QED
        BY <1>1, <1>3, <4>1
    <3>2. CASE k \in 1..Len(out[c]) /\ out'[c][k] = out[c][k]
      <4>1. Old(out[c][k][2]) /\ out[c][k][2] \in Messages
        BY <3>2, PartTypes DEF Traffic, Arrived
      <4> QED
        BY <3>2, <4>1
    <3> QED
      BY <2>3, <2>4, <3>1, <3>2
  <2>5. ASSUME NEW c \in Conns, NEW k \in 1..Len(out'[c]) PROVE Old(out[c][k][2])'
    BY <1>2, <2>4 DEF Old
  <2> QED
    BY <2>5 DEF Arrived
<1> QED
  BY <1>4, <1>5

(* The size to a client that has nothing of the message yet. *)
LEMMA SizeDelivered ==
  ASSUME CSTypeOK, CSTypeOK', FramesWhole, SameOrder, Descriptors, Alone,
         Broadcaster, Traffic,
         NEW e \in Conns, write_size(e), Written(clients[i[e]]),
         NEW d \in Plain, d = Target(e), conn[d] # "gone",
         Delivered(d, <<"size", msg[e]>>)
  PROVE  FramesWhole' /\ SameOrder' /\ Traffic'
<1> DEFINE p == <<"size", msg[e]>>
<1>0. d \in Conns /\ Plain \subseteq Conns /\ Plain' = Plain /\ reused' = reused
  BY Constants DEF write_size, Plain
<1>1. /\ pc[e] = "size" /\ i[e] \in Slots /\ pc' = [pc EXCEPT ![e] = "body"]
      /\ out' = [out EXCEPT ![d] = Append(@, p)]
      /\ UNCHANGED <<conn, fdtab, clients, msg, i>>
      /\ clients[i[e]] # -1 /\ fdtab[clients[i[e]]] = d /\ d # NULL
  BY <1>0, Constants DEF write_size, Written, Target, Delivered
<1>2. /\ \A b \in Conns : Broadcasts(b) => b = e
      /\ msg[e] \in Messages /\ Broadcasts(e)
  BY <1>1, OneBroadcaster DEF Broadcasts
<1>3. p \in Parts
  BY <1>2 DEF Parts
<1>4. /\ \A c \in Conns : Broadcasts(c)' => c = e
      /\ pc'[e] = "body" /\ \A c \in Conns \ {e} : pc'[c] = pc[c] /\ pc[c] # "body"
  BY ZenonT(60), <1>1, <1>2 DEF Broadcasts, CSTypeOK
<1>5. /\ Len(out[d]) \in Nat /\ Len(out'[d]) = Len(out[d]) + 1
      /\ \A k \in 1..Len(out[d]) : k \in 1..Len(out'[d]) /\ out'[d][k] = out[d][k]
      /\ out'[d][Len(out[d]) + 1] = p
      /\ \A k \in 1..Len(out'[d]) : k \in 1..Len(out[d]) \/ k = Len(out[d]) + 1
      /\ \A c \in Conns \ {d} : out'[c] = out[c]
  BY <1>0, <1>1, <1>3, AppendAt
<1>6. \A k \in 1..Len(out[d]) : out[d][k][2] # msg[e]
  <2>1. Reached(e) = i[e] /\ i[e] >= Reached(e)
    BY <1>1 DEF Reached, CSTypeOK
  <2> QED
    BY <1>1, <1>2, <2>1 DEF Traffic, Ahead
<1>7. /\ Len(out[d]) % 2 = 0
      /\ (Len(out[d]) + 1) % 2 = 1
  <2>1. ~(Len(out[d]) % 2 = 1)
    <3>1. clients[i[e]] \in Fds
      BY <1>1 DEF CSTypeOK
    <3>2. \A b \in Conns : pc[b] # "body"
      BY <1>1, <1>4
    <3> QED
      BY <1>0, <1>1, <3>1, <3>2 DEF Traffic, Framing
  <2> QED
    BY <1>5, <2>1, Parity
<1>8. SameOrder'
  <2>1. \A k \in 1..Len(out[d]) : out[d][k] # p
    BY <1>6
  <2>2. ASSUME NEW c \in Plain, NEW j \in 1..Len(out[c]), NEW k \in 1..Len(out[c]),
               out[c][j] = p, j < k, NEW n \in 1..Len(out[d])
        PROVE  out[c][k] # out[d][n]
    <3>1. out[c][j][2] = msg[e]
      BY <2>2
    <3>2. j = Len(out[c]) \/ (j + 1 = Len(out[c]) /\ out[c][j + 1] = <<"body", msg[e]>>)
      BY <1>2, <3>1 DEF Traffic, AtEnd
    <3>3. k = j + 1 /\ out[c][k] = <<"body", msg[e]>>
      BY <1>0, <2>2, <3>2, PartTypes
    <3> QED
      BY <1>6, <3>3
  <2>3. \A c \in Plain : \A j, k \in 1..Len(out[c]) : out[c][j] = p /\ j < k =>
          \A n \in 1..Len(out[d]) : out[c][k] # out[d][n]
    BY ZenonT(60), <2>2
  <2>4. MayFollow(d, p)
    BY <2>1, <2>3 DEF MayFollow
  <2> QED
    BY <1>0, <1>3, <2>4, OrderAppend
<1>9. FramesWhole'
  <2> SUFFICES ASSUME NEW c \in Plain, NEW k \in 1..Len(out'[c])
               PROVE  IF k % 2 = 1 THEN out'[c][k][1] = "size"
                      ELSE out'[c][k] = <<"body", out'[c][k - 1][2]>>
    BY <1>0 DEF FramesWhole, Whole, Plain
  <2>1. CASE c # d
    <3>1. out'[c] = out[c]
      BY <1>0, <1>5, <2>1
    <3>2. k \in 1..Len(out[c]) /\ Whole(c)
      BY <3>1 DEF FramesWhole, Plain
    <3> QED
      BY <3>1, <3>2 DEF Whole
  <2>2. CASE c = d /\ k \in 1..Len(out[d])
    <3>1. IF k % 2 = 1 THEN out[d][k][1] = "size"
          ELSE out[d][k] = <<"body", out[d][k - 1][2]>>
      BY <2>2 DEF FramesWhole, Whole, Plain
    <3>2. k % 2 # 1 => k - 1 \in 1..Len(out[d])
      BY <1>5, <2>2, Parity
    <3> QED
      BY <1>5, <2>2, <3>1, <3>2
  <2>3. CASE c = d /\ k = Len(out[d]) + 1
    BY <1>5, <1>7, <2>3
  <2> QED
    BY <1>5, <2>1, <2>2, <2>3
<1>10. Arrived'
  <2>1. \A c \in Conns : pc'[c] = "lock" <=> pc[c] = "lock"
    BY <1>1, <1>4
  <2> QED
    BY <1>0, <1>1, <1>2, <2>1, WriteArrived
<1>11. Target(e)' = d /\ \A b \in Conns : pc'[b] = "body" => b = e
  BY <1>1, <1>4 DEF Target
<1>12. Framing'
  <2>1. Len(out'[d]) % 2 = 1 /\ out'[d][Len(out'[d])] = <<"size", msg'[e]>>
    BY <1>1, <1>5, <1>7
  <2>2. ASSUME NEW c \in Plain, Len(out'[c]) % 2 = 1
        PROVE  \/ conn'[c] = "gone"
               \/ \A f \in Fds : fdtab'[f] # c
               \/ \E b \in Conns : pc'[b] = "body" /\ Target(b)' = c
    <3>1. CASE c = d
      BY <1>4, <1>11, <3>1
    <3>2. CASE c # d
      <4>1. \A b \in Conns : pc[b] # "body"
        BY <1>1, <1>4
      <4>2. Len(out[c]) % 2 = 1
        BY <1>0, <1>5, <2>2, <3>2
      <4> QED
        BY <1>1, <4>1, <4>2 DEF Traffic, Framing
    <3> QED
      BY <3>1, <3>2
  <2> QED
    BY <1>0, <1>11, <2>1, <2>2 DEF Framing
<1>13. AtEnd'
  <2>1. ASSUME NEW c \in Plain, NEW k \in 1..Len(out'[c]), out'[c][k][2] = msg[e]
        PROVE  \/ k = Len(out'[c])
               \/ k + 1 = Len(out'[c]) /\ out'[c][k + 1] = <<"body", msg[e]>>
    <3>1. CASE c = d
      BY <1>5, <1>6, <2>1, <3>1
    <3>2. CASE c # d
      <4>1. out'[c] = out[c]
        BY <1>0, <1>5, <3>2
      <4>2. k \in 1..Len(out[c]) /\ out[c][k][2] = msg[e]
        BY <2>1, <4>1
      <4>3. \/ k = Len(out[c])
            \/ k + 1 = Len(out[c]) /\ out[c][k + 1] = <<"body", msg[e]>>
        BY <1>2, <4>2 DEF Traffic, AtEnd
      <4> QED
        BY <4>1, <4>3
    <3> QED
      BY <3>1, <3>2
  <2>2. msg' = msg /\ \A b \in Conns : Broadcasts(b)' => b = e
    BY <1>1, <1>4
  <2> QED
    BY <1>0, <2>1, <2>2 DEF AtEnd
<1>14. Ahead'
  <2>1. Reached(e)' = i[e] + 1 /\ i[e] \in Nat /\ Reached(e) = i[e]
    BY <1>1, <1>4 DEF Reached, CSTypeOK
  <2>2. ASSUME NEW s \in Slots, s >= i[e] + 1, clients[s] # -1,
               NEW c \in Plain, fdtab[clients[s]] = c, NEW k \in 1..Len(out'[c])
        PROVE  out'[c][k][2] # msg[e]
    <3>1. s # i[e] /\ s >= i[e]
      BY <2>1, <2>2, Constants
    <3>2. clients[s] # clients[i[e]] /\ clients[s] \in Fds /\ clients[i[e]] \in Fds
      <4>1. clients[s] \in Fds /\ clients[i[e]] \in Fds
        BY <1>1, <2>2 DEF CSTypeOK
      <4> QED
        BY <1>1, <2>2, <3>1, <4>1 DEF Alone
    <3>3. c # d
      BY <1>0, <1>1, <2>2, <3>2, Constants DEF Descriptors
    <3>4. out'[c] = out[c]
      BY <1>0, <1>5, <3>3
    <3>5. \A k1 \in 1..Len(out[c]) : out[c][k1][2] # msg[e]
      BY <1>2, <2>1, <2>2, <3>1 DEF Traffic, Ahead
    <3> QED
      BY <2>2, <3>4, <3>5
  <2>3. ASSUME NEW k \in 1..Len(out'[d])
        PROVE  out'[d][k] # <<"body", msg[e]>>
    <3>1. CASE k \in 1..Len(out[d])
      <4>1. out'[d][k][2] # msg[e]
        BY SMTT(40), <1>5, <1>6, <3>1
      <4> QED
        BY <4>1
    <3>2. CASE k = Len(out[d]) + 1
      BY <1>5, <3>2
    <3> QED
      BY <1>5, <3>1, <3>2
  <2> QED
    BY SMTT(40), <1>0, <1>1, <1>4, <1>11, <2>1, <2>2, <2>3 DEF Ahead
<1> QED
  BY <1>8, <1>9, <1>10, <1>12, <1>13, <1>14 DEF Traffic

(* The body to a client that has just got the size. *)
LEMMA BodyDelivered ==
  ASSUME CSTypeOK, CSTypeOK', FramesWhole, SameOrder, Descriptors, Alone,
         Broadcaster, Traffic,
         NEW e \in Conns, write_body(e), Written(clients[i[e]]),
         NEW d \in Plain, d = Target(e), conn[d] # "gone",
         Delivered(d, <<"body", msg[e]>>)
  PROVE  FramesWhole' /\ SameOrder' /\ Traffic'
<1> DEFINE p == <<"body", msg[e]>>
           last == Len(out[d])
<1>0. d \in Conns /\ Plain \subseteq Conns /\ Plain' = Plain /\ reused' = reused
  BY Constants DEF write_body, Plain
<1>1. /\ pc[e] = "body" /\ i[e] \in Slots /\ pc' = [pc EXCEPT ![e] = "size"]
      /\ i' = [i EXCEPT ![e] = @ + 1]
      /\ out' = [out EXCEPT ![d] = Append(@, p)]
      /\ UNCHANGED <<conn, fdtab, clients, msg>>
      /\ clients[i[e]] # -1 /\ fdtab[clients[i[e]]] = d /\ d # NULL
  BY <1>0, Constants DEF write_body, Written, Target, Delivered, Broadcaster
<1>2. /\ \A b \in Conns : Broadcasts(b) => b = e
      /\ msg[e] \in Messages /\ Broadcasts(e)
  BY <1>1, OneBroadcaster DEF Broadcasts
<1>3. p \in Parts
  BY <1>2 DEF Parts
<1>4. /\ \A c \in Conns : Broadcasts(c)' => c = e
      /\ pc'[e] = "size" /\ \A c \in Conns \ {e} : pc'[c] = pc[c] /\ pc[c] # "body"
      /\ \A c \in Conns : pc'[c] # "body"
  BY ZenonT(60), <1>1, <1>2 DEF Broadcasts, CSTypeOK
<1>5. /\ last \in Nat /\ Len(out'[d]) = last + 1
      /\ \A k \in 1..last : k \in 1..Len(out'[d]) /\ out'[d][k] = out[d][k]
      /\ out'[d][last + 1] = p
      /\ \A k \in 1..Len(out'[d]) : k \in 1..last \/ k = last + 1
      /\ \A c \in Conns \ {d} : out'[c] = out[c]
  BY <1>0, <1>1, <1>3, AppendAt
<1>6. \A k \in 1..last : out[d][k] # p
  BY <1>1 DEF Traffic, Ahead, Target
<1>7. /\ last % 2 = 1 /\ (last + 1) % 2 = 0 /\ last \in 1..last
      /\ out[d][last] = <<"size", msg[e]>>
  <2>1. last % 2 = 1 /\ out[d][last] = <<"size", msg[e]>>
    BY <1>1 DEF Traffic, Framing
  <2>2. last \in Nat
    BY <1>5
  <2> HIDE DEF last
  <2>3. (last + 1) % 2 = 0
    BY <2>1, <2>2, Parity
  <2>4. last # 0
    <3>1. 0 % 2 # 1
      OBVIOUS
    <3> QED
      BY <2>1, <3>1
  <2>5. last \in 1..last
    BY <2>2, <2>4
  <2> QED
    BY <2>1, <2>3, <2>5
<1>8. SameOrder'
  <2>1. ASSUME NEW c \in Plain, NEW j \in 1..Len(out[c]), NEW k \in 1..Len(out[c]),
               out[c][j] = p, j < k
        PROVE  FALSE
    <3>1. out[c][j][2] = msg[e]
      BY <2>1
    <3>2. j = Len(out[c]) \/ (j + 1 = Len(out[c]) /\ out[c][j + 1] = <<"body", msg[e]>>)
      BY <1>2, <3>1 DEF Traffic, AtEnd
    <3>3. k = j + 1 /\ out[c][k] = p
      BY <1>0, <2>1, <3>2, PartTypes
    <3>4. out[c][j] = out[c][k] /\ out[c][k] = out[c][k]
      BY <2>1, <3>3
    <3>5. k < k
      BY <2>1, <3>4 DEF SameOrder, Plain
    <3> QED
      BY <3>5
  <2>2. MayFollow(d, p)
    BY <1>6, <2>1 DEF MayFollow
  <2> QED
    BY <1>0, <1>3, <2>2, OrderAppend
<1>9. FramesWhole'
  <2> SUFFICES ASSUME NEW c \in Plain, NEW k \in 1..Len(out'[c])
               PROVE  IF k % 2 = 1 THEN out'[c][k][1] = "size"
                      ELSE out'[c][k] = <<"body", out'[c][k - 1][2]>>
    BY <1>0 DEF FramesWhole, Whole, Plain
  <2>1. CASE c # d
    <3>1. out'[c] = out[c]
      BY <1>0, <1>5, <2>1
    <3>2. k \in 1..Len(out[c]) /\ Whole(c)
      BY <3>1 DEF FramesWhole, Plain
    <3> QED
      BY <3>1, <3>2 DEF Whole
  <2>2. CASE c = d /\ k \in 1..last
    <3>1. IF k % 2 = 1 THEN out[d][k][1] = "size"
          ELSE out[d][k] = <<"body", out[d][k - 1][2]>>
      BY <2>2 DEF FramesWhole, Whole, Plain
    <3>2. k % 2 # 1 => k - 1 \in 1..last
      BY <1>5, <2>2, Parity
    <3> QED
      BY <1>5, <2>2, <3>1, <3>2
  <2>3. CASE c = d /\ k = last + 1
    <3>1. k - 1 = last /\ out'[d][last] = <<"size", msg[e]>>
      BY <1>5, <1>7, <2>3
    <3>2. k % 2 # 1
      <4>1. k % 2 = 0
        BY <1>7, <2>3, Zenon
      <4> QED
        BY <4>1
    <3>3. out'[c][k - 1][2] = msg[e]
      BY SMTT(40), <2>3, <3>1
    <3> QED
      BY <1>5, <2>3, <3>2, <3>3
  <2> QED
    BY <1>5, <2>1, <2>2, <2>3
<1>10. Arrived'
  <2>1. \A c \in Conns : pc'[c] = "lock" <=> pc[c] = "lock"
    BY <1>1, <1>4
  <2> QED
    BY <1>0, <1>1, <1>2, <2>1, WriteArrived
<1>11. Framing'
  <2>1. ASSUME NEW c \in Plain, Len(out'[c]) % 2 = 1
        PROVE  conn'[c] = "gone" \/ \A f \in Fds : fdtab'[f] # c
    <3>1. c # d
      <4>1. Len(out'[d]) % 2 = 0
        BY <1>5, <1>7, Zenon
      <4>2. 0 # 1
        OBVIOUS
      <4> QED
        BY <2>1, <4>1, <4>2, Zenon
    <3>2. \/ conn[c] = "gone"
          \/ \A f \in Fds : fdtab[f] # c
          \/ \E b \in Conns : pc[b] = "body" /\ Target(b) = c
      BY <1>0, <1>5, <2>1, <3>1 DEF Traffic, Framing
    <3>3. ~ \E b \in Conns : pc[b] = "body" /\ Target(b) = c
      BY <1>1, <1>4, <3>1 DEF Target
    <3> QED
      BY <1>1, <3>2, <3>3
  <2> QED
    BY <1>0, <1>4, <2>1 DEF Framing
<1>12. AtEnd'
  <2>1. ASSUME NEW c \in Plain, NEW k \in 1..Len(out'[c]), out'[c][k][2] = msg[e]
        PROVE  \/ k = Len(out'[c])
               \/ k + 1 = Len(out'[c]) /\ out'[c][k + 1] = <<"body", msg[e]>>
    <3>1. CASE c = d /\ k \in 1..last
      <4>1. out[d][k][2] = msg[e]
        BY <1>5, <2>1, <3>1
      <4>2. k = last \/ (k + 1 = last /\ out[d][k + 1] = p)
        BY <1>2, <3>1, <4>1 DEF Traffic, AtEnd
      <4>3. k = last
        BY <1>6, <1>7, <4>2
      <4> QED
        BY <1>5, <3>1, <4>3
    <3>2. CASE c # d
      <4>1. out'[c] = out[c]
        BY <1>0, <1>5, <3>2
      <4>2. k \in 1..Len(out[c]) /\ out[c][k][2] = msg[e]
        BY <2>1, <4>1
      <4>3. \/ k = Len(out[c])
            \/ k + 1 = Len(out[c]) /\ out[c][k + 1] = <<"body", msg[e]>>
        BY <1>2, <4>2 DEF Traffic, AtEnd
      <4> QED
        BY <4>1, <4>3
    <3> QED
      BY <1>5, <2>1, <3>1, <3>2
  <2>2. msg' = msg /\ \A b \in Conns : Broadcasts(b)' => b = e
    BY <1>1, <1>4
  <2> QED
    BY <1>0, <2>1, <2>2 DEF AtEnd
<1>13. Ahead'
  <2>1. Reached(e)' = i[e] + 1 /\ i[e] \in Nat /\ Reached(e) = i[e] + 1
    BY <1>1, <1>4 DEF Reached, CSTypeOK
  <2>2. ASSUME NEW s \in Slots, s >= i[e] + 1, clients[s] # -1,
               NEW c \in Plain, fdtab[clients[s]] = c, NEW k \in 1..Len(out'[c])
        PROVE  out'[c][k][2] # msg[e]
    <3>1. s # i[e]
      BY <2>1, <2>2, Constants
    <3>2. clients[s] # clients[i[e]] /\ clients[s] \in Fds /\ clients[i[e]] \in Fds
      <4>1. clients[s] \in Fds /\ clients[i[e]] \in Fds
        BY <1>1, <2>2 DEF CSTypeOK
      <4> QED
        BY <1>1, <2>2, <3>1, <4>1 DEF Alone
    <3>3. c # d
      BY <1>0, <1>1, <2>2, <3>2, Constants DEF Descriptors
    <3>4. out'[c] = out[c]
      BY <1>0, <1>5, <3>3
    <3>5. \A k1 \in 1..Len(out[c]) : out[c][k1][2] # msg[e]
      BY <1>2, <2>1, <2>2 DEF Traffic, Ahead
    <3> QED
      BY <2>2, <3>4, <3>5
  <2>3. /\ \A b \in Conns : pc'[b] # "body" /\ (Broadcasts(b)' => b = e)
        /\ UNCHANGED <<clients, fdtab, msg>>
    BY <1>1, <1>4
  <2> QED
    BY <1>0, <2>1, <2>2, <2>3 DEF Ahead
<1> QED
  BY <1>8, <1>9, <1>10, <1>11, <1>12, <1>13 DEF Traffic

(* The write of a size that no plain client receives: the descriptor is     *)
(* closed, its peer has gone or is not a plain one.                         *)
LEMMA SizeLost ==
  ASSUME CSTypeOK, CSTypeOK', FramesWhole, SameOrder, Broadcaster, Traffic,
         NEW e \in Conns, write_size(e),
         \A c \in Plain : out'[c] = out[c], Arrived',
         Written(clients[i[e]]) /\ Target(e) \in Plain => conn[Target(e)] = "gone"
  PROVE  FramesWhole' /\ SameOrder' /\ Traffic'
<1>1. /\ pc[e] = "size" /\ i[e] \in Slots
      /\ UNCHANGED <<conn, fdtab, clients, msg, reused>>
      /\ \/ ~Written(clients[i[e]]) /\ i' = [i EXCEPT ![e] = @ + 1] /\ pc' = pc
         \/ Written(clients[i[e]]) /\ i' = i /\ pc' = [pc EXCEPT ![e] = "body"]
  BY DEF write_size
<1>2. Plain' = Plain /\ Plain \subseteq Conns /\ FramesWhole' /\ SameOrder'
  <2>1. Plain' = Plain /\ Plain \subseteq Conns
    BY <1>1 DEF Plain
  <2> QED
    BY <2>1, OutKept
<1>3. Broadcasts(e) /\ \A b \in Conns : Broadcasts(b) => b = e
  BY <1>1, OneBroadcaster DEF Broadcasts
<1>4. /\ \A b \in Conns : Broadcasts(b)' => b = e
      /\ \A b \in Conns : pc'[b] = "body" => b = e /\ Written(clients[i[e]]) /\ i' = i
      /\ \A b \in Conns : pc[b] # "body"
      /\ \A b \in Conns : pc'[b] = "lock" <=> pc[b] = "lock"
  BY ZenonT(60), <1>1, <1>3 DEF Broadcasts, CSTypeOK
<1>6. Reached(e)' = i[e] + 1 /\ Reached(e) = i[e] /\ i[e] \in Nat
  BY <1>1 DEF Reached, CSTypeOK
<1>7. \A b \in Conns : pc'[b] = "body" =>
        /\ b = e /\ Target(b)' = fdtab[clients[i[e]]]
        /\ clients[i[e]] # -1
        /\ Target(b)' \in Plain => conn[Target(b)'] = "gone"
  BY <1>1, <1>4 DEF Target, Written
<1>8. Framing'
  <2>1. ASSUME NEW c \in Plain, Len(out'[c]) % 2 = 1
        PROVE  conn'[c] = "gone" \/ \A f \in Fds : fdtab'[f] # c
    BY <1>1, <1>2, <1>4, <2>1 DEF Traffic, Framing
  <2> QED
    BY <1>1, <1>2, <1>7, <2>1 DEF Framing
<1>9. AtEnd'
  BY <1>1, <1>2, <1>3, <1>4 DEF Traffic, AtEnd
<1>10. Ahead'
  <2>1. ASSUME NEW s \in Slots, s >= i[e], clients[s] # -1,
               NEW c \in Plain, fdtab[clients[s]] = c, NEW k \in 1..Len(out[c])
        PROVE  out[c][k][2] # msg[e]
    BY <1>3, <1>6, <2>1 DEF Traffic, Ahead
  <2>2. \A s \in Slots : s >= i[e] + 1 => s >= i[e]
    BY <1>6, Constants
  <2>3. ASSUME NEW c \in Plain, pc'[e] = "body", Target(e)' = c, NEW k \in 1..Len(out[c])
        PROVE  out[c][k] # <<"body", msg[e]>>
    <3>1. i[e] \in Slots /\ i[e] >= i[e] /\ clients[i[e]] # -1 /\ fdtab[clients[i[e]]] = c
      BY <1>1, <1>6, <1>7, <2>3
    <3>2. out[c][k][2] # msg[e]
      BY <2>1, <3>1
    <3> QED
      BY <3>2
  <2>4. \A s \in Slots : s >= i[e] + 1 /\ clients'[s] # -1 =>
          \A d \in Plain : fdtab'[clients'[s]] = d =>
            \A k \in 1..Len(out'[d]) : out'[d][k][2] # msg'[e]
    <3>1. ASSUME NEW s \in Slots, s >= i[e] + 1, clients[s] # -1,
                 NEW d \in Plain, fdtab[clients[s]] = d, NEW k \in 1..Len(out'[d])
          PROVE  out'[d][k][2] # msg[e]
      <4>1. out'[d] = out[d] /\ s >= i[e]
        BY <2>2, <3>1
      <4> QED
        BY <2>1, <3>1, <4>1
    <3> QED
      BY <1>1, <3>1
  <2> QED
    BY SMTT(40), <1>1, <1>2, <1>4, <1>6, <2>3, <2>4 DEF Ahead
<1> QED
  BY <1>2, <1>8, <1>9, <1>10 DEF Traffic

(* The write of a body that no plain client receives. *)
LEMMA BodyLost ==
  ASSUME CSTypeOK, CSTypeOK', FramesWhole, SameOrder, Broadcaster, Traffic,
         NEW e \in Conns, write_body(e),
         \A c \in Plain : out'[c] = out[c], Arrived',
         Written(clients[i[e]]) /\ Target(e) \in Plain => conn[Target(e)] = "gone"
  PROVE  FramesWhole' /\ SameOrder' /\ Traffic'
<1>1. /\ pc[e] = "body" /\ i[e] \in Slots /\ clients[i[e]] # -1
      /\ i' = [i EXCEPT ![e] = @ + 1] /\ pc' = [pc EXCEPT ![e] = "size"]
      /\ UNCHANGED <<conn, fdtab, clients, msg, reused>>
  BY DEF write_body, Broadcaster
<1>2. Plain' = Plain /\ Plain \subseteq Conns /\ FramesWhole' /\ SameOrder'
  <2>1. Plain' = Plain /\ Plain \subseteq Conns
    BY <1>1 DEF Plain
  <2> QED
    BY <2>1, OutKept
<1>3. Broadcasts(e) /\ \A b \in Conns : Broadcasts(b) => b = e
  BY <1>1, OneBroadcaster DEF Broadcasts
<1>4. /\ \A b \in Conns : Broadcasts(b)' => b = e
      /\ \A b \in Conns : pc'[b] # "body" /\ (pc[b] = "body" => b = e)
      /\ \A b \in Conns : pc'[b] = "lock" <=> pc[b] = "lock"
  BY SMTT(40), <1>1, <1>3 DEF Broadcasts, CSTypeOK
<1>6. Reached(e)' = i[e] + 1 /\ Reached(e) = i[e] + 1
  BY <1>1 DEF Reached, CSTypeOK
<1>7. Framing'
  <2>1. ASSUME NEW c \in Plain, Len(out'[c]) % 2 = 1
        PROVE  conn'[c] = "gone" \/ \A f \in Fds : fdtab'[f] # c
    <3>1. \/ conn[c] = "gone"
          \/ \A f \in Fds : fdtab[f] # c
          \/ \E b \in Conns : pc[b] = "body" /\ Target(b) = c
      BY <2>1 DEF Traffic, Framing
    <3>2. CASE Target(e) = c
      BY <1>1, <1>2, <3>2, Constants DEF Written, Target
    <3> QED
      BY <1>1, <1>4, <3>1, <3>2
  <2> QED
    BY <1>1, <1>2, <1>4, <2>1 DEF Framing
<1>8. AtEnd'
  BY <1>1, <1>2, <1>3, <1>4 DEF Traffic, AtEnd
<1>9. Ahead'
  <2>1. \A s \in Slots : s >= i[e] + 1 /\ clients'[s] # -1 =>
          \A d \in Plain : fdtab'[clients'[s]] = d =>
            \A k \in 1..Len(out'[d]) : out'[d][k][2] # msg'[e]
    BY <1>1, <1>2, <1>3, <1>6 DEF Traffic, Ahead
  <2> QED
    BY <1>2, <1>4, <1>6, <2>1 DEF Ahead
<1> QED
  BY <1>2, <1>7, <1>8, <1>9 DEF Traffic

LEMMA WriteTraffic ==
  ASSUME CSTypeOK, CSTypeOK', FramesWhole, SameOrder, Table, Traffic,
         NEW e \in Conns, write_size(e) \/ write_body(e)
  PROVE  FramesWhole' /\ SameOrder' /\ Traffic'
<1> DEFINE f == clients[i[e]]
<1>1. Descriptors /\ Alone /\ Broadcaster
  BY DEF Table
<1>2. i[e] \in Slots /\ Broadcasts(e) /\ f \in Fds \cup {-1}
  BY <1>1 DEF write_size, write_body, Broadcaster, Broadcasts, CSTypeOK
<1>3. /\ Target(e) = fdtab[f]
      /\ Written(f) => Target(e) \in Conns
  BY <1>2 DEF Written, Target, CSTypeOK
<1>4. PICK part \in {"size", "body"} :
        /\ write(f, <<part, msg[e]>>)
        /\ write_size(e) => part = "size"
        /\ write_body(e) => part = "body"
  <2>1. write_size(e) => ~write_body(e)
    BY DEF write_size, write_body
  <2> QED
    BY <2>1 DEF write_size, write_body
<1> HIDE DEF f
<1>5. CASE Written(f) /\ conn[Target(e)] # "gone"
  <2>1. Delivered(Target(e), <<part, msg[e]>>)
    BY <1>3, <1>4, <1>5, WriteCases
  <2>2. CASE Target(e) \in Plain
    <3>1. CASE write_size(e)
      BY <1>1, <1>4, <1>5, <2>1, <2>2, <3>1, SizeDelivered DEF f
    <3>2. CASE write_body(e)
      BY <1>1, <1>4, <1>5, <2>1, <2>2, <3>2, BodyDelivered DEF f
    <3> QED
      BY <3>1, <3>2
  <2>3. CASE Target(e) \notin Plain
    <3>1. \A c \in Plain : out'[c] = out[c]
      BY <2>1, <2>3, Constants DEF Delivered, CSTypeOK
    <3>2. Arrived'
      <4>1. /\ msg' = msg
            /\ \A c \in Conns : pc'[c] = "lock" <=> pc[c] = "lock"
        BY DEF write_size, write_body, CSTypeOK
      <4> QED
        BY <1>1, <1>2, <1>3, <1>5, <2>1, <4>1, WriteArrived DEF Delivered
    <3> QED
      BY <1>1, <2>3, <3>1, <3>2, SizeLost, BodyLost
  <2> QED
    BY <2>2, <2>3
<1>6. CASE ~(Written(f) /\ conn[Target(e)] # "gone")
  <2>1. out' = out
    BY <1>3, <1>4, <1>6, WriteCases DEF Undelivered, Refused
  <2>2. Arrived'
    <3>1. /\ msg' = msg
          /\ \A c \in Conns : pc'[c] = "lock" <=> pc[c] = "lock"
      BY DEF write_size, write_body, CSTypeOK
    <3> QED
      BY <1>1, <1>2, <2>1, <3>1, WriteArrived
  <2> QED
    BY <1>1, <1>6, <2>1, <2>2, SizeLost, BodyLost DEF f
<1> QED
  BY <1>5, <1>6

-----------------------------------------------------------------------------
(* The tables of the server and of the kernel *)

LEMMA DescriptorsKept ==
  ASSUME CSTypeOK, CSTypeOK', Descriptors,
         \A f \in Fds : fdtab'[f] \in {fdtab[f], NULL},
         \A c \in Conns : conn[c] \in {"open", "gone"} => conn'[c] \in {"open", "gone"},
         \A c \in Conns : conn[c] = "off" =>
           pc'[c] = pc[c] /\ out'[c] = out[c]
  PROVE  Descriptors'
<1>1. \A f, g \in Fds : fdtab'[f] = fdtab'[g] /\ fdtab'[f] # NULL => f = g
  BY DEF Descriptors
<1>2. \A f \in Fds : fdtab'[f] # NULL => conn'[fdtab'[f]] \in {"open", "gone"}
  BY DEF Descriptors, CSTypeOK
<1>3. \A c \in Conns : conn'[c] = "off" => pc'[c] = "none" /\ out'[c] = <<>>
  BY ZenonT(60) DEF Descriptors, CSTypeOK
<1> QED
  BY <1>1, <1>2, <1>3 DEF Descriptors

LEMMA SlotsKept ==
  ASSUME CSTypeOK, SlotsOwned, UNCHANGED <<fdtab, clients, slot, clientsCount>>,
         \A c \in Conns : (Active(c)' <=> Active(c)) /\ (Serving(c)' => Serving(c)),
         main = "exited" => main' = "exited"
  PROVE  SlotsOwned'
<1>1. Used' = Used /\ \A c \in Conns : Peer(slot[c])' = Peer(slot[c])
  BY DEF Used, Peer
<1>2. \A c \in Conns : Serving(c)' => Peer(slot[c])' = c \/ main' = "exited"
  BY <1>1 DEF SlotsOwned
<1> QED
  BY <1>1, <1>2 DEF SlotsOwned

LEMMA AloneKept ==
  ASSUME CSTypeOK, Alone, Plain' \subseteq Plain,
         \A f \in Fds : fdtab'[f] \in {fdtab[f], NULL},
         \A s \in Slots : clients'[s] \in {clients[s], -1}
  PROVE  Alone'
<1>1. \A f \in Fds : fdtab'[f] \in Plain' => fdtab[f] \in Plain
  BY Constants
<1>2. ASSUME NEW f \in Fds, NEW s \in Slots, clients'[s] = f PROVE clients[s] = f
  BY <1>2, Constants
<1> QED
  BY <1>1, <1>2 DEF Alone

(* A step of a thread between having its slot and closing its connection. *)
LEMMA InnerStep ==
  ASSUME CSTypeOK, CSTypeOK', Table, NEW e \in Conns,
         UNCHANGED <<conn, fdtab, main, client_fd, endSession, clientsCount, clients, slot,
                     reused>>,
         Serving(e), Serving(e)', pc' = [pc EXCEPT ![e] = pc'[e]],
         \A c \in Conns : conn[c] = "off" => out'[c] = out[c]
  PROVE  Descriptors' /\ SlotsOwned' /\ Alone' /\ Admission'
<1>1. /\ \A c \in Conns \ {e} : pc'[c] = pc[c]
      /\ pc[e] # "none" /\ pc'[e] \notin {"none", "release", "done"}
  BY DEF CSTypeOK, Serving, Active
<1>2. Descriptors'
  BY <1>1, DescriptorsKept DEF Table, Descriptors
<1>3. \A c \in Conns : (Active(c)' <=> Active(c)) /\ (Serving(c)' => Serving(c))
  BY <1>1 DEF Active, Serving
<1>4. SlotsOwned'
  BY <1>3, SlotsKept DEF Table
<1>5. Plain' = Plain
  BY DEF Plain
<1>6. Alone'
  BY <1>5, AloneKept DEF Table
<1>7. Admission'
  <2>1. main = "admit" /\ client_fd # -1 => fdtab[client_fd] \in Conns
    BY DEF Table, Admission, CSTypeOK
  <2> QED
    BY <1>1, <1>5, <2>1 DEF Table, Admission
<1> QED
  BY <1>2, <1>4, <1>6, <1>7

LEMMA LoopTable ==
  ASSUME CSTypeOK, CSTypeOK', Table, NEW e \in Conns, loop(e) \/ finish(e) \/ receive(e)
  PROVE  Table'
<1>1. /\ pc[e] \in {"loop", "read"} /\ pc'[e] \in {"read", "close", "lock"}
      /\ pc' = [pc EXCEPT ![e] = pc'[e]]
      /\ UNCHANGED <<conn, fdtab, main, client_fd, endSession, clientsCount, clients, slot,
                     mutex, i, out, reused>>
  BY DEF loop, finish, receive, net, CSTypeOK
<1>2. Serving(e) /\ Serving(e)'
  BY <1>1 DEF Serving, Active
<1>4. Descriptors' /\ SlotsOwned' /\ Alone' /\ Admission'
  BY <1>1, <1>2, InnerStep
<1>5. Broadcaster'
  <2>1. \A c \in Conns : Broadcasts(c)' <=> Broadcasts(c)
    BY <1>1 DEF Broadcasts, CSTypeOK
  <2>2. \A c \in Conns : pc'[c] = "body" => pc[c] = "body"
    BY <1>1 DEF CSTypeOK
  <2>3. /\ \A c \in Conns : msg'[c] # NULL => msg'[c][1] = c
        /\ \A c \in Conns : pc'[c] = "lock" \/ Broadcasts(c)' => msg'[c] # NULL
    <3>0. /\ \A c \in Conns : msg[c] # NULL => msg[c][1] = c
          /\ \A c \in Conns \ {e} : pc'[c] = "lock" \/ Broadcasts(c)' => msg[c] # NULL
      BY <1>1, <2>1 DEF Table, Broadcaster, CSTypeOK
    <3>1. CASE receive(e)
      <4>1. Got(e) \in Nat
        BY DEF Got, CSTypeOK, Messages
      <4>2. <<e, Got(e) + 1>> \in Messages
        BY <4>1 DEF Messages
      <4>3. msg'[e] = <<e, Got(e) + 1>> /\ \A c \in Conns \ {e} : msg'[c] = msg[c]
        BY <3>1 DEF receive, CSTypeOK
      <4>4. msg'[e] # NULL /\ msg'[e][1] = e
        BY <4>2, <4>3, Constants
      <4> QED
        BY <3>0, <4>3, <4>4
    <3>2. CASE loop(e) \/ finish(e)
      <4>1. msg' = msg /\ pc'[e] # "lock"
        BY <3>2 DEF loop, finish, CSTypeOK
      <4>2. ~Broadcasts(e)'
        BY <1>1 DEF Broadcasts
      <4> QED
        BY <3>0, <4>1, <4>2
    <3> QED
      BY <3>1, <3>2
  <2> QED
    BY <1>1, <2>1, <2>2, <2>3 DEF Table, Broadcaster
<1> QED
  BY <1>4, <1>5 DEF Table

LEMMA WriteTable ==
  ASSUME CSTypeOK, CSTypeOK', Table, NEW e \in Conns,
         lock(e) \/ write_size(e) \/ write_body(e) \/ unlock(e)
  PROVE  Table'
<1>1. /\ pc[e] \in {"lock", "size", "body"} /\ pc'[e] \in {"size", "body", "loop"}
      /\ pc' = [pc EXCEPT ![e] = pc'[e]]
      /\ UNCHANGED <<conn, fdtab, main, client_fd, endSession, clientsCount, clients, slot,
                     msg, reused>>
  BY SMTT(40) DEF lock, write_size, write_body, unlock, net, CSTypeOK
<1>2. Serving(e) /\ Serving(e)'
  BY <1>1 DEF Serving, Active
<1>3. \A c \in Conns : conn[c] = "off" => out'[c] = out[c]
  <2>1. ASSUME NEW f, NEW part, write(f, part), f \in Fds \cup {-1}
        PROVE  \A c \in Conns : conn[c] = "off" => out'[c] = out[c]
    <3>1. CASE out' = out
      BY <3>1
    <3>2. CASE Written(f) /\ Delivered(fdtab[f], part)
      <4>1. \A c \in Conns : conn[c] = "off" => c # fdtab[f]
        BY <2>1, <3>2 DEF Written, Table, Descriptors
      <4> QED
        BY <3>2, <4>1 DEF Delivered, CSTypeOK
    <3> QED
      BY <2>1, <3>1, <3>2, WriteCases DEF Undelivered, Refused
  <2>2. CASE write_size(e) \/ write_body(e)
    <3>1. i[e] \in Slots
      BY <2>2 DEF write_size, write_body, Table, Broadcaster
    <3>2. clients[i[e]] \in Fds \cup {-1}
      BY <3>1 DEF CSTypeOK
    <3> QED
      BY <2>1, <2>2, <3>2 DEF write_size, write_body
  <2>3. CASE lock(e) \/ unlock(e)
    BY <2>3 DEF lock, unlock, net
  <2> QED
    BY <2>2, <2>3
<1>4. Descriptors' /\ SlotsOwned' /\ Alone' /\ Admission'
  BY <1>1, <1>2, <1>3, InnerStep
<1>5. \A c \in Conns \ {e} : pc'[c] = pc[c] /\ i'[c] = i[c]
  BY ZenonT(60), <1>1 DEF lock, write_size, write_body, unlock, CSTypeOK
<1>6. \A c \in Conns : mutex' = c <=> Broadcasts(c)'
  <2>1. CASE lock(e)
    <3>1. mutex = NULL /\ mutex' = e /\ pc'[e] = "size"
      BY <2>1 DEF lock, CSTypeOK
    <3> QED
      BY <1>5, <3>1, Constants DEF Table, Broadcaster, Broadcasts
  <2>2. CASE unlock(e)
    <3>1. pc[e] = "size" /\ mutex' = NULL /\ pc'[e] = "loop"
      BY <2>2 DEF unlock, CSTypeOK
    <3>2. mutex = e
      BY <3>1 DEF Table, Broadcaster, Broadcasts
    <3> QED
      BY <1>5, <3>1, <3>2, Constants DEF Table, Broadcaster, Broadcasts
  <2>3. CASE write_size(e) \/ write_body(e)
    <3>1. mutex' = mutex /\ Broadcasts(e) /\ pc'[e] \in {"size", "body"}
      BY <2>3 DEF write_size, write_body, Broadcasts, CSTypeOK
    <3> QED
      BY <1>5, <3>1 DEF Table, Broadcaster, Broadcasts
  <2> QED
    BY <2>1, <2>2, <2>3
<1>7. pc'[e] = "body" => i'[e] \in Slots /\ clients'[i'[e]] # -1
  BY DEF lock, write_size, write_body, unlock, CSTypeOK, Written
<1>8. Broadcaster'
  BY <1>1, <1>5, <1>6, <1>7 DEF Table, Broadcaster, Broadcasts
<1> QED
  BY <1>4, <1>8 DEF Table

LEMMA BroadcasterKept ==
  ASSUME CSTypeOK, Broadcaster, UNCHANGED <<mutex, msg, i>>,
         \A c \in Conns : /\ Broadcasts(c)' <=> Broadcasts(c)
                          /\ pc'[c] = "body" => pc[c] = "body"
                          /\ pc'[c] = "lock" => pc[c] = "lock",
         (\E c \in Conns : Broadcasts(c)) => clients' = clients
  PROVE  Broadcaster'
<1>1. \A c \in Conns : pc'[c] = "body" => Broadcasts(c) /\ pc[c] = "body" /\ clients' = clients
  BY DEF Broadcasts
<1> QED
  BY <1>1 DEF Broadcaster

(* A thread closes its connection; nobody else's has the same descriptor,   *)
(* as long as main has not closed them all.                                 *)
LEMMA CloseTable ==
  ASSUME CSTypeOK, CSTypeOK', Table, NEW e \in Conns, close(e)
  PROVE  Table' /\ \A f \in Fds : fdtab'[f] \in {fdtab[f], NULL}
<1> DEFINE f0 == clients[slot[e]]
<1>1. /\ pc[e] = "close" /\ pc' = [pc EXCEPT ![e] = "release"]
      /\ UNCHANGED <<conn, main, client_fd, endSession, clientsCount, clients, mutex,
                     slot, msg, i, out, reused>>
  BY DEF close
<1>2. slot[e] \in Slots /\ f0 # -1 /\ f0 \in Fds /\ Active(e)
  BY <1>1 DEF Table, SlotsOwned, Active, CSTypeOK
<1>3. fdtab' = [fdtab EXCEPT ![f0] = NULL]
  BY <1>2 DEF close
<1>4. \A f \in Fds : /\ fdtab'[f] \in {fdtab[f], NULL}
                     /\ f # f0 => fdtab'[f] = fdtab[f]
  BY <1>3 DEF CSTypeOK
<1>5. pc'[e] = "release" /\ \A c \in Conns \ {e} : pc'[c] = pc[c]
  BY <1>1 DEF CSTypeOK
<1>6. fdtab[f0] = e \/ main = "exited"
  <2>1. Serving(e)
    BY <1>1 DEF Serving, Active
  <2> QED
    BY <1>2, <2>1 DEF Table, SlotsOwned, Peer
<1>7. Descriptors'
  BY <1>1, <1>4, <1>5, DescriptorsKept DEF Table, Descriptors
<1>8. SlotsOwned'
  <2>1. \A c \in Conns : (Active(c)' <=> Active(c)) /\ (Serving(c)' => Serving(c) /\ c # e)
    BY <1>1, <1>5 DEF Active, Serving
  <2>2. ASSUME NEW c \in Conns, Serving(c)', main' # "exited" PROVE Peer(slot[c])' = c
    <3>1. Active(c) /\ c # e /\ Peer(slot[c]) = c
      BY <1>1, <2>1, <2>2 DEF Serving, Table, SlotsOwned
    <3>2. slot[c] \in Slots /\ clients[slot[c]] # -1 /\ clients[slot[c]] \in Fds
      BY <1>2, <3>1 DEF Table, SlotsOwned, CSTypeOK
    <3>3. clients[slot[c]] # f0
      BY <1>1, <1>6, <2>2, <3>1, <3>2 DEF Peer
    <3> QED
      BY <1>1, <1>4, <3>1, <3>2, <3>3 DEF Peer
  <2>3. Used' = Used
    BY <1>1 DEF Used
  <2> QED
    BY <1>1, <2>1, <2>2, <2>3 DEF Table, SlotsOwned
<1>9. Admission'
  <2>1. ASSUME main = "admit", client_fd # -1
        PROVE  fdtab'[client_fd] = fdtab[client_fd] /\ fdtab[client_fd] # e
    <3>1. client_fd \in Fds /\ pc[fdtab[client_fd]] = "none"
      BY <2>1 DEF Table, Admission, CSTypeOK
    <3>2. fdtab[client_fd] # e
      BY <1>1, <3>1
    <3>3. f0 # client_fd
      BY <1>6, <2>1, <3>2
    <3> QED
      BY <1>4, <3>1, <3>2, <3>3
  <2>2. client_fd # -1 => fdtab[client_fd] \in Conns \cup {NULL}
    BY DEF CSTypeOK
  <2> QED
    BY <1>1, <1>5, <2>1, <2>2 DEF Table, Admission, Plain
<1>10. Alone'
  <2>1. Plain' = Plain
    BY <1>1 DEF Plain
  <2> QED
    BY <1>1, <1>4, <2>1, AloneKept DEF Table
<1>11. Broadcaster'
  <2>1. \A c \in Conns : /\ Broadcasts(c)' <=> Broadcasts(c)
                         /\ pc'[c] = "body" => pc[c] = "body"
                         /\ pc'[c] = "lock" => pc[c] = "lock"
    BY <1>1, <1>5 DEF Broadcasts
  <2> QED
    BY <1>1, <2>1, BroadcasterKept DEF Table
<1> QED
  BY <1>4, <1>7, <1>8, <1>9, <1>10, <1>11 DEF Table

(* A thread gives its slot back. *)
LEMMA ReleaseTable ==
  ASSUME CSTypeOK, CSTypeOK', Table, NEW e \in Conns, release(e)
  PROVE  Table'
<1>1. /\ pc[e] = "release" /\ mutex = NULL
      /\ clients' = [clients EXCEPT ![slot[e]] = -1]
      /\ clientsCount' = clientsCount - 1
      /\ pc' = [pc EXCEPT ![e] = "done"]
      /\ UNCHANGED <<conn, fdtab, out, main, client_fd, endSession, mutex, slot, msg, i,
                     reused>>
  BY DEF release, net
<1>2. slot[e] \in Slots /\ clients[slot[e]] # -1 /\ clients[slot[e]] \in Fds /\ Active(e)
  BY <1>1 DEF Table, SlotsOwned, Active, CSTypeOK
<1>3. pc'[e] = "done" /\ \A c \in Conns \ {e} : pc'[c] = pc[c]
  BY <1>1 DEF CSTypeOK
<1>4. clients'[slot[e]] = -1 /\ \A s \in Slots \ {slot[e]} : clients'[s] = clients[s]
  BY <1>1, <1>2 DEF CSTypeOK
<1>6. Descriptors'
  BY <1>1, <1>3, DescriptorsKept DEF Table, Descriptors
<1>7. SlotsOwned'
  <2>1. \A c \in Conns : /\ Active(c)' => Active(c) /\ c # e
                         /\ Serving(c)' => Serving(c) /\ c # e
    BY <1>1, <1>3 DEF Active, Serving
  <2>2. ASSUME NEW c \in Conns, Active(c)'
        PROVE  slot[c] \in Slots /\ slot[c] # slot[e] /\ clients'[slot[c]] = clients[slot[c]]
               /\ clients[slot[c]] # -1
    <3>1. Active(c) /\ c # e
      BY <2>1, <2>2
    <3>2. slot[c] \in Slots /\ clients[slot[c]] # -1 /\ slot[c] # slot[e]
      BY <1>2, <3>1 DEF Table, SlotsOwned
    <3> QED
      BY <1>4, <3>2
  <2>3. ASSUME NEW c \in Conns, Serving(c)', main' # "exited" PROVE Peer(slot[c])' = c
    <3>1. Active(c)' /\ Peer(slot[c]) = c
      BY <1>1, <2>1, <2>3 DEF Serving, Table, SlotsOwned
    <3> QED
      BY <1>1, <2>2, <3>1 DEF Peer
  <2>4. clientsCount' = Cardinality(Used')
    <3>1. Cardinality(Used') = Cardinality(Used) - 1
      BY <1>1, <1>2, UsedSlots
    <3> QED
      BY <1>1, <3>1 DEF Table, SlotsOwned
  <2>5. ASSUME NEW s \in Slots, clients'[s] # -1
        PROVE  \E c \in Conns : Active(c)' /\ slot'[c] = s
    <3>1. s # slot[e] /\ clients[s] # -1
      BY <1>4, <2>5
    <3>2. PICK c \in Conns : Active(c) /\ slot[c] = s
      BY <3>1 DEF Table, SlotsOwned
    <3>3. c # e /\ pc'[c] = pc[c]
      BY <1>3, <3>1, <3>2
    <3> QED
      BY <1>1, <3>2, <3>3 DEF Active
  <2>6. \A b, c \in Conns : Active(b)' /\ Active(c)' /\ slot'[b] = slot'[c] => b = c
    BY <1>1, <2>1 DEF Table, SlotsOwned
  <2> QED
    BY <1>1, <2>2, <2>3, <2>4, <2>5, <2>6 DEF SlotsOwned
<1>8. Admission'
  <2>1. main = "admit" /\ client_fd # -1 => fdtab[client_fd] \in Conns /\ fdtab[client_fd] # e
    BY <1>1 DEF Table, Admission, CSTypeOK
  <2> QED
    BY <1>1, <1>3, <1>4, <2>1 DEF Table, Admission, Plain
<1>9. Alone'
  <2>1. Plain' = Plain /\ \A f \in Fds : fdtab'[f] = fdtab[f]
    BY <1>1 DEF Plain
  <2>2. \A s \in Slots : clients'[s] \in {clients[s], -1}
    BY <1>4
  <2> QED
    BY <2>1, <2>2, AloneKept DEF Table
<1>10. \A c \in Conns : ~Broadcasts(c)
  BY <1>1, Constants DEF Table, Broadcaster
<1>11. Broadcaster'
  <2>1. \A c \in Conns : /\ Broadcasts(c)' <=> Broadcasts(c)
                         /\ pc'[c] = "body" => pc[c] = "body"
                         /\ pc'[c] = "lock" => pc[c] = "lock"
    BY <1>1, <1>3 DEF Broadcasts
  <2> QED
    BY <1>1, <1>10, <2>1, BroadcasterKept DEF Table
<1> QED
  BY <1>6, <1>7, <1>8, <1>9, <1>11 DEF Table

(* A client connects, sends, stops reading or leaves, or the user           *)
(* interrupts: nothing of the server's own tables changes.                  *)
LEMMA OutsideTable ==
  ASSUME CSTypeOK, CSTypeOK', Table,
         (\E c \in Conns : Outside(c)) \/ close_server
  PROVE  Table'
<1>1. \/ UNCHANGED <<fdtab, out, clientsCount, clients, mutex, pc, slot, msg, i, main,
                      reused>>
      \/ /\ UNCHANGED <<fdtab, out, clientsCount, clients, mutex, pc, slot, msg, i, reused>>
         /\ main = "accept" /\ main' = "admit" /\ client_fd' = -1 /\ endSession' = 1
  BY DEF Outside, Send, Disconnect, Stall, Resume, close_server, net, server, thread
<1>2. /\ UNCHANGED <<fdtab, out, clientsCount, clients, mutex, pc, slot, msg, i>>
      /\ Plain' = Plain
      /\ main = "exited" <=> main' = "exited"
  BY <1>1 DEF Plain
<1>3. SlotsOwned'
  BY <1>2, SlotsKept DEF Table, Active, Serving
<1>4. Broadcaster' /\ Alone'
  BY <1>2, BroadcasterKept, AloneKept DEF Table, Broadcasts
<1>5. ASSUME NEW c \in Conns, Outside(c) PROVE Descriptors' /\ Admission'
  <2>1. /\ UNCHANGED <<main, client_fd, endSession>>
        /\ \/ conn' = conn
           \/ conn[c] = "open" /\ conn' = [conn EXCEPT ![c] = "gone"]
    BY <1>5 DEF Outside, Send, Disconnect, Stall, Resume, server
  <2>2. \A d \in Conns : conn[d] \in {"open", "gone"} => conn'[d] \in {"open", "gone"}
    BY <2>1 DEF CSTypeOK
  <2>3. Descriptors'
    BY <1>2, <2>2, DescriptorsKept DEF Table
  <2>4. Admission'
    BY <1>2, <2>1 DEF Table, Admission
  <2> QED
    BY <2>3, <2>4
<1>6. ASSUME close_server PROVE Descriptors' /\ Admission'
  <2>1. /\ conn' = conn /\ endSession' = 1
        /\ client_fd' = -1 \/ UNCHANGED <<client_fd, main>>
    BY <1>6 DEF close_server, net
  <2>2. Descriptors'
    BY <1>2, <2>1, DescriptorsKept DEF Table
  <2>3. Admission'
    BY <1>2, <2>1 DEF Table, Admission
  <2> QED
    BY <2>2, <2>3
<1> QED
  BY <1>3, <1>4, <1>5, <1>6 DEF Table

(* A connection is accepted: its descriptor is nobody's connection's.       *)
LEMMA AcceptTable ==
  ASSUME CSTypeOK, CSTypeOK', Table, NEW e \in Conns, accept(e)
  PROVE  Table'
<1>1. /\ conn[e] = "off" /\ conn' = [conn EXCEPT ![e] = "open"]
      /\ fdtab' = [fdtab EXCEPT ![FreeFd] = e]
      /\ client_fd' = FreeFd /\ main = "accept" /\ main' = "admit"
      /\ UNCHANGED <<endSession, clientsCount, clients, mutex, pc, slot, msg, i, out>>
      /\ reused' = IF \E s \in Slots : clients[s] = FreeFd THEN reused \cup {e} ELSE reused
  BY DEF accept, thread
<1>2. FreeFd \in Fds /\ fdtab[FreeFd] = NULL /\ FreeFd # -1
  BY FreeFdFree, Constants DEF Table
<1>3. fdtab'[FreeFd] = e /\ \A f \in Fds \ {FreeFd} : fdtab'[f] = fdtab[f]
  BY <1>1, <1>2 DEF CSTypeOK
<1>4. conn'[e] = "open" /\ \A c \in Conns \ {e} : conn'[c] = conn[c]
  BY <1>1 DEF CSTypeOK
<1>5. /\ Plain' \subseteq Plain
      /\ e \in Plain' => \A s \in Slots : clients[s] # FreeFd
  BY <1>1 DEF Plain
<1>9. pc[e] = "none"
  BY <1>1 DEF Table, Descriptors
<1>10. Descriptors'
  <2>1. \A f \in Fds : fdtab[f] # e
    BY <1>1, Constants DEF Table, Descriptors
  <2>2. \A f, g \in Fds : fdtab'[f] = fdtab'[g] /\ fdtab'[f] # NULL => f = g
    BY <1>3, <2>1 DEF Table, Descriptors
  <2>3. ASSUME NEW f \in Fds, fdtab'[f] # NULL PROVE conn'[fdtab'[f]] \in {"open", "gone"}
    <3>1. CASE f = FreeFd
      BY <1>3, <1>4, <3>1
    <3>2. CASE f # FreeFd
      <4>1. fdtab'[f] = fdtab[f] /\ fdtab[f] \in Conns /\ fdtab[f] # e
        BY <1>3, <2>1, <2>3, <3>2 DEF CSTypeOK
      <4> QED
        BY <1>4, <2>3, <4>1 DEF Table, Descriptors
    <3> QED
      BY <3>1, <3>2
  <2>4. \A c \in Conns : conn'[c] = "off" => pc'[c] = "none" /\ out'[c] = <<>>
    BY <1>1, <1>4 DEF Table, Descriptors
  <2> QED
    BY <2>2, <2>3, <2>4 DEF Descriptors
<1>11. SlotsOwned'
  <2>1. Used' = Used
    BY <1>1 DEF Used
  <2>2. \A c \in Conns : (Active(c)' <=> Active(c)) /\ (Serving(c)' <=> Serving(c))
    BY <1>1 DEF Active, Serving
  <2>3. ASSUME NEW c \in Conns, Serving(c) PROVE Peer(slot[c])' = c
    <3>1. Active(c) /\ Peer(slot[c]) = c
      BY <1>1, <2>3 DEF Serving, Table, SlotsOwned
    <3>2. clients[slot[c]] \in Fds /\ fdtab[clients[slot[c]]] = c
      BY <3>1, Constants DEF Table, SlotsOwned, CSTypeOK, Peer
    <3>3. clients[slot[c]] # FreeFd
      BY <1>2, <3>2, Constants
    <3> QED
      BY <1>1, <1>3, <3>1, <3>2, <3>3 DEF Peer
  <2> QED
    BY <1>1, <2>1, <2>2, <2>3 DEF Table, SlotsOwned
<1>12. Admission'
  <2>1. main' = "admit" /\ client_fd' = FreeFd /\ fdtab'[client_fd'] = e
    BY <1>1, <1>3
  <2>2. e # NULL /\ pc'[e] = "none" /\ clients' = clients
    BY <1>1, <1>9, Constants
  <2>3. endSession' = 0 => main' = "admit" /\ client_fd' # -1
    BY <1>2, <2>1
  <2> QED
    BY <1>5, <2>1, <2>2, <2>3 DEF Admission
<1>13. Alone'
  <2>1. ASSUME NEW f \in Fds, fdtab'[f] \in Plain', NEW s \in Slots, NEW r \in Slots,
               clients'[s] = f, clients'[r] = f
        PROVE  s = r
    <3>1. clients[s] = f /\ clients[r] = f
      BY <1>1, <2>1
    <3>2. f # FreeFd
      BY <1>3, <1>5, <2>1, <3>1
    <3>3. fdtab[f] \in Plain
      BY <1>3, <1>5, <2>1, <3>2
    <3> QED
      BY <3>1, <3>3 DEF Table, Alone
  <2> QED
    BY <2>1 DEF Alone
<1>14. Broadcaster'
  BY <1>1, BroadcasterKept DEF Table, Broadcasts
<1> QED
  BY <1>10, <1>11, <1>12, <1>13, <1>14 DEF Table

(* main takes a slot for the connection, or undoes an interrupted accept.   *)
LEMMA AdmitTable ==
  ASSUME CSTypeOK, CSTypeOK', Table, admit, fate = "alive", fate' # "undefined"
  PROVE  Table'
<1>1. UNCHANGED <<conn, client_fd, endSession, mutex, msg, i, out, reused>>
      /\ Plain' = Plain /\ main = "admit" /\ mutex = NULL
  BY DEF admit, Plain
<1>2. ~(clientsCount > MAX_CLIENTS)
  BY UsedSlots, ChatAssumption DEF Table, SlotsOwned
<1> DEFINE s0 == find_free_client
<1>3. /\ s0 # -1 /\ clients' = [clients EXCEPT ![s0] = client_fd]
      /\ clientsCount' = IF client_fd = -1 THEN clientsCount ELSE clientsCount + 1
      /\ IF client_fd = -1 THEN UNCHANGED <<pc, slot>>
         ELSE /\ pc' = [pc EXCEPT ![fdtab[client_fd]] = "loop"]
              /\ slot' = [slot EXCEPT ![fdtab[client_fd]] = s0]
      /\ main' = "check" /\ fdtab' = fdtab
  BY <1>2 DEF admit
<1>4. s0 \in Slots /\ clients[s0] = -1
  BY <1>3, FreeSlot
<1> HIDE DEF s0
<1>5. \A c \in Conns : ~Broadcasts(c)
  BY <1>1, Constants DEF Table, Broadcaster
<1>6. CASE client_fd = -1
  <2>1. clients' = clients
    BY <1>3, <1>4, <1>6 DEF CSTypeOK
  <2>2. UNCHANGED <<clientsCount, pc, slot>>
    BY <1>3, <1>6
  <2>3. Descriptors'
    BY <1>1, <1>3, <2>2 DEF Table, Descriptors
  <2>4. SlotsOwned'
    BY <1>1, <1>3, <2>1, <2>2, SlotsKept DEF Table, Active, Serving
  <2>5. Admission'
    BY <1>3 DEF Admission
  <2>6. Alone'
    BY <1>1, <1>3, <2>1, AloneKept DEF Table
  <2>7. Broadcaster'
    BY <1>1, <2>1, <2>2, BroadcasterKept DEF Table, Broadcasts
  <2> QED
    BY <2>3, <2>4, <2>5, <2>6, <2>7 DEF Table
<1>7. CASE client_fd # -1
  <2> DEFINE c0 == fdtab[client_fd]
  <2>1. /\ client_fd \in Fds /\ c0 \in Conns /\ pc[c0] = "none"
        /\ c0 \in Plain => \A s \in Slots : clients[s] # client_fd
    BY <1>1, <1>7 DEF Table, Admission, CSTypeOK
  <2>2. conn[c0] \in {"open", "gone"}
    BY <2>1, Constants DEF Table, Descriptors
  <2> HIDE DEF c0
  <2>3. pc' = [pc EXCEPT ![c0] = "loop"] /\ slot' = [slot EXCEPT ![c0] = s0]
    BY <1>3, <1>7 DEF c0
  <2>4. /\ pc'[c0] = "loop" /\ slot'[c0] = s0
        /\ \A c \in Conns \ {c0} : pc'[c] = pc[c] /\ slot'[c] = slot[c]
    BY <2>1, <2>3 DEF CSTypeOK
  <2>5. clients'[s0] = client_fd /\ \A s \in Slots \ {s0} : clients'[s] = clients[s]
    BY <1>3, <1>4 DEF CSTypeOK
  <2>6. Descriptors'
    BY <1>1, <1>3, <2>2, <2>4, DescriptorsKept DEF Table
  <2>7. SlotsOwned'
    <3>1. \A c \in Conns \ {c0} : (Active(c)' <=> Active(c)) /\ (Serving(c)' <=> Serving(c))
      BY <2>4 DEF Active, Serving
    <3>2. ASSUME NEW c \in Conns \ {c0}, Active(c)'
          PROVE  /\ slot'[c] = slot[c] /\ slot[c] \in Slots /\ slot[c] # s0
                 /\ clients'[slot[c]] = clients[slot[c]] /\ clients[slot[c]] # -1
      <4>1. slot[c] \in Slots /\ clients[slot[c]] # -1
        BY <3>1, <3>2 DEF Table, SlotsOwned
      <4> QED
        BY <1>4, <2>4, <2>5, <4>1
    <3>3. ASSUME NEW s \in Slots, clients'[s] # -1
          PROVE  \E c \in Conns : Active(c)' /\ slot'[c] = s
      <4>1. CASE s = s0
        BY <2>1, <2>4, <4>1 DEF Active
      <4>2. CASE s # s0
        <5>1. PICK c \in Conns : Active(c) /\ slot[c] = s
          BY <2>5, <3>3, <4>2 DEF Table, SlotsOwned
        <5>2. c # c0
          BY <2>1, <5>1 DEF Active
        <5> QED
          BY <2>4, <3>1, <5>1, <5>2
      <4> QED
        BY <4>1, <4>2
    <3>4. \A c \in Conns : Active(c)' => slot'[c] \in Slots /\ clients'[slot'[c]] # -1
      BY <1>4, <1>7, <2>4, <2>5, <3>2
    <3>5. \A b, c \in Conns : Active(b)' /\ Active(c)' /\ slot'[b] = slot'[c] => b = c
      BY <2>4, <3>1, <3>2 DEF Table, SlotsOwned
    <3>6. ASSUME NEW c \in Conns, Serving(c)' PROVE Peer(slot[c])' = c
      <4>1. CASE c = c0
        BY <1>3, <1>7, <2>4, <2>5, <4>1 DEF Peer, c0
      <4>2. CASE c # c0
        <5>1. Active(c)' /\ Peer(slot[c]) = c
          BY <1>1, <3>1, <3>6, <4>2 DEF Serving, Table, SlotsOwned
        <5> QED
          BY <1>3, <3>2, <4>2, <5>1 DEF Peer
      <4> QED
        BY <4>1, <4>2
    <3>7. clientsCount' = Cardinality(Used')
      <4>1. Cardinality(Used') = Cardinality(Used) + 1
        BY <1>3, <1>4, <2>1, UsedSlots
      <4> QED
        BY <1>3, <1>7, <4>1 DEF Table, SlotsOwned
    <3> QED
      BY <3>3, <3>4, <3>5, <3>6, <3>7 DEF SlotsOwned
  <2>8. Admission'
    BY <1>3 DEF Admission
  <2>9. Alone'
    <3>1. ASSUME NEW f \in Fds, fdtab'[f] \in Plain', NEW s \in Slots, NEW r \in Slots,
                 clients'[s] = f, clients'[r] = f
          PROVE  s = r
      <4>1. fdtab[f] \in Plain
        BY <1>1, <1>3, <3>1
      <4>2. CASE f = client_fd
        <5>1. \A q \in Slots : clients[q] # f
          BY <2>1, <4>1, <4>2 DEF c0
        <5> QED
          BY <2>5, <3>1, <5>1
      <4>3. CASE f # client_fd
        <5>1. clients[s] = f /\ clients[r] = f
          BY <2>5, <3>1, <4>3
        <5> QED
          BY <4>1, <5>1 DEF Table, Alone
      <4> QED
        BY <4>2, <4>3
    <3> QED
      BY <3>1 DEF Alone
  <2>10. Broadcaster'
    <3>1. \A c \in Conns : /\ Broadcasts(c)' <=> Broadcasts(c)
                           /\ pc'[c] = "body" => pc[c] = "body"
                           /\ pc'[c] = "lock" => pc[c] = "lock"
      BY <2>1, <2>4 DEF Broadcasts
    <3> QED
      BY <1>1, <1>5, <3>1, BroadcasterKept DEF Table
  <2> QED
    BY <2>6, <2>7, <2>8, <2>9, <2>10 DEF Table
<1> QED
  BY <1>6, <1>7

(* main goes round its loop, or closes what is in the slots and exits.      *)
LEMMA ExitTable ==
  ASSUME CSTypeOK, CSTypeOK', Table, check \/ cleanup
  PROVE  Table'
<1>1. /\ UNCHANGED <<conn, client_fd, endSession, clientsCount, clients, mutex, pc, slot,
                     msg, i, out, reused>>
      /\ main' \in {"cleanup", "accept", "exited"} /\ main # "exited"
  BY DEF check, cleanup, net, thread
<1>2. \A f \in Fds : fdtab'[f] \in {fdtab[f], NULL}
  BY DEF check, cleanup, net
<1>3. Descriptors'
  BY <1>1, <1>2, DescriptorsKept DEF Table
<1>4. Broadcaster'
  BY <1>1, BroadcasterKept DEF Table, Broadcasts
<1>5. Plain' = Plain /\ Alone'
  <2>1. Plain' = Plain
    BY <1>1 DEF Plain
  <2> QED
    BY <1>1, <1>2, <2>1, AloneKept DEF Table
<1>6. CASE check
  <2>1. fdtab' = fdtab /\ main' = IF endSession = 1 THEN "cleanup" ELSE "accept"
    BY <1>6 DEF check, net
  <2>2. SlotsOwned'
    BY <1>1, <2>1, SlotsKept DEF Table, Active, Serving
  <2>3. Admission'
    BY <1>1, <2>1 DEF Admission
  <2> QED
    BY <1>3, <1>4, <1>5, <2>2, <2>3 DEF Table
<1>7. CASE cleanup
  <2>1. main = "cleanup" /\ main' = "exited"
    BY <1>7 DEF cleanup
  <2>2. endSession # 0
    BY <2>1 DEF Table, Admission
  <2>4. SlotsOwned'
    <3>1. Used' = Used /\ \A c \in Conns : Active(c)' <=> Active(c)
      BY <1>1 DEF Used, Active
    <3> QED
      BY <1>1, <2>1, <3>1 DEF Table, SlotsOwned
  <2>5. Admission'
    BY <1>1, <2>1, <2>2 DEF Admission
  <2> QED
    BY <1>3, <1>4, <1>5, <2>4, <2>5 DEF Table
<1> QED
  BY <1>6, <1>7

-----------------------------------------------------------------------------
(* The invariant *)

LEMMA TableStep ==
  ASSUME CSTypeOK, CSTypeOK', Table, Next, fate' # "undefined"
  PROVE  Table'
<1>1. ASSUME NEW c \in Conns, Outside(c) PROVE Table'
  BY <1>1, OutsideTable
<1>2. CASE close_server
  BY <1>2, OutsideTable
<1>3. ASSUME NEW c \in Conns, Thread(c) PROVE Table'
  <2>1. CASE loop(c) \/ finish(c) \/ receive(c)
    BY <2>1, LoopTable
  <2>2. CASE lock(c) \/ write_size(c) \/ write_body(c) \/ unlock(c)
    BY <2>2, WriteTable
  <2>3. CASE close(c)
    BY <2>3, CloseTable
  <2>4. CASE release(c)
    BY <2>4, ReleaseTable
  <2> QED
    BY <1>3, <2>1, <2>2, <2>3, <2>4 DEF Thread
<1>4. ASSUME NEW c \in Conns, accept(c) PROVE Table'
  BY <1>4, AcceptTable
<1>5. CASE admit
  BY <1>5, AdmitTable DEF Next
<1>6. CASE check \/ cleanup
  BY <1>6, ExitTable
<1> QED
  BY <1>1, <1>2, <1>3, <1>4, <1>5, <1>6 DEF Next, Main, Outside

(* The steps of a thread that write nothing, take no mutex and read nothing. *)
LEMMA QuietTraffic ==
  ASSUME CSTypeOK, CSTypeOK', FramesWhole, SameOrder, Table, Traffic, NEW e \in Conns,
         loop(e) \/ finish(e) \/ unlock(e) \/ close(e) \/ release(e)
  PROVE  FramesWhole' /\ SameOrder' /\ Traffic'
<1>1. /\ pc' = [pc EXCEPT ![e] = pc'[e]]
      /\ pc[e] \in {"loop", "read", "size", "close", "release"}
      /\ pc'[e] \in {"read", "close", "loop", "release", "done"}
      /\ UNCHANGED <<conn, out, msg, i, reused>>
  BY SMTT(40) DEF loop, finish, unlock, close, release, net, CSTypeOK
<1>2. \A c \in Conns \ {e} : pc'[c] = pc[c]
  BY <1>1 DEF CSTypeOK
<1>3. (\E c \in Conns : Broadcasts(c)) => clients' = clients
  <2>1. CASE release(e)
    <3>1. mutex = NULL
      BY <2>1 DEF release
    <3> QED
      BY <3>1, Constants DEF Table, Broadcaster
  <2>2. CASE ~release(e)
    BY <2>2 DEF loop, finish, unlock, close
  <2> QED
    BY <2>1, <2>2
<1>4. \A f \in Fds : fdtab'[f] \in {fdtab[f], NULL}
  <2>1. CASE close(e)
    BY <2>1, CloseTable
  <2>2. CASE ~close(e)
    BY <2>2 DEF loop, finish, unlock, release, net
  <2> QED
    BY <2>1, <2>2
<1>5. /\ \A c \in Conns : pc'[c] = "lock" => pc[c] = "lock"
      /\ \A c \in Conns : Broadcasts(c)' => pc'[c] = pc[c] /\ i'[c] = i[c]
      /\ \A c \in Conns : pc[c] = "body" => pc'[c] = "body"
  BY <1>1, <1>2 DEF Broadcasts
<1> QED
  BY <1>1, <1>3, <1>4, <1>5, TrafficKept DEF Table

(* The same of main, the clients and the user. *)
LEMMA OutsideTraffic ==
  ASSUME CSTypeOK, CSTypeOK', FramesWhole, SameOrder, Table, Traffic,
         \/ \E c \in Conns : Outside(c)
         \/ close_server \/ admit \/ check \/ cleanup
  PROVE  FramesWhole' /\ SameOrder' /\ Traffic'
<1>1. UNCHANGED <<out, msg, i, reused>>
  BY DEF Outside, Send, Disconnect, Stall, Resume, close_server, admit, check,
         cleanup, net, server, thread
<1>2. \A c \in Conns : conn[c] = "gone" => conn'[c] = "gone"
  <2>1. \/ conn' = conn
        \/ \E c \in Conns : conn' = [conn EXCEPT ![c] = "gone"]
    BY DEF Outside, Send, Disconnect, Stall, Resume, close_server, admit, check,
           cleanup, net
  <2> QED
    BY <2>1 DEF CSTypeOK
<1>3. \A f \in Fds : fdtab'[f] \in {fdtab[f], NULL}
  <2>1. CASE admit
    <3>1. fdtab' = fdtab \/ fdtab' = [fdtab EXCEPT ![client_fd] = NULL]
      BY <2>1 DEF admit
    <3> QED
      BY <3>1 DEF CSTypeOK
  <2>2. CASE ~admit
    BY <2>2 DEF Outside, Send, Disconnect, Stall, Resume, close_server, check,
                cleanup, net
  <2> QED
    BY <2>1, <2>2
<1>4. /\ (\E c \in Conns : Broadcasts(c)) => clients' = clients
      /\ \A c \in Conns : pc'[c] = "lock" => pc[c] = "lock"
      /\ \A c \in Conns : Broadcasts(c)' => pc'[c] = pc[c]
      /\ \A c \in Conns : pc[c] = "body" => pc'[c] = "body"
  <2>1. CASE admit
    <3>1. \A c \in Conns : ~Broadcasts(c)
      BY <2>1, Constants DEF admit, Table, Broadcaster
    <3>2. pc' = pc \/ \E c : pc' = [pc EXCEPT ![c] = "loop"]
      BY <2>1 DEF admit
    <3>3. \A c \in Conns : pc'[c] \in {pc[c], "loop"}
      BY <3>2 DEF CSTypeOK
    <3> QED
      BY <3>1, <3>3 DEF Broadcasts
  <2>2. CASE ~admit
    <3>1. clients' = clients /\ pc' = pc
      BY <2>2 DEF Outside, Send, Disconnect, Stall, Resume, close_server, check,
                  cleanup, server, thread
    <3> QED
      BY <3>1 DEF Broadcasts
  <2> QED
    BY <2>1, <2>2
<1> QED
  BY <1>1, <1>2, <1>3, <1>4, TrafficKept DEF Table

LEMMA TrafficStep ==
  ASSUME CSTypeOK, CSTypeOK', FramesWhole, SameOrder, Table, Traffic, Next
  PROVE  FramesWhole' /\ SameOrder' /\ Traffic'
<1>1. ASSUME NEW c \in Conns, Thread(c) PROVE FramesWhole' /\ SameOrder' /\ Traffic'
  <2>1. CASE loop(c) \/ finish(c) \/ unlock(c) \/ close(c) \/ release(c)
    BY <2>1, QuietTraffic
  <2>2. CASE receive(c)
    BY <2>2, ReceiveTraffic DEF Table
  <2>3. CASE lock(c)
    BY <2>3, LockTraffic DEF Table
  <2>4. CASE write_size(c) \/ write_body(c)
    BY <2>4, WriteTraffic
  <2> QED
    BY <1>1, <2>1, <2>2, <2>3, <2>4 DEF Thread
<1>2. ASSUME NEW c \in Conns, accept(c) PROVE FramesWhole' /\ SameOrder' /\ Traffic'
  BY <1>2, AcceptTraffic DEF Table
<1> QED
  BY <1>1, <1>2, OutsideTraffic DEF Next, Main, Outside

LEMMA ChatInit ==
  ASSUME Init
  PROVE  ChatInv
<1>1. CSTypeOK
  <2>1. <<>> \in Seq(Parts)
    OBVIOUS
  <2> QED
    BY <2>1 DEF Init, CSTypeOK
<1>2. \A c \in Conns : out[c] = <<>> /\ Len(out[c]) = 0
  BY DEF Init
<1>3. FramesWhole /\ SameOrder
  BY <1>2 DEF FramesWhole, SameOrder, Whole
<1>4. /\ \A c \in Conns : pc[c] = "none" /\ msg[c] = NULL /\ conn[c] = "off"
      /\ \A f \in Fds : fdtab[f] = NULL
      /\ \A s \in Slots : clients[s] = -1
      /\ mutex = NULL /\ main = "accept" /\ client_fd = -1 /\ endSession = 0
      /\ clientsCount = 0
  BY DEF Init
<1>5. Table
  <2>1. \A c \in Conns : ~Active(c) /\ ~Serving(c) /\ ~Broadcasts(c)
    BY <1>4 DEF Active, Serving, Broadcasts
  <2>2. Descriptors
    BY <1>2, <1>4 DEF Descriptors
  <2>3. SlotsOwned
    <3>1. Used = {}
      BY <1>4 DEF Used
    <3>2. Cardinality(Used) = 0
      BY <3>1, FS_EmptySet
    <3> QED
      BY <1>4, <2>1, <3>2 DEF SlotsOwned
  <2>4. Admission /\ Alone
    BY <1>4, Constants DEF Admission, Alone
  <2>5. Broadcaster
    BY <1>4, <2>1, Constants DEF Broadcaster
  <2> QED
    BY <2>2, <2>3, <2>4, <2>5 DEF Table
<1>6. Traffic
  <2>1. Arrived
    BY <1>2 DEF Arrived
  <2>2. Framing
    <3>1. 0 % 2 # 1
      OBVIOUS
    <3> QED
      BY <1>2, <1>4, <3>1, Constants DEF Framing
  <2>3. AtEnd /\ Ahead
    BY <1>2, Constants DEF AtEnd, Ahead
  <2> QED
    BY <2>1, <2>2, <2>3 DEF Traffic
<1> QED
  BY <1>1, <1>3, <1>5, <1>6 DEF ChatInv

LEMMA ChatStep ==
  ASSUME ChatInv, [Next]_vars
  PROVE  ChatInv'
<1>1. CASE Next
  <2>1. fate = "alive"
    BY <1>1 DEF Next
  <2>2. CSTypeOK /\ FramesWhole /\ SameOrder /\ Table /\ Traffic
    BY <2>1 DEF ChatInv
  <2>3. CSTypeOK'
    BY <1>1, <2>2, TypesStep
  <2>4. FramesWhole' /\ SameOrder' /\ Traffic'
    BY <1>1, <2>2, <2>3, TrafficStep
  <2>5. fate' # "undefined" => Table'
    BY <1>1, <2>2, <2>3, TableStep
  <2> QED
    BY <2>3, <2>4, <2>5 DEF ChatInv
<1>2. CASE UNCHANGED vars
  <2>1. CSTypeOK' /\ FramesWhole' /\ SameOrder'
    <3>1. Plain' = Plain /\ out' = out
      BY <1>2 DEF vars, Plain
    <3> QED
      BY <1>2, <3>1, OutKept DEF vars, ChatInv, CSTypeOK
  <2>2. ASSUME fate' # "undefined" PROVE Table' /\ Traffic'
    <3>1. /\ UNCHANGED <<conn, fdtab, main, client_fd, endSession, clientsCount, clients,
                         mutex, pc, slot, msg, i, out, reused>>
          /\ CSTypeOK /\ FramesWhole /\ SameOrder /\ Table /\ Traffic
      BY <1>2, <2>2 DEF vars, ChatInv
    <3>2. Descriptors'
      BY <3>1 DEF Table, Descriptors
    <3>3. SlotsOwned'
      BY <3>1, SlotsKept DEF Table, Active, Serving
    <3>4. Admission' /\ Alone'
      BY <3>1 DEF Table, Admission, Alone, Plain
    <3>5. Broadcaster'
      BY <3>1, BroadcasterKept DEF Table, Broadcasts
    <3>6. Traffic'
      BY <2>1, <3>1, TrafficKept DEF Table, Broadcasts
    <3> QED
      BY <3>2, <3>3, <3>4, <3>5, <3>6 DEF Table
  <2> QED
    BY <2>1, <2>2 DEF ChatInv
<1> QED
  BY <1>1, <1>2

LEMMA ChatInvariant == Spec => []ChatInv
<1>1. Init => ChatInv
  BY ChatInit
<1>2. ChatInv /\ [Next]_vars => ChatInv'
  BY ChatStep
<1> QED
  BY <1>1, <1>2, PTL DEF Spec

(* write_to_clients sends each message as a size and a body, two writes     *)
(* between which other threads may want to write to the same client: under  *)
(* mutex, however many threads broadcast, whoever joins, leaves or stops    *)
(* reading, what a client receives is a sequence of whole messages, up to   *)
(* the last size, unless its own descriptor had a number that a slot still  *)
(* held when it was accepted (server.c:172-186,216-221).                    *)
THEOREM ChatFramesWhole == Spec => []FramesWhole
<1>1. ChatInv => FramesWhole
  BY DEF ChatInv
<1> QED
  BY <1>1, ChatInvariant, PTL

(* The broadcasts of several threads of process_client follow each other:   *)
(* no client receives a message twice, and two clients that both receive    *)
(* two messages receive them in the same order, with the same exception     *)
(* (server.c:173-185).                                                      *)
THEOREM ChatSameOrder == Spec => []SameOrder
<1>1. ChatInv => SameOrder
  BY DEF ChatInv
<1> QED
  BY <1>1, ChatInvariant, PTL

(* Until SIGINT, or until run_server stores a client at clients[-1], the    *)
(* descriptor in the slot of a thread is the one of its client and no       *)
(* thread shares its slot, although threads close descriptors before they   *)
(* take mutex to give slots back and the kernel hands the numbers out again *)
(* in between; of two slots with one descriptor one is about to be cleared, *)
(* and clientsCount counts the slots in use (server.c:61-71,152-154,216).   *)
THEOREM ChatSlotsAgree == Spec => []SlotsAgree
<1>1. ASSUME ChatInv, endSession = 0, fate # "undefined" PROVE SlotsAgree
  <2>1. CSTypeOK /\ Descriptors /\ SlotsOwned /\ Admission
    BY <1>1 DEF ChatInv, Table
  <2>2. main # "exited"
    BY <1>1, <2>1 DEF Admission
  <2>3. \A c \in Conns : Serving(c) => Peer(slot[c]) = c
    BY <2>1, <2>2 DEF SlotsOwned
  <2>4. \A c \in Conns : pc[c] \in {"loop", "read", "lock", "size", "body", "close"} =>
          Peer(slot[c]) = c
    BY <2>3 DEF Serving, Active
  <2>5. ASSUME NEW s \in Slots, NEW r \in Slots, clients[s] = clients[r],
               clients[s] # -1, s # r
        PROVE  \E c \in Conns : pc[c] = "release" /\ slot[c] \in {s, r}
    <3>1. PICK b \in Conns : Active(b) /\ slot[b] = s
      BY <2>1, <2>5 DEF SlotsOwned
    <3>2. PICK c \in Conns : Active(c) /\ slot[c] = r
      BY <2>1, <2>5 DEF SlotsOwned
    <3>3. ~(Serving(b) /\ Serving(c))
      BY <2>3, <2>5, <3>1, <3>2 DEF Peer
    <3>4. CASE ~Serving(b)
      BY <3>1, <3>4 DEF Serving
    <3>5. CASE ~Serving(c)
      BY <3>2, <3>5 DEF Serving
    <3> QED
      BY <3>3, <3>4, <3>5
  <2>6. ASSUME NEW b \in Conns, NEW c \in Conns, slot[b] = slot[c], b # c
        PROVE  pc[b] \in {"none", "done"} \/ pc[c] \in {"none", "done"}
    <3>1. ~(Active(b) /\ Active(c))
      BY <2>1, <2>6 DEF SlotsOwned
    <3>2. \A d \in Conns : ~Active(d) => pc[d] \in {"none", "done"}
      BY <2>1 DEF Active, CSTypeOK
    <3> QED
      BY <3>1, <3>2
  <2>7. clientsCount = Cardinality({s \in Slots : clients[s] # -1})
    BY <2>1 DEF SlotsOwned, Used
  <2> QED
    BY <2>4, <2>5, <2>6, <2>7 DEF SlotsAgree
<1>2. ChatInv => SlotsAgree
  <2>1. ~(endSession = 0 /\ fate # "undefined") => SlotsAgree
    BY DEF SlotsAgree
  <2> QED
    BY <1>1, <2>1
<1> QED
  BY <1>2, ChatInvariant, PTL
=============================================================================
