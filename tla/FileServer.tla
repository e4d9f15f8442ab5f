----------------------------- MODULE FileServer -----------------------------
(***************************************************************************)
(* nonstop_networking: client.c, server.c and the socket helpers of        *)
(* common.c.  The server is one thread behind epoll: a connection is       *)
(* accepted, its header parsed (status 0 to 1) and its request executed,   *)
(* each in an event of its own, so events of other connections come in     *)
(* between.  The client sockets block: a PUT holds the server until its    *)
(* client has shut down its side, and SIGINT may come between any two      *)
(* buffers.  A client makes one request.  A body is a sequence of buffers. *)
(***************************************************************************)
EXTENDS Integers, Sequences, FiniteSets, SequencesExt, Functions

CONSTANTS
  Clients, NULL,
  Verbs,        (* the combinations of commands the clients may be given  *)
  Name,         (* Name[c]: the remote file client c names                *)
  Buffers,      (* how many buffers the local file of a PUT fills         *)
  NoFile,       (* the clients whose local file does not exist            *)
  Garbage,      (* what a size that was never received may be             *)
  MayDie,       (* the clients that may be killed                         *)
  MaySignal     (* may the user send SIGINT to the server?                *)

ASSUME FileServerAssumption ==
  /\ NULL \notin Clients \cup Nat /\ Buffers \in Nat
  /\ Verbs \subseteq [Clients -> {"GET", "PUT", "DELETE", "LIST"}]
  /\ NoFile \subseteq Clients
  /\ Garbage \subseteq Nat
  /\ MayDie \subseteq Clients /\ MaySignal \in BOOLEAN

VARIABLES
  Verb,        (* Verb[c]: the command client c was started with          *)
  pc,          (* where client c is                                       *)
  up, eof,     (* what c sent and the server has not read; no more comes  *)
  down,        (* the server's reply to c, or NULL                        *)
  result,      (* what client c made of the reply, or NULL                *)
  conn,        (* "none", "queued", "status0", "status1", "closed"      *)
  request,     (* request[c]: the header the server parsed                *)
  busy,        (* the client whose request the server is in, or NULL      *)
  files,       (* the temporary directory: file name to contents          *)
  fileList,
  exited       (* "no", or why the server is gone                         *)

vars == <<Verb, pc, up, eof, down, result, conn, request, busy, files, fileList, exited>>
client == <<pc, up, eof, result>>

(* main of the server up to its loop *)
Init ==
  /\ Verb \in Verbs
  /\ pc = [c \in Clients |-> "start"]
  /\ up = [c \in Clients |-> <<>>] /\ eof = [c \in Clients |-> FALSE]
  /\ down = [c \in Clients |-> NULL] /\ result = [c \in Clients |-> NULL]
  /\ conn = [c \in Clients |-> "none"] /\ request = [c \in Clients |-> NULL]
  /\ busy = NULL
  /\ files = <<>> /\ fileList = <<>> /\ exited = "no"

Without(f, a) == Restrict(f, DOMAIN f \ {a})
With(f, a, v) == [b \in DOMAIN f \cup {a} |-> IF b = a THEN v ELSE f[b]]
Whole(c) == [k \in 1..Buffers |-> <<c, k>>]

(***************************************************************************)
(* client.c                                                                *)
(***************************************************************************)
connect(c) ==
  /\ pc[c] = "start" /\ exited = "no"
  /\ conn' = [conn EXCEPT ![c] = "queued"]
  /\ pc' = [pc EXCEPT ![c] = "header"]
  /\ UNCHANGED <<up, eof, down, result, request, busy, files, fileList, exited>>

send_header(c) ==
  /\ pc[c] = "header"
  /\ up' = [up EXCEPT ![c] = Append(@, <<c, 0>>)]
  /\ pc' = [pc EXCEPT ![c] = IF Verb[c] = "PUT" THEN "body" ELSE "response"]
  /\ UNCHANGED <<eof, down, result, conn, request, busy, files, fileList, exited>>

(* How much of its file c has sent is what the server has or will read,    *)
(* after the header.                                                       *)
HeaderUnread(c) == conn[c] \in {"queued", "status0"}
Sent(c) == Len(up[c]) - (IF HeaderUnread(c) THEN 1 ELSE 0)
             + (IF busy = c THEN Len(files[Name[c]]) ELSE 0)

(* A buffer of the file, or shutdown( fd, SHUT_WR ); when stat finds no    *)
(* file, neither: the client goes on to wait for the answer.               *)
put_request(c) ==
  /\ pc[c] = "body" /\ exited = "no"
  /\ IF c \in NoFile
     THEN pc' = [pc EXCEPT ![c] = "response"] /\ UNCHANGED <<up, eof>>
     ELSE IF Sent(c) < Buffers
     THEN /\ up' = [up EXCEPT ![c] = Append(@, Whole(c)[Sent(c) + 1])]
          /\ UNCHANGED <<eof, pc>>
     ELSE /\ eof' = [eof EXCEPT ![c] = TRUE]
          /\ pc' = [pc EXCEPT ![c] = "response"]
          /\ UNCHANGED up
  /\ UNCHANGED <<down, result, conn, request, busy, files, fileList, exited>>

(* Mutant: a shorter answer is not noticed. *)
MutCheckReadByte(total, size) == total > size
check_read_byte(total, size) == total # size

(* check_response, and after an OK get_request or list_request, which read  *)
(* until the server closes the socket or is gone.  A reply that ends before *)
(* its size leaves file_size uninitialised.                                 *)
Ended(c) == conn[c] = "closed" \/ exited # "no"
Understood(r, size) ==
  IF r # NULL /\ r.ok /\ (r.bare \/ ~check_read_byte(Len(r.body), size))
  THEN [ok |-> TRUE, body |-> r.body]
  ELSE [ok |-> FALSE, body |-> <<>>]
check_response(c) ==
  /\ pc[c] = "response" \/ (pc[c] \in {"header", "body"} /\ exited # "no")
  /\ Ended(c)
  /\ \E size \in IF down[c] # NULL /\ down[c].size # NULL THEN {down[c].size} ELSE Garbage :
       result' = [result EXCEPT ![c] = Understood(down[c], size)]
  /\ pc' = [pc EXCEPT ![c] = "done"]
  /\ UNCHANGED <<up, eof, down, conn, request, busy, files, fileList, exited>>

(* The kernel closes the socket of a client that is killed. *)
die(c) ==
  /\ c \in MayDie /\ pc[c] \in {"header", "body", "response"}
  /\ eof' = [eof EXCEPT ![c] = TRUE]
  /\ pc' = [pc EXCEPT ![c] = "dead"]
  /\ UNCHANGED <<up, down, result, conn, request, busy, files, fileList, exited>>

(***************************************************************************)
(* server.c: the events                                                    *)
(***************************************************************************)
Serving == exited = "no" /\ busy = NULL

accept(c) ==
  /\ Serving /\ conn[c] = "queued"
  /\ conn' = [conn EXCEPT ![c] = "status0"]
  /\ UNCHANGED <<client, down, request, busy, files, fileList, exited>>

(* A header, or the end of the socket in its place: exit(1). *)
parsing_header(c) ==
  /\ Serving /\ conn[c] = "status0" /\ (up[c] # <<>> \/ eof[c])
  /\ IF up[c] # <<>>
     THEN /\ request' = [request EXCEPT ![c] = [verb |-> Verb[c], name |-> Name[c]]]
          /\ up' = [up EXCEPT ![c] = Tail(@)]
          /\ conn' = [conn EXCEPT ![c] = "status1"]
          /\ UNCHANGED exited
     ELSE /\ exited' = "noheader"
          /\ UNCHANGED <<request, up, conn>>
  /\ UNCHANGED <<pc, eof, result, down, busy, files, fileList>>

(* execute, after a result that is not 0: the connection is closed. *)
Finish(c) ==
  /\ conn' = [conn EXCEPT ![c] = "closed"]
  /\ busy' = NULL

OK == [ok |-> TRUE, bare |-> TRUE, size |-> 0, body |-> <<>>]
ERROR == [OK EXCEPT !.ok = FALSE]

ASSUME NullIsNoReply == NULL # OK

Executes(c, verb) == Serving /\ conn[c] = "status1" /\ request[c].verb = verb

(* GET and LIST write OK, the size and the contents, one by one. *)
Content(c) == IF request[c].verb = "GET" THEN files[request[c].name] ELSE fileList
WriteOK(c) ==
  /\ down' = [down EXCEPT ![c] = [ok |-> TRUE, bare |-> FALSE, size |-> NULL, body |-> <<>>]]
  /\ busy' = c

(* A file that is not there ends the server. *)
execute_get(c) ==
  /\ Executes(c, "GET")
  /\ IF request[c].name \in DOMAIN files
     THEN WriteOK(c) /\ UNCHANGED exited
     ELSE exited' = "nofile" /\ UNCHANGED <<down, busy>>
  /\ UNCHANGED <<client, conn, request, files, fileList>>

execute_list(c) ==
  /\ Executes(c, "LIST")
  /\ WriteOK(c)
  /\ UNCHANGED <<client, conn, request, files, fileList, exited>>

(* write_all_to_socket reports a client that is gone with -1, which no      *)
(* caller sees: the rest is "written" all the same.                         *)
write_all(c) ==
  /\ exited = "no" /\ busy = c /\ down[c] # NULL /\ ~down[c].bare
  /\ IF down[c].size = NULL
     THEN down' = [down EXCEPT ![c].size = Len(Content(c))] /\ UNCHANGED <<conn, busy>>
     ELSE IF Len(down[c].body) < down[c].size
     THEN /\ down' = [down EXCEPT ![c].body = Append(@, Content(c)[Len(@) + 1])]
          /\ UNCHANGED <<conn, busy>>
     ELSE Finish(c) /\ UNCHANGED down
  /\ UNCHANGED <<client, request, files, fileList, exited>>

(* fopen( fullPath, "w" ); when it fails the server exits *)
MutOpened(f) == IF f \in DOMAIN files THEN files ELSE With(files, f, <<>>)
Opened(f) == With(files, f, <<>>)
execute_put_open(c) ==
  /\ Executes(c, "PUT")
  /\ \/ files' = Opened(request[c].name) /\ busy' = c /\ UNCHANGED exited
     \/ exited' = "noopen" /\ UNCHANGED <<files, busy>>
  /\ UNCHANGED <<client, down, conn, request, fileList>>

execute_put_read(c) ==
  /\ exited = "no" /\ busy = c /\ up[c] # <<>>
  /\ files' = [files EXCEPT ![request[c].name] = Append(@, Head(up[c]))]
  /\ up' = [up EXCEPT ![c] = Tail(@)]
  /\ UNCHANGED <<pc, eof, result, down, conn, request, busy, fileList, exited>>

Listed(f) == IF f \in ToSet(fileList) THEN fileList ELSE Append(fileList, f)

(* Mutant: the server goes on reading. *)
MutExecutePutEnd(c) ==
  /\ exited = "no" /\ busy = c /\ up[c] = <<>> /\ eof[c]
  /\ down' = [down EXCEPT ![c] = OK]
  /\ fileList' = Listed(request[c].name)
  /\ UNCHANGED <<client, conn, busy, request, files, exited>>
(* No more comes: the file counts, whatever the size in the request was. *)
execute_put_end(c) ==
  /\ exited = "no" /\ busy = c /\ Verb[c] = "PUT" /\ up[c] = <<>> /\ eof[c]
  /\ down' = [down EXCEPT ![c] = OK]
  /\ fileList' = Listed(request[c].name)
  /\ Finish(c)
  /\ UNCHANGED <<client, request, files, exited>>

(* Mutant: the name stays in fileList. *)
MutUnlisted(f) == fileList
Unlisted(f) == RemoveFirst(fileList, f)

(* A file that is not there is reported, and ends the server. *)
execute_delete(c) ==
  /\ Executes(c, "DELETE")
  /\ files' = Without(files, request[c].name)
  /\ fileList' = Unlisted(request[c].name)
  /\ IF request[c].name \in DOMAIN files \cap ToSet(fileList)
     THEN down' = [down EXCEPT ![c] = OK] /\ Finish(c) /\ UNCHANGED exited
     ELSE /\ down' = [down EXCEPT ![c] = ERROR]
          /\ exited' = "nofile"
          /\ UNCHANGED <<conn, busy>>
  /\ UNCHANGED <<client, request>>

(* disconnect, at any point: the directory is emptied and removed. *)
sigint_handler ==
  /\ MaySignal /\ exited = "no"
  /\ files' = <<>>
  /\ exited' = "SIGINT"
  /\ UNCHANGED <<client, down, conn, request, busy, fileList>>

(***************************************************************************)
(* The specification.                                                      *)
(***************************************************************************)
Client(c) == connect(c) \/ send_header(c) \/ put_request(c) \/ check_response(c)
Event(c) ==
  \/ accept(c) \/ parsing_header(c)
  \/ execute_get(c) \/ execute_put_open(c) \/ execute_put_read(c) \/ execute_put_end(c)
  \/ execute_delete(c) \/ execute_list(c) \/ write_all(c)

Settled == \A c \in Clients : pc[c] \in {"done", "dead"} \/ (pc[c] = "start" /\ exited # "no")
Terminated == Settled /\ UNCHANGED vars

Step ==
  \/ \E c \in Clients : Client(c) \/ die(c) \/ Event(c)
  \/ sigint_handler

Next == (Step /\ UNCHANGED Verb) \/ Terminated

Spec == Init /\ [][Next]_vars

(* Clients run on, and epoll_wait reports every connection that is ready;   *)
(* the server takes the reported ones in turn, so none waits for ever.      *)
FairSpec ==
  Spec /\ \A c \in Clients : /\ WF_vars(Client(c) /\ UNCHANGED Verb)
                            /\ WF_vars(Event(c) /\ UNCHANGED Verb)

(***************************************************************************)
(* Properties.                                                             *)
(***************************************************************************)
(* A GET that succeeds brings one whole file that was PUT under that name,  *)
(* or what a client that was killed had sent of it: uploads of two clients  *)
(* never mix, nobody sees half of one that goes on, and a reply cut short   *)
(* by SIGINT is not taken for the file, except before the size is there.    *)
GetsWholeFile ==
  \A c \in Clients : Verb[c] = "GET" /\ result[c] # NULL /\ result[c].ok =>
    \/ down[c].size = NULL /\ result[c].body = <<>>
    \/ \E d \in Clients :
         /\ Verb[d] = "PUT" /\ Name[d] = Name[c] /\ down[d] # NULL
         /\ IF pc[d] = "dead" THEN IsPrefix(result[c].body, Whole(d))
                              ELSE result[c].body = Whole(d)

(* fileList, which LIST shows and DELETE trusts, names the files of the     *)
(* directory, each once; a PUT that is going on may be ahead of it.         *)
ListAgrees ==
  exited = "no" =>
    /\ IsInjective(fileList)
    /\ ToSet(fileList) \subseteq DOMAIN files
    /\ DOMAIN files \ ToSet(fileList) \subseteq
         (IF busy = NULL THEN {} ELSE {request[busy].name})

(* OK to a PUT means its whole file is there at that time, or when the      *)
(* client was killed in the middle, what it had sent and nothing of anybody *)
(* else's; OK to a DELETE that the file was there and is not now            *)
(* (server.c:371-378,397-414).                                              *)
OkMeansDone ==
  [][\A c \in Clients : down[c] = NULL /\ down'[c] # NULL /\ down'[c].ok =>
       /\ Verb[c] = "PUT" => IF pc[c] = "dead" THEN IsPrefix(files'[Name[c]], Whole(c))
                                               ELSE files'[Name[c]] = Whole(c)
       /\ Verb[c] = "DELETE" => Name[c] \in DOMAIN files \ DOMAIN files']_vars

(* Every client that is not killed gets an answer or finds the server gone, *)
(* unless a PUT client whose local file did not exist holds the server: it  *)
(* neither sends nor shuts down, and each waits for the other.              *)
EveryoneAnswered ==
  \A c \in Clients : (pc[c] = "header") ~>
    (pc[c] \in {"done", "dead"} \/ busy \in {d \in NoFile : Verb[d] = "PUT"})
=============================================================================
