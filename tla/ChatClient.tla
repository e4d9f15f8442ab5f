----------------------------- MODULE ChatClient -----------------------------
(***************************************************************************)
(* charming_chatroom/client.c: a thread that sends what the user types, a  *)
(* thread that shows what the server sends, and SIGINT, whose handler      *)
(* cancels both and closes the connection.  Cancellation is deferred: a    *)
(* thread acts on it at its next read or write.  User and server are       *)
(* external.                                                               *)
(***************************************************************************)
EXTENDS Integers

CONSTANTS
  MaxLines,     (* bound on the lines the user types                       *)
  MaxMessages   (* bound on the messages the server sends                  *)

(* What the constants stand for; the modules that instantiate this one     *)
(* assume it.                                                              *)
ChatClientAssumption == {MaxLines, MaxMessages} \subseteq Nat

VARIABLES
  main,         (* what the main thread does next, or the end of the process *)
  writer, reader,   (* what the two threads do next                         *)
  cancelled,    (* threads with a cancellation to act on                    *)
  joined,       (* threads that main has joined                             *)
  serverSocket, (* none, open, shut (nothing is read any more) or closed    *)
  server,       (* up, gone, or reset: it answered a write after it had gone *)
  inbox,        (* pieces that the server has sent: 2 for a message, the    *)
                (* size and the body                                        *)
  lines, messages, interrupted

threads == <<writer, reader, cancelled, joined>>
peers == <<server, inbox, lines, messages>>
vars == <<main, threads, serverSocket, peers, interrupted>>

Ended == {"done", "failed", "killed"}

Init ==
  /\ main = "connect"
  /\ writer = "none" /\ reader = "none" /\ cancelled = {} /\ joined = {}
  /\ serverSocket = "none"
  /\ server = "up" /\ inbox = 0 /\ lines = 0 /\ messages = 0
  /\ interrupted = FALSE

(***************************************************************************)
(* main.                                                                   *)
(***************************************************************************)
connect_to_server ==
  /\ main = "connect"
  /\ \/ main' = "create_writer" /\ serverSocket' = "open"
     \/ main' = "failed" /\ UNCHANGED serverSocket
  /\ UNCHANGED <<threads, peers, interrupted>>

pthread_create ==
  \/ /\ main = "create_writer"
     /\ main' = "create_reader" /\ writer' = "read_screen"
     /\ UNCHANGED <<reader, cancelled, joined, serverSocket, peers, interrupted>>
  \/ /\ main = "create_reader"
     /\ main' = "join_writer" /\ reader' = "read_size"
     /\ UNCHANGED <<writer, cancelled, joined, serverSocket, peers, interrupted>>

pthread_join ==
  \/ /\ main = "join_writer" /\ writer = "ended"
     /\ main' = "join_reader" /\ joined' = joined \cup {"writer"}
     /\ UNCHANGED <<writer, reader, cancelled, serverSocket, peers, interrupted>>
  \/ /\ main = "join_reader" /\ reader = "ended"
     /\ main' = "done" /\ joined' = joined \cup {"reader"}
     /\ UNCHANGED <<writer, reader, cancelled, serverSocket, peers, interrupted>>

(***************************************************************************)
(* write_to_server and read_from_server.                                   *)
(***************************************************************************)
(* Every read and write of a thread is a cancellation point. *)
ActOnCancel ==
  \/ /\ "writer" \in cancelled /\ writer # "ended"
     /\ writer' = "ended"
     /\ UNCHANGED <<main, reader, cancelled, joined, serverSocket, peers, interrupted>>
  \/ /\ "reader" \in cancelled /\ reader # "ended"
     /\ reader' = "ended"
     /\ UNCHANGED <<main, writer, cancelled, joined, serverSocket, peers, interrupted>>

(* A line, or the end of the input, which ends the thread. *)
read_message_from_screen ==
  /\ writer = "read_screen" /\ "writer" \notin cancelled
  /\ \/ lines < MaxLines /\ lines' = lines + 1 /\ writer' = "write_size"
     \/ writer' = "ended" /\ UNCHANGED lines
  /\ UNCHANGED <<main, reader, cancelled, joined, serverSocket, server, inbox,
                 messages, interrupted>>

(* A write to a connection that is closed here fails; one to a server that  *)
(* has gone is answered with a reset, and the next one is a SIGPIPE.        *)
write_to_server ==
  /\ writer \in {"write_size", "write_body"} /\ "writer" \notin cancelled
  /\ \/ /\ serverSocket = "closed"
        /\ writer' = "ended" /\ UNCHANGED <<main, server>>
     \/ /\ serverSocket # "closed" /\ server = "reset"
        /\ main' = "killed" /\ UNCHANGED <<writer, server>>
     \/ /\ serverSocket # "closed" /\ server # "reset"
        /\ writer' = IF writer = "write_size" THEN "write_body" ELSE "read_screen"
        /\ server' = IF server = "gone" THEN "reset" ELSE server
        /\ UNCHANGED main
  /\ UNCHANGED <<reader, cancelled, joined, serverSocket, inbox, lines,
                 messages, interrupted>>

(* The size or the body of a message; nothing comes from a server that has  *)
(* gone or through a connection that is shut, and the thread ends.          *)
read_from_server ==
  /\ reader \in {"read_size", "read_body"} /\ "reader" \notin cancelled
  /\ \/ /\ serverSocket = "open" /\ inbox > 0
        /\ inbox' = inbox - 1
        /\ reader' = IF reader = "read_size" THEN "read_body" ELSE "read_size"
     \/ /\ serverSocket # "open" \/ (inbox = 0 /\ server # "up")
        /\ reader' = "ended"
        /\ UNCHANGED inbox
  /\ UNCHANGED <<main, writer, cancelled, joined, serverSocket, server, lines,
                 messages, interrupted>>

(***************************************************************************)
(* SIGINT.                                                                 *)
(***************************************************************************)
(* pthread_cancel of a thread that is not there yet is a call with an       *)
(* unset pthread_t, and of one that was joined a call with a stale one: the *)
(* process may die of it, and does when the pthread_t was never set.  One   *)
(* signal is modelled.                                                      *)
close_program ==
  /\ main \notin Ended /\ ~interrupted
  /\ interrupted' = TRUE
  /\ \/ /\ {writer, reader} \cap {"none"} = {}
        /\ cancelled' = {"writer", "reader"}
        /\ serverSocket' = "shut"
        /\ UNCHANGED main
     \/ /\ writer = "none" \/ reader = "none" \/ joined # {}
        /\ main' = "killed" /\ UNCHANGED <<cancelled, serverSocket>>
  /\ UNCHANGED <<writer, reader, joined, peers>>

(* The end of close_server_connection *)
close_server_connection ==
  /\ serverSocket = "shut"
  /\ serverSocket' = "closed"
  /\ UNCHANGED <<main, threads, peers, interrupted>>

(***************************************************************************)
(* The server.                                                             *)
(***************************************************************************)
ServerSends ==
  /\ serverSocket = "open" /\ server = "up" /\ messages < MaxMessages
  /\ messages' = messages + 1 /\ inbox' = inbox + 2
  /\ UNCHANGED <<main, threads, serverSocket, server, lines, interrupted>>

ServerGoes ==
  /\ serverSocket # "none" /\ server = "up"
  /\ server' = "gone"
  /\ UNCHANGED <<main, threads, serverSocket, inbox, lines, messages, interrupted>>

Main == connect_to_server \/ pthread_create \/ pthread_join
Handler == ActOnCancel \/ close_server_connection
Alive == main \notin Ended

Next ==
  /\ Alive
  /\ \/ Main \/ Handler
     \/ read_message_from_screen \/ write_to_server \/ read_from_server
     \/ close_program \/ ServerSends \/ ServerGoes

(* The threads are scheduled; the user need not type, nor the server send. *)
Spec ==
  /\ Init /\ [][Next]_vars
  /\ WF_vars(Alive /\ Main) /\ WF_vars(Alive /\ Handler)
  /\ WF_vars(Alive /\ write_to_server) /\ WF_vars(Alive /\ read_from_server)

(***************************************************************************)
(* Properties.                                                             *)
(***************************************************************************)
(* After a SIGINT the client ends, wherever its threads were blocked, and   *)
(* once the server has gone the reading thread ends by itself               *)
(* (client.c:153-190).                                                      *)
ClientEnded ==
  /\ interrupted => main \in Ended
  /\ (server # "up" /\ main \notin Ended) => reader \in {"none", "ended"}
=============================================================================
