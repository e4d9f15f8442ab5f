-------------------------- MODULE FileServer_proofs --------------------------
(***************************************************************************)
(* Proofs about FileServer for any number of clients, any files they name  *)
(* and files of any length; and, from "Blocks that tile the heap" on, about *)
(* the heap allocator of Library, Malloc, for any heap, size classes and   *)
(* sizes asked for.                                                        *)
(***************************************************************************)
EXTENDS FileServer, Library, SequenceLemmas, TLAPS

Names == {Name[c] : c \in Clients}
Data == Clients \X Nat

FSTypeOK ==
  /\ Verb \in [Clients -> {"GET", "PUT", "DELETE", "LIST"}]
  /\ pc \in [Clients -> {"start", "header", "body", "response", "done", "dead"}]
  /\ up \in [Clients -> Seq(Data)] /\ eof \in [Clients -> BOOLEAN]
  /\ conn \in [Clients -> {"none", "queued", "status0", "status1", "closed"}]
  /\ busy \in Clients \cup {NULL}
  /\ DOMAIN down = Clients /\ DOMAIN request = Clients /\ DOMAIN result = Clients
  /\ DOMAIN files \subseteq Names /\ \A f \in DOMAIN files : files[f] \in Seq(Data)
  /\ fileList \in Seq(Names)

Storing(c) == busy = c /\ Verb[c] = "PUT"

(* How far a request has come, on both sides. *)
Course(c) ==
  /\ conn[c] = "none" <=> pc[c] = "start"
  /\ pc[c] = "header" => HeaderUnread(c)
  /\ pc[c] = "body" => Verb[c] = "PUT"
  /\ conn[c] \in {"none", "queued", "status0"} => down[c] = NULL
  /\ conn[c] = "status1" => request[c] = [verb |-> Verb[c], name |-> Name[c]]
  /\ conn[c] = "status1" /\ busy # c /\ exited = "no" => down[c] = NULL
  /\ result[c] # NULL => Ended(c)
  /\ busy = c => /\ conn[c] = "status1"
                 /\ Verb[c] \in {"PUT", "GET", "LIST"} \/ exited # "no"
                 /\ Verb[c] = "PUT" => down[c] = NULL
Protocol == \A c \in Clients : Course(c)

(* What is on its way from a client to its file: the header, while it is    *)
(* unread, and the buffers of the local file in order, without a gap.       *)
Headers(c) == IF HeaderUnread(c) THEN 1 ELSE 0
Stored(c) == IF Storing(c) THEN Len(files[Name[c]]) ELSE 0
Upload(c) ==
  /\ pc[c] \in {"start", "header"} => up[c] = <<>>
  /\ pc[c] \in {"body", "response", "done"} => Len(up[c]) >= Headers(c)
  /\ pc[c] \in {"start", "header", "body"} => ~eof[c] /\ conn[c] # "closed"
  /\ Verb[c] # "PUT" => Len(up[c]) <= Headers(c)
  /\ Storing(c) => /\ Name[c] \in DOMAIN files
                   /\ \A k \in 1..Len(files[Name[c]]) : files[Name[c]][k] = <<c, k>>
  /\ conn[c] # "closed" =>
       /\ \A k \in 1..Len(up[c]) : up[c][k] = <<c, k - Headers(c) + Stored(c)>>
       /\ Len(up[c]) - Headers(c) + Stored(c) <= Buffers
       /\ Verb[c] = "PUT" /\ eof[c] /\ pc[c] # "dead" =>
            Len(up[c]) - Headers(c) + Stored(c) = Buffers
Uploads == exited = "no" => \A c \in Clients : Upload(c)

(* fileList has no name twice, and all files but the one being stored. *)
Distinct == \A k, l \in 1..Len(fileList) : fileList[k] = fileList[l] => k = l
Listing ==
  exited = "no" =>
    /\ Distinct
    /\ ToSet(fileList) \subseteq DOMAIN files
    /\ \A f \in DOMAIN files \ ToSet(fileList) :
         \E c \in Clients : Storing(c) /\ Name[c] = f

(* s begins an upload of d under the name f, of which n buffers arrived:    *)
(* all of them, unless d was killed.                                        *)
Begins(s, d, f, n) ==
  /\ Verb[d] = "PUT" /\ Name[d] = f /\ down[d] # NULL
  /\ n \in 0..Buffers /\ (pc[d] # "dead" => n = Buffers)
  /\ Len(s) <= n /\ \A k \in 1..Len(s) : s[k] = <<d, k>>

Contents ==
  exited = "no" => \A f \in DOMAIN files :
    \/ \E c \in Clients : Storing(c) /\ Name[c] = f
    \/ \E d \in Clients : Begins(files[f], d, f, Len(files[f]))

(* A reply to GET begins an upload, and its size is the upload's: the       *)
(* server sends what the file holds, which nobody changes meanwhile.        *)
Sending(c) ==
  /\ Name[c] \in DOMAIN files
  /\ down[c].size = NULL => down[c].body = <<>>
  /\ down[c].size # NULL =>
       /\ down[c].size = Len(files[Name[c]]) /\ Len(down[c].body) <= down[c].size
       /\ \A k \in 1..Len(down[c].body) : down[c].body[k] = files[Name[c]][k]
Reply(c) ==
  Verb[c] = "GET" /\ down[c] # NULL =>
    /\ down[c] \in [ok : BOOLEAN, bare : {FALSE}, size : Nat \cup {NULL}, body : Seq(Data)]
    /\ down[c].size = NULL => down[c].body = <<>>
    /\ down[c].size # NULL =>
         \E d \in Clients : Begins(down[c].body, d, Name[c], down[c].size)
    /\ busy = c /\ exited = "no" => Sending(c)
    /\ result[c] # NULL /\ result[c].ok =>
         /\ result[c].body = down[c].body
         /\ down[c].size # NULL => Len(down[c].body) = down[c].size
Replies ==
  \A c \in Clients :
    /\ Reply(c)
    /\ Verb[c] = "GET" /\ result[c] # NULL /\ result[c].ok => down[c] # NULL

(* The inductive invariants: the protocol and the list, and with the        *)
(* contents.                                                                *)
ServerInv == FSTypeOK /\ Protocol /\ Uploads /\ Listing
ContentInv == ServerInv /\ Contents /\ Replies

USE FileServerAssumption

LEMMA ServerInit == Init => ServerInv
<1> SUFFICES ASSUME Init PROVE ServerInv
  OBVIOUS
<1>1. FSTypeOK
  BY DEF Init, FSTypeOK
<1>2. Protocol
  BY DEF Init, Protocol, Course, HeaderUnread
<1>3. Uploads
  BY DEF Init, Uploads, Upload, Headers, HeaderUnread, Stored, Storing
<1>4. Listing
  BY DEF Init, Listing, Distinct, ToSet
<1> QED
  BY <1>1, <1>2, <1>3, <1>4 DEF ServerInv

(* The numbers of the upload of one client. *)
LEMMA Numbers ==
  ASSUME FSTypeOK, NEW d \in Clients, Storing(d) => Name[d] \in DOMAIN files
  PROVE  Headers(d) \in {0, 1} /\ Stored(d) \in Nat /\ up[d] \in Seq(Data) /\ Len(up[d]) \in Nat
<1>0. up[d] \in Seq(Data)
  BY DEF FSTypeOK
<1>1. Headers(d) \in {0, 1} /\ up[d] \in Seq(Data) /\ Len(up[d]) \in Nat
  BY <1>0 DEF Headers
<1>2. CASE Storing(d)
  <2>1. files[Name[d]] \in Seq(Data)
    BY <1>2 DEF FSTypeOK
  <2> QED
    BY <1>1, <1>2, <2>1 DEF Stored
<1>3. CASE ~Storing(d)
  BY <1>1, <1>3 DEF Stored
<1> QED
  BY <1>2, <1>3

(* What a step leaves alone it does not disturb. *)
LEMMA UploadSame ==
  ASSUME NEW d \in Clients, Upload(d), Verb' = Verb, pc'[d] = pc[d], up'[d] = up[d],
         eof'[d] = eof[d], conn'[d] = conn[d],
         busy' = d /\ Verb[d] = "PUT" <=> busy = d /\ Verb[d] = "PUT",
         busy = d /\ Verb[d] = "PUT" =>
           Name[d] \in DOMAIN files' /\ files'[Name[d]] = files[Name[d]]
  PROVE  Upload(d)'
<1>1. Storing(d)' <=> Storing(d)
  BY DEF Storing
<1>2. Headers(d)' = Headers(d) /\ Stored(d)' = Stored(d)
  BY <1>1 DEF Headers, HeaderUnread, Stored, Storing
<1> QED
  BY <1>1, <1>2 DEF Upload, Storing

LEMMA ListingSame ==
  ASSUME exited' = exited, Listing, UNCHANGED <<Verb, fileList>>, DOMAIN files' = DOMAIN files,
         \A c \in Clients : busy = c /\ Verb[c] = "PUT" => busy' = c
  PROVE  Listing'
  BY DEF Listing, Distinct, Storing

LEMMA ConnectServer ==
  ASSUME ServerInv, NEW c \in Clients, connect(c), Verb' = Verb
  PROVE  ServerInv'
<1>1. FSTypeOK'
  BY DEF ServerInv, FSTypeOK, connect
<1>2. Protocol'
  BY DEF ServerInv, FSTypeOK, Protocol, Course, HeaderUnread, Ended, connect
<1>3. ASSUME exited' = "no", NEW d \in Clients PROVE Upload(d)'
  <2>0. Upload(d)
    BY <1>3 DEF ServerInv, Uploads, connect
  <2>1. CASE d # c
    BY ZenonT(60), <2>0, <2>1, UploadSame DEF connect, ServerInv, FSTypeOK, Upload, Storing
  <2>2. CASE d = c
    <3>0. pc[c] = "start" /\ conn[c] = "none" /\ busy # c
      BY DEF connect, ServerInv, Protocol, Course
    <3>1. /\ busy' # c /\ up'[c] = <<>> /\ eof'[c] = FALSE /\ pc'[c] = "header" /\ conn'[c] = "queued"
      BY <2>0, <2>2, <3>0 DEF connect, ServerInv, FSTypeOK, Upload
    <3>2. Headers(c)' = 1 /\ Stored(c)' = 0 /\ ~Storing(c)'
      BY <3>1 DEF Headers, HeaderUnread, Stored, Storing
    <3> QED
      BY <2>2, <3>1, <3>2 DEF Upload
  <2> QED
    BY <2>1, <2>2
<1>4. Listing'
  BY ListingSame DEF ServerInv, connect
<1> QED
  BY <1>1, <1>2, <1>3, <1>4 DEF ServerInv, Uploads

LEMMA SendHeaderServer ==
  ASSUME ServerInv, NEW c \in Clients, send_header(c), Verb' = Verb
  PROVE  ServerInv'
<1>0. up[c] \in Seq(Data) /\ <<c, 0>> \in Data
  BY DEF ServerInv, FSTypeOK, Data
<1>1. FSTypeOK'
  BY <1>0, AppendOne DEF ServerInv, FSTypeOK, send_header
<1>2. Protocol'
  BY DEF ServerInv, FSTypeOK, Protocol, Course, HeaderUnread, Ended, send_header
<1>3. ASSUME exited' = "no", NEW d \in Clients PROVE Upload(d)'
  <2>0. Upload(d)
    BY <1>3 DEF ServerInv, Uploads, send_header
  <2>1. CASE d # c
    BY ZenonT(60), <2>0, <2>1, UploadSame DEF send_header, ServerInv, FSTypeOK, Upload, Storing
  <2>2. CASE d = c
    <3>1. /\ HeaderUnread(c) /\ HeaderUnread(c)' /\ ~Storing(c)'
          /\ up[c] = <<>> /\ eof'[c] = FALSE /\ conn'[c] # "closed"
      BY <2>0, <2>2 DEF Upload, ServerInv, FSTypeOK, Protocol, Course, HeaderUnread, Storing,
                        send_header
    <3>2. up'[c] = Append(<<>>, <<c, 0>>)
      BY <3>1 DEF send_header, ServerInv, FSTypeOK
    <3>3. Len(up'[c]) = 1 /\ up'[c][1] = <<c, 0>>
      BY <3>2
    <3>4. Headers(c)' = 1 /\ Stored(c)' = 0
      BY <3>1 DEF Headers, Stored
    <3>5. pc'[c] \in {"body", "response"}
      BY DEF send_header, ServerInv, FSTypeOK
    <3>6. \A k \in 1..Len(up'[c]) : up'[c][k] = <<c, k - 1 + 0>>
      BY <3>3
    <3> QED
      BY <2>2, <3>1, <3>3, <3>4, <3>5, <3>6 DEF Upload
  <2> QED
    BY <2>1, <2>2
<1>4. Listing'
  BY ListingSame DEF ServerInv, send_header
<1> QED
  BY <1>1, <1>2, <1>3, <1>4 DEF ServerInv, Uploads

(* The next buffer, when the client has sent n of them, is number n + 1. *)
LEMMA PutRequestServer ==
  ASSUME ServerInv, NEW c \in Clients, put_request(c), Verb' = Verb
  PROVE  ServerInv'
<1>0. /\ pc[c] = "body" /\ Verb[c] = "PUT" /\ exited = "no" /\ exited' = "no"
      /\ Upload(c) /\ Len(up[c]) >= Headers(c) /\ conn[c] # "closed" /\ ~eof[c]
  BY DEF put_request, ServerInv, Protocol, Course, Uploads, Upload
<1>1. Headers(c) \in {0, 1} /\ Stored(c) \in Nat /\ up[c] \in Seq(Data) /\ Len(up[c]) \in Nat
  BY <1>0, Numbers DEF Upload, ServerInv
<1>2. Sent(c) = Len(up[c]) - Headers(c) + Stored(c) /\ Sent(c) \in Nat
  <2>1. (IF busy = c THEN Len(files[Name[c]]) ELSE 0) = Stored(c)
    BY <1>0 DEF Stored, Storing
  <2>2. Sent(c) = Len(up[c]) - Headers(c) + Stored(c)
    BY <2>1 DEF Sent, Headers
  <2> QED
    BY <1>0, <1>1, <2>2
<1>3. Headers(c)' = Headers(c) /\ Stored(c)' = Stored(c) /\ (Storing(c)' <=> Storing(c))
  BY DEF Headers, HeaderUnread, Stored, Storing, put_request
<1>4. \A d \in Clients \ {c} : Upload(d)'
  <2> SUFFICES ASSUME NEW d \in Clients \ {c} PROVE Upload(d)'
    OBVIOUS
  <2>1. Upload(d)
    BY <1>0 DEF ServerInv, Uploads
  <2>2. pc'[d] = pc[d] /\ up'[d] = up[d] /\ eof'[d] = eof[d]
    BY DEF put_request, ServerInv, FSTypeOK
  <2> QED
    BY <2>1, <2>2, UploadSame DEF put_request, Upload, Storing
<1>5. Listing'
  BY ListingSame DEF ServerInv, put_request
<1>6. ASSUME FSTypeOK', Upload(c)', pc' = [pc EXCEPT ![c] = "response"] \/ pc' = pc
      PROVE  ServerInv'
  <2>1. Protocol'
    <3> SUFFICES ASSUME NEW d \in Clients PROVE Course(d)'
      BY DEF Protocol
    <3>1. Course(d) /\ Course(c)
      BY DEF ServerInv, Protocol
    <3>2. pc'[d] = pc[d] \/ (d = c /\ pc'[c] = "response")
      BY <1>6 DEF ServerInv, FSTypeOK
    <3> QED
      BY <1>0, <3>1, <3>2 DEF put_request, Course, HeaderUnread, Ended
  <2> QED
    BY <1>4, <1>5, <1>6, <2>1 DEF ServerInv, Uploads
<1>7. CASE c \in NoFile
  <2>1. pc' = [pc EXCEPT ![c] = "response"] /\ UNCHANGED <<up, eof>>
    BY <1>7 DEF put_request
  <2>2. FSTypeOK'
    BY <2>1 DEF put_request, ServerInv, FSTypeOK
  <2>3. pc'[c] = "response" /\ eof'[c] = FALSE /\ conn'[c] # "closed" /\ UNCHANGED files
    BY <1>0, <2>1 DEF put_request, ServerInv, FSTypeOK
  <2>4. Upload(c)'
    BY <1>0, <1>3, <2>1, <2>3 DEF Upload
  <2> QED
    BY <1>6, <2>1, <2>2, <2>4
<1>8. CASE c \notin NoFile /\ Sent(c) < Buffers
  <2>1. Whole(c)[Sent(c) + 1] = <<c, Sent(c) + 1>> /\ <<c, Sent(c) + 1>> \in Data
    BY SMTT(40), <1>2, <1>8 DEF Whole, Data
  <2>2. up' = [up EXCEPT ![c] = Append(@, <<c, Sent(c) + 1>>)] /\ UNCHANGED <<eof, pc>>
    BY <1>8, <2>1 DEF put_request
  <2>3. up'[c] = Append(up[c], <<c, Sent(c) + 1>>)
    BY <2>2 DEF ServerInv, FSTypeOK
  <2>4. /\ up'[c] \in Seq(Data) /\ Len(up'[c]) = Len(up[c]) + 1
        /\ \A k \in 1..Len(up[c]) : up'[c][k] = up[c][k]
        /\ up'[c][Len(up[c]) + 1] = <<c, Sent(c) + 1>>
    BY <1>1, <2>1, <2>3, AppendOne
  <2>5. FSTypeOK'
    BY <2>2, <2>4 DEF put_request, ServerInv, FSTypeOK
  <2>6. \A k \in 1..Len(up'[c]) : up'[c][k] = <<c, k - Headers(c) + Stored(c)>>
    <3> SUFFICES ASSUME NEW k \in 1..Len(up'[c])
                 PROVE  up'[c][k] = <<c, k - Headers(c) + Stored(c)>>
      OBVIOUS
    <3>1. CASE k \in 1..Len(up[c])
      BY <1>0, <2>4, <3>1 DEF Upload
    <3>2. CASE k = Len(up[c]) + 1
      <4>1. Sent(c) + 1 = k - Headers(c) + Stored(c)
        BY SMTT(40), <1>1, <1>2, <3>2
      <4> QED
        BY <2>4, <3>2, <4>1
    <3> QED
      BY <1>1, <2>4, <3>1, <3>2
  <2>7. Len(up'[c]) - Headers(c) + Stored(c) <= Buffers /\ Len(up'[c]) >= Headers(c)
    BY SMTT(40), <1>0, <1>1, <1>2, <1>8, <2>4
  <2>8. pc'[c] = "body" /\ Verb'[c] = "PUT" /\ eof'[c] = FALSE /\ conn'[c] # "closed"
        /\ UNCHANGED files
    BY <1>0, <2>2 DEF put_request, ServerInv, FSTypeOK
  <2>9. Upload(c)'
    BY <1>0, <1>3, <2>6, <2>7, <2>8 DEF Upload
  <2> QED
    BY <1>6, <2>2, <2>5, <2>9
<1>9. CASE c \notin NoFile /\ ~(Sent(c) < Buffers)
  <2>1. /\ eof' = [eof EXCEPT ![c] = TRUE] /\ pc' = [pc EXCEPT ![c] = "response"]
        /\ UNCHANGED up
    BY <1>9 DEF put_request
  <2>2. FSTypeOK'
    BY <2>1 DEF put_request, ServerInv, FSTypeOK
  <2>3. Sent(c) = Buffers
    BY <1>0, <1>2, <1>9 DEF Upload
  <2>4. pc'[c] = "response" /\ conn'[c] # "closed" /\ UNCHANGED files
    BY <1>0, <2>1 DEF put_request, ServerInv, FSTypeOK
  <2>5. Upload(c)'
    BY <1>0, <1>2, <1>3, <2>1, <2>3, <2>4 DEF Upload
  <2> QED
    BY <1>6, <2>1, <2>2, <2>5
<1> QED
  BY <1>7, <1>8, <1>9

LEMMA CheckResponseServer ==
  ASSUME ServerInv, NEW c \in Clients, check_response(c), Verb' = Verb
  PROVE  ServerInv'
<1>1. FSTypeOK'
  BY DEF ServerInv, FSTypeOK, check_response
<1>2. Protocol'
  <2> SUFFICES ASSUME NEW d \in Clients PROVE Course(d)'
    BY DEF Protocol
  <2>1. Course(d) /\ Course(c)
    BY DEF ServerInv, Protocol
  <2>2. result'[d] = result[d] \/ Ended(d)
    BY DEF check_response, ServerInv, FSTypeOK
  <2>3. pc'[d] = pc[d] \/ (d = c /\ pc'[d] = "done" /\ pc[d] # "start")
    BY DEF check_response, ServerInv, FSTypeOK
  <2> QED
    BY <2>1, <2>2, <2>3 DEF check_response, Course, HeaderUnread, Ended
<1>3. ASSUME exited' = "no", NEW d \in Clients PROVE Upload(d)'
  <2>0. Upload(d)
    BY <1>3 DEF ServerInv, Uploads, check_response
  <2>1. CASE d # c
    BY <2>0, <2>1, UploadSame DEF check_response, ServerInv, FSTypeOK, Upload, Storing
  <2>2. CASE d = c
    <3>1. pc[c] = "response" /\ pc'[c] = "done"
      BY <1>3 DEF check_response, ServerInv, FSTypeOK
    <3>2. /\ Headers(c)' = Headers(c) /\ Stored(c)' = Stored(c) /\ (Storing(c)' <=> Storing(c))
          /\ UNCHANGED <<up, eof, conn, files>>
      BY DEF Headers, HeaderUnread, Stored, Storing, check_response
    <3> QED
      BY <2>0, <2>2, <3>1, <3>2 DEF Upload
  <2> QED
    BY <2>1, <2>2
<1>4. Listing'
  BY ListingSame DEF ServerInv, check_response
<1> QED
  BY <1>1, <1>2, <1>3, <1>4 DEF ServerInv, Uploads

LEMMA DieServer ==
  ASSUME ServerInv, NEW c \in Clients, die(c), Verb' = Verb
  PROVE  ServerInv'
<1>1. FSTypeOK'
  BY DEF ServerInv, FSTypeOK, die
<1>2. Protocol'
  <2> SUFFICES ASSUME NEW d \in Clients PROVE Course(d)'
    BY DEF Protocol
  <2>1. Course(d) /\ Course(c)
    BY DEF ServerInv, Protocol
  <2>2. pc'[d] = pc[d] \/ (d = c /\ pc'[d] = "dead" /\ pc[d] # "start")
    BY DEF die, ServerInv, FSTypeOK
  <2> QED
    BY <2>1, <2>2 DEF die, Course, HeaderUnread, Ended
<1>3. ASSUME exited' = "no", NEW d \in Clients PROVE Upload(d)'
  <2>0. Upload(d)
    BY <1>3 DEF ServerInv, Uploads, die
  <2>1. CASE d # c
    BY ZenonT(60), <2>0, <2>1, UploadSame DEF die, ServerInv, FSTypeOK, Upload, Storing
  <2>2. CASE d = c
    <3>1. pc'[c] = "dead"
      BY DEF die, ServerInv, FSTypeOK
    <3>2. /\ Headers(c)' = Headers(c) /\ Stored(c)' = Stored(c) /\ (Storing(c)' <=> Storing(c))
          /\ UNCHANGED <<up, conn, files>>
      BY DEF Headers, HeaderUnread, Stored, Storing, die
    <3> QED
      BY <2>0, <2>2, <3>1, <3>2 DEF Upload
  <2> QED
    BY <2>1, <2>2
<1>4. Listing'
  BY ListingSame DEF ServerInv, die
<1> QED
  BY <1>1, <1>2, <1>3, <1>4 DEF ServerInv, Uploads

LEMMA AcceptServer ==
  ASSUME ServerInv, NEW c \in Clients, accept(c), Verb' = Verb
  PROVE  ServerInv'
<1>1. FSTypeOK'
  BY DEF ServerInv, FSTypeOK, accept, client
<1>2. Protocol'
  <2> SUFFICES ASSUME NEW d \in Clients PROVE Course(d)'
    BY DEF Protocol
  <2>1. Course(d) /\ Course(c)
    BY DEF ServerInv, Protocol
  <2>2. conn'[d] = conn[d] \/ (d = c /\ conn'[d] = "status0" /\ conn[d] = "queued")
    BY DEF accept, ServerInv, FSTypeOK
  <2> QED
    BY <2>1, <2>2 DEF accept, Course, HeaderUnread, Ended, Serving, client
<1>3. ASSUME exited' = "no", NEW d \in Clients PROVE Upload(d)'
  <2>0. Upload(d)
    BY <1>3 DEF ServerInv, Uploads, accept
  <2>1. CASE d # c
    BY ZenonT(60), <2>0, <2>1, UploadSame DEF accept, ServerInv, FSTypeOK, Upload, Storing, client
  <2>2. CASE d = c
    <3>1. conn'[c] = "status0" /\ conn[c] = "queued"
      BY DEF accept, ServerInv, FSTypeOK
    <3>2. /\ Headers(c)' = Headers(c) /\ Stored(c)' = Stored(c) /\ (Storing(c)' <=> Storing(c))
          /\ UNCHANGED <<up, eof, pc, files>>
      BY <3>1 DEF Headers, HeaderUnread, Stored, Storing, accept, client
    <3> QED
      BY <2>0, <2>2, <3>1, <3>2 DEF Upload
  <2> QED
    BY <2>1, <2>2
<1>4. Listing'
  BY ListingSame DEF ServerInv, accept
<1> QED
  BY <1>1, <1>2, <1>3, <1>4 DEF ServerInv, Uploads

(* The tail of a sequence. *)
LEMMA TailOne ==
  ASSUME NEW S, NEW s \in Seq(S), s # <<>>
  PROVE  /\ Tail(s) \in Seq(S) /\ Len(Tail(s)) = Len(s) - 1 /\ Len(s) \in Nat \ {0}
         /\ \A k \in 1..Len(Tail(s)) : Tail(s)[k] = s[k + 1]
         /\ Head(s) = s[1] /\ Head(s) \in S
  OBVIOUS

LEMMA ParsingHeaderServer ==
  ASSUME ServerInv, NEW c \in Clients, parsing_header(c), Verb' = Verb
  PROVE  ServerInv'
<1>0. up[c] \in Seq(Data) /\ exited = "no" /\ busy = NULL /\ conn[c] = "status0"
  BY DEF ServerInv, FSTypeOK, parsing_header, Serving
<1>1. CASE up[c] = <<>>
  <2>0. exited' = "noheader" /\ UNCHANGED <<pc, eof, result, down, busy, files, fileList, request, up, conn>>
    BY <1>1 DEF parsing_header
  <2>1. FSTypeOK'
    BY <2>0 DEF ServerInv, FSTypeOK
  <2>2. Protocol'
    BY <2>0 DEF ServerInv, Protocol, Course, HeaderUnread, Ended
  <2> QED
    BY <2>0, <2>1, <2>2 DEF ServerInv, Uploads, Listing
<1>2. CASE up[c] # <<>>
  <2>0. /\ request' = [request EXCEPT ![c] = [verb |-> Verb[c], name |-> Name[c]]]
        /\ up' = [up EXCEPT ![c] = Tail(@)]
        /\ conn' = [conn EXCEPT ![c] = "status1"]
        /\ UNCHANGED <<exited, pc, eof, result, down, busy, files, fileList>>
    BY <1>2 DEF parsing_header
  <2>t. /\ Tail(up[c]) \in Seq(Data) /\ Len(Tail(up[c])) = Len(up[c]) - 1 /\ Len(up[c]) \in Nat
        /\ \A k \in 1..Len(Tail(up[c])) : Tail(up[c])[k] = up[c][k + 1]
    BY <1>0, <1>2, TailOne
  <2>1. FSTypeOK'
    BY <2>0, <2>t DEF ServerInv, FSTypeOK
  <2>2. Protocol'
    <3> SUFFICES ASSUME NEW d \in Clients PROVE Course(d)'
      BY DEF Protocol
    <3>1. Course(d) /\ Course(c)
      BY DEF ServerInv, Protocol
    <3>2. CASE d # c
      <4>1. conn'[d] = conn[d] /\ request'[d] = request[d]
        BY <2>0, <3>2 DEF ServerInv, FSTypeOK
      <4> QED
        BY <2>0, <3>1, <4>1 DEF Course, HeaderUnread, Ended
    <3>3. CASE d = c
      <4>1. conn'[c] = "status1" /\ request'[c] = [verb |-> Verb[c], name |-> Name[c]]
        BY <2>0 DEF ServerInv, FSTypeOK
      <4>2. up[c] # <<>> /\ Upload(c)
        BY <1>0, <1>2 DEF ServerInv, Uploads
      <4>3. pc[c] # "header"
        BY <4>2 DEF Upload
      <4>4. busy # c /\ busy' # c
        BY <1>0, <2>0
      <4> QED
        BY <1>0, <2>0, <3>1, <3>3, <4>1, <4>3, <4>4 DEF Course, HeaderUnread, Ended
    <3> QED
      BY <3>2, <3>3
  <2>3. ASSUME NEW d \in Clients PROVE Upload(d)'
    <3>0. Upload(d)
      BY <1>0 DEF ServerInv, Uploads
    <3>1. CASE d # c
      <4>1. up'[d] = up[d] /\ conn'[d] = conn[d]
        BY <2>0, <3>1 DEF ServerInv, FSTypeOK
      <4> QED
        BY <2>0, <3>0, <4>1, UploadSame DEF Upload, Storing
    <3>2. CASE d = c
      <4>1. conn'[c] = "status1" /\ up'[c] = Tail(up[c]) /\ up[c] # <<>>
        BY <1>2, <2>0 DEF ServerInv, FSTypeOK
      <4>2. Headers(c) = 1 /\ Headers(c)' = 0 /\ Stored(c) = 0 /\ Stored(c)' = 0 /\ ~Storing(c)'
        BY <1>0, <2>0, <4>1 DEF Headers, HeaderUnread, Stored, Storing
      <4>3. ~(pc[c] \in {"start", "header"})
        BY <1>2, <3>0, <3>2 DEF Upload
      <4> DEFINE u == up[c]
                 t == Tail(up[c])
      <4>u. /\ t \in Seq(Data) /\ Len(t) = Len(u) - 1 /\ Len(u) \in Nat
            /\ \A k \in 1..Len(t) : t[k] = u[k + 1]
            /\ up'[c] = t
        BY <2>t, <4>1
      <4>v. Upload(c) /\ conn[c] # "closed"
        BY <1>0, <3>0, <3>2
      <4>6. /\ pc[c] \in {"body", "response", "done"} => Len(u) >= 1
            /\ pc[c] = "body" => ~eof[c]
            /\ Verb[c] # "PUT" => Len(u) <= 1
            /\ Len(u) - 1 + 0 <= Buffers
            /\ Verb[c] = "PUT" /\ eof[c] /\ pc[c] # "dead" => Len(u) - 1 + 0 = Buffers
            /\ \A k \in 1..Len(u) : u[k] = <<c, k - 1 + 0>>
        BY <4>2, <4>v DEF Upload
      <4> HIDE DEF u, t
      <4>4. \A k \in 1..Len(t) : t[k] = <<c, k - 0 + 0>>
        <5> SUFFICES ASSUME NEW k \in 1..Len(t) PROVE t[k] = <<c, k - 0 + 0>>
          OBVIOUS
        <5>1. k + 1 \in 1..Len(u) /\ k + 1 - 1 + 0 = k - 0 + 0
          BY <4>u
        <5> QED
          BY SMTT(40), <4>u, <4>6, <5>1
      <4>5. UNCHANGED <<Verb, pc, eof>>
        BY <2>0
      <4>7. /\ ~(pc'[c] \in {"start", "header"})
            /\ Len(up'[c]) >= 0
            /\ pc'[c] = "body" => ~eof'[c]
            /\ Verb'[c] # "PUT" => Len(up'[c]) <= 0
            /\ Len(up'[c]) - 0 + 0 <= Buffers
            /\ Verb'[c] = "PUT" /\ eof'[c] /\ pc'[c] # "dead" => Len(up'[c]) - 0 + 0 = Buffers
        BY <4>3, <4>5, <4>6, <4>u
      <4>8. \A k \in 1..Len(up'[c]) : up'[c][k] = <<c, k - 0 + 0>>
        BY <4>4, <4>u
      <4> QED
        BY <3>2, <4>1, <4>2, <4>7, <4>8 DEF Upload
    <3> QED
      BY <3>1, <3>2
  <2>4. Listing'
    BY <2>0, ListingSame DEF ServerInv
  <2> QED
    BY <2>1, <2>2, <2>3, <2>4 DEF ServerInv, Uploads
<1> QED
  BY <1>1, <1>2

(* The fields of a parsed header. *)
LEMMA RequestFields ==
  ASSUME NEW r, NEW v, NEW n, r = [verb |-> v, name |-> n]
  PROVE  r.verb = v /\ r.name = n
  OBVIOUS

(* The server begins a reply. *)
LEMMA WriteOKServer ==
  ASSUME ServerInv, NEW c \in Clients, Serving, conn[c] = "status1",
         Verb[c] \in {"GET", "LIST"}, WriteOK(c), Verb' = Verb,
         UNCHANGED <<client, conn, request, files, fileList, exited>>
  PROVE  ServerInv'
<1>0. busy = NULL /\ busy' = c /\ exited = "no" /\ exited' = "no" /\ NULL \notin Clients
  BY DEF Serving, WriteOK
<1>1. FSTypeOK'
  BY DEF ServerInv, FSTypeOK, WriteOK, client
<1>2. Protocol'
  <2> SUFFICES ASSUME NEW d \in Clients PROVE Course(d)'
    BY DEF Protocol
  <2>1. Course(d)
    BY DEF ServerInv, Protocol
  <2>2. d # c => down'[d] = down[d]
    BY DEF WriteOK, ServerInv, FSTypeOK
  <2> QED
    BY <1>0, <2>1, <2>2 DEF Course, HeaderUnread, Ended, client
<1>3. ASSUME NEW d \in Clients PROVE Upload(d)'
  <2>1. Upload(d)
    BY <1>0 DEF ServerInv, Uploads
  <2> QED
    BY <1>0, <2>1, UploadSame DEF client
<1>4. Listing'
  BY <1>0, ListingSame DEF ServerInv
<1> QED
  BY <1>1, <1>2, <1>3, <1>4 DEF ServerInv, Uploads

(* The server ends, in the middle of a request or not. *)
LEMMA ExitServer ==
  ASSUME ServerInv, exited' # "no", Verb' = Verb, FSTypeOK',
         UNCHANGED <<client, conn, request, busy>>,
         \A d \in Clients : conn[d] \in {"none", "queued", "status0"} => down'[d] = down[d],
         \A d \in Clients : busy = d /\ Verb[d] = "PUT" => down'[d] = down[d]
  PROVE  ServerInv'
<1>1. Protocol'
  <2> SUFFICES ASSUME NEW d \in Clients PROVE Course(d)'
    BY DEF Protocol
  <2>1. Course(d)
    BY DEF ServerInv, Protocol
  <2> QED
    BY <2>1 DEF Course, HeaderUnread, Ended, client
<1> QED
  BY <1>1 DEF ServerInv, Uploads, Listing

LEMMA ExecuteGetServer ==
  ASSUME ServerInv, NEW c \in Clients, execute_get(c), Verb' = Verb
  PROVE  ServerInv'
<1>0. Serving /\ conn[c] = "status1" /\ request[c] = [verb |-> Verb[c], name |-> Name[c]]
  BY DEF execute_get, Executes, ServerInv, Protocol, Course
<1>1. Verb[c] = "GET"
  <2>1. request[c].verb = Verb[c]
    BY <1>0, RequestFields
  <2> QED
    BY <2>1 DEF execute_get, Executes
<1>2. CASE request[c].name \in DOMAIN files
  BY <1>0, <1>1, <1>2, WriteOKServer DEF execute_get
<1>3. CASE request[c].name \notin DOMAIN files
  <2>1. exited' = "nofile" /\ UNCHANGED <<down, busy, client, conn, request, files, fileList>>
    BY <1>3 DEF execute_get
  <2>2. FSTypeOK'
    BY <2>1 DEF ServerInv, FSTypeOK, client
  <2> QED
    BY <2>1, <2>2, ExitServer
<1> QED
  BY <1>2, <1>3

LEMMA ExecuteListServer ==
  ASSUME ServerInv, NEW c \in Clients, execute_list(c), Verb' = Verb
  PROVE  ServerInv'
<1>0. Serving /\ conn[c] = "status1" /\ request[c] = [verb |-> Verb[c], name |-> Name[c]]
  BY DEF execute_list, Executes, ServerInv, Protocol, Course
<1>1. Verb[c] = "LIST"
  <2>1. request[c].verb = Verb[c]
    BY <1>0, RequestFields
  <2> QED
    BY <2>1 DEF execute_list, Executes
<1> QED
  BY <1>0, <1>1, WriteOKServer DEF execute_list

LEMMA SigintServer ==
  ASSUME ServerInv, sigint_handler, Verb' = Verb
  PROVE  ServerInv'
<1>0. files' = <<>> /\ DOMAIN <<>> = {}
  BY DEF sigint_handler
<1>1. FSTypeOK'
  BY <1>0 DEF sigint_handler, ServerInv, FSTypeOK, client
<1> QED
  BY <1>1, ExitServer DEF sigint_handler

(* A reply is over. *)
LEMMA WriteAllServer ==
  ASSUME ServerInv, NEW c \in Clients, write_all(c), Verb' = Verb
  PROVE  ServerInv'
<1>0. /\ exited = "no" /\ exited' = "no" /\ busy = c /\ down[c] # NULL
      /\ UNCHANGED <<client, request, files, fileList>> /\ NULL \notin Clients
  BY DEF write_all
<1>1. Course(c) /\ Upload(c)
  BY <1>0 DEF ServerInv, Protocol, Uploads
<1>2. Verb[c] # "PUT" /\ conn[c] = "status1"
  BY <1>0, <1>1 DEF Course
<1>3. DOMAIN down' = Clients /\ \A d \in Clients \ {c} : down'[d] = down[d]
  BY DEF write_all, ServerInv, FSTypeOK
<1>4. \/ UNCHANGED <<conn, busy>>
      \/ Finish(c) /\ UNCHANGED down
  BY DEF write_all
<1>5. FSTypeOK'
  BY <1>0, <1>3, <1>4 DEF ServerInv, FSTypeOK, client, Finish
<1>6. \A d \in Clients : conn'[d] = conn[d] \/ (d = c /\ conn'[d] = "closed")
  BY <1>4 DEF ServerInv, FSTypeOK, Finish
<1>7. busy' = busy \/ (busy' = NULL /\ conn'[c] = "closed")
  BY <1>4 DEF ServerInv, FSTypeOK, Finish
<1>8. Protocol'
  <2> SUFFICES ASSUME NEW d \in Clients PROVE Course(d)'
    BY DEF Protocol
  <2>1. Course(d)
    BY DEF ServerInv, Protocol
  <2>2. CASE d # c
    <3>1. conn'[d] = conn[d] /\ down'[d] = down[d] /\ busy' # d /\ busy # d
      BY <1>0, <1>3, <1>6, <1>7, <2>2
    <3> QED
      BY <1>0, <2>1, <3>1 DEF Course, HeaderUnread, Ended, client
  <2>3. CASE d = c
    <3>1. CASE UNCHANGED <<conn, busy>>
      BY <1>0, <1>2, <2>1, <2>3, <3>1 DEF Course, HeaderUnread, Ended, client
    <3>2. CASE conn'[c] = "closed" /\ busy' = NULL
      BY <1>0, <1>2, <2>1, <2>3, <3>2 DEF Course, HeaderUnread, Ended, client
    <3> QED
      BY <1>4, <3>1, <3>2 DEF ServerInv, FSTypeOK, Finish
  <2> QED
    BY <2>2, <2>3
<1>9. ASSUME NEW d \in Clients PROVE Upload(d)'
  <2>1. Upload(d)
    BY <1>0 DEF ServerInv, Uploads
  <2>2. CASE conn'[d] = conn[d]
    BY <1>0, <1>2, <1>7, <2>1, <2>2, UploadSame DEF client
  <2>3. CASE d = c /\ conn'[c] = "closed"
    <3>1. /\ pc[c] # "start" /\ pc[c] # "header" /\ pc[c] # "body"
      BY <1>1, <1>2 DEF Course, HeaderUnread
    <3>2. Headers(c) = 0 /\ Headers(c)' = 0 /\ ~Storing(c)'
      BY <1>0, <1>2, <2>3 DEF Headers, HeaderUnread, Storing
    <3> QED
      BY <1>0, <1>1, <1>2, <2>3, <3>1, <3>2 DEF Upload, client
  <2> QED
    BY <1>6, <2>2, <2>3
<1>10. Listing'
  BY <1>0, <1>2, ListingSame DEF ServerInv
<1> QED
  BY <1>5, <1>8, <1>9, <1>10 DEF ServerInv, Uploads

(* An upload whose file cannot be opened ends the server. *)
LEMMA PutRefusedServer ==
  ASSUME ServerInv, NEW c \in Clients, execute_put_open(c), exited' # exited, Verb' = Verb
  PROVE  ServerInv' /\ exited' # "no" /\ UNCHANGED <<client, down, busy, files>>
<1>1. exited' = "noopen" /\ UNCHANGED <<down, busy, client, conn, request, files, fileList>>
  BY DEF execute_put_open
<1>2. FSTypeOK'
  BY <1>1 DEF ServerInv, FSTypeOK, client
<1> QED
  BY <1>1, <1>2, ExitServer

(* An upload begins: the file is there, empty. *)
LEMMA PutOpenServer ==
  ASSUME ServerInv, NEW c \in Clients, execute_put_open(c), exited' = exited, Verb' = Verb
  PROVE  ServerInv'
<1>0. Serving /\ conn[c] = "status1" /\ request[c] = [verb |-> Verb[c], name |-> Name[c]]
  BY DEF execute_put_open, Executes, ServerInv, Protocol, Course
<1>1. request[c].verb = Verb[c] /\ request[c].name = Name[c]
  BY <1>0, RequestFields
<1>2. /\ Verb[c] = "PUT" /\ busy = NULL /\ busy' = c /\ exited = "no" /\ exited' = "no"
      /\ UNCHANGED <<client, down, conn, request, fileList>> /\ NULL \notin Clients
      /\ files' = With(files, Name[c], <<>>)
  <2>1. exited = "no" /\ exited' # "noopen"
    BY <1>0 DEF Serving
  <2> QED
    BY <1>0, <1>1, <2>1 DEF execute_put_open, Executes, Serving, Opened
<1>3. /\ DOMAIN files' = DOMAIN files \cup {Name[c]}
      /\ \A f \in DOMAIN files' : files'[f] = IF f = Name[c] THEN <<>> ELSE files[f]
  BY <1>2 DEF With
<1>4. <<>> \in Seq(Data) /\ Len(<<>>) = 0 /\ Name[c] \in Names
  BY DEF Names
<1>5. FSTypeOK'
  BY <1>2, <1>3, <1>4 DEF ServerInv, FSTypeOK, client
<1>6. Protocol'
  <2> SUFFICES ASSUME NEW d \in Clients PROVE Course(d)'
    BY DEF Protocol
  <2>1. Course(d)
    BY DEF ServerInv, Protocol
  <2> QED
    BY <1>0, <1>2, <2>1 DEF Course, HeaderUnread, Ended, client
<1>7. ASSUME NEW d \in Clients PROVE Upload(d)'
  <2>1. Upload(d)
    BY <1>2 DEF ServerInv, Uploads
  <2>2. CASE d # c
    BY <1>2, <2>1, <2>2, UploadSame DEF client
  <2>3. CASE d = c
    <3>1. /\ Storing(c)' /\ ~Storing(c) /\ Name[c] \in DOMAIN files' /\ files'[Name[c]] = <<>>
      BY <1>2, <1>3 DEF Storing
    <3>2. Stored(c) = 0 /\ Stored(c)' = 0 /\ Headers(c)' = Headers(c)
      BY <1>2, <1>4, <3>1 DEF Stored, Headers, HeaderUnread
    <3> QED
      BY <1>2, <1>4, <2>1, <2>3, <3>1, <3>2 DEF Upload, client
  <2> QED
    BY <2>2, <2>3
<1>8. Listing'
  <2>1. \A f \in DOMAIN files : f \in ToSet(fileList)
    BY <1>2 DEF ServerInv, Listing, Storing
  <2>2. Storing(c)'
    BY <1>2 DEF Storing
  <2>3. Distinct' /\ ToSet(fileList') \subseteq DOMAIN files'
    BY <1>2, <1>3 DEF ServerInv, Listing, Distinct
  <2>4. \A f \in DOMAIN files' \ ToSet(fileList') : Name[c] = f
    BY <1>2, <1>3, <2>1
  <2> QED
    BY <2>2, <2>3, <2>4 DEF Listing
<1> QED
  BY <1>5, <1>6, <1>7, <1>8 DEF ServerInv, Uploads

(* The next buffer goes from the socket to the file. *)
LEMMA PutReadServer ==
  ASSUME ServerInv, NEW c \in Clients, execute_put_read(c), Verb' = Verb
  PROVE  ServerInv'
<1>0. /\ exited = "no" /\ exited' = "no" /\ busy = c /\ up[c] # <<>>
      /\ up' = [up EXCEPT ![c] = Tail(@)]
      /\ UNCHANGED <<pc, eof, result, down, conn, request, busy, fileList>>
  BY DEF execute_put_read
<1>1. Course(c) /\ Upload(c) /\ up[c] \in Seq(Data)
  BY <1>0 DEF ServerInv, Protocol, Uploads, FSTypeOK
<1>2. conn[c] = "status1" /\ Headers(c) = 0
  BY <1>0, <1>1 DEF Course, Headers, HeaderUnread
<1>3. request[c].name = Name[c]
  <2>1. request[c] = [verb |-> Verb[c], name |-> Name[c]]
    BY <1>1, <1>2 DEF Course
  <2> QED
    BY <2>1, RequestFields
<1> DEFINE u == up[c]
           t == Tail(up[c])
           old == files[Name[c]]
           new == Append(files[Name[c]], Head(up[c]))
<1>4. /\ t \in Seq(Data) /\ Len(t) = Len(u) - 1 /\ Len(u) \in Nat \ {0}
      /\ \A k \in 1..Len(t) : t[k] = u[k + 1]
      /\ Head(up[c]) = u[1] /\ u[1] \in Data
  BY <1>0, <1>1, TailOne
<1>5. Verb[c] = "PUT" /\ Storing(c)
  <2>1. Verb[c] = "PUT" \/ Len(u) <= 0
    BY <1>1, <1>2 DEF Upload
  <2>0. Len(u) \in Nat \ {0}
    BY <1>4
  <2> HIDE DEF u
  <2>3. ~(Len(u) <= 0)
    BY <2>0
  <2>2. Verb[c] = "PUT"
    BY <2>1, <2>3
  <2> QED
    BY <1>0, <2>2 DEF Storing
<1>6. Name[c] \in DOMAIN files /\ old \in Seq(Data) /\ Len(old) \in Nat /\ Stored(c) = Len(old)
  <2>1. Name[c] \in DOMAIN files
    BY <1>1, <1>5 DEF Upload
  <2>2. old \in Seq(Data)
    BY <2>1 DEF ServerInv, FSTypeOK
  <2> QED
    BY <1>5, <2>1, <2>2 DEF Stored
<1>7. files' = [files EXCEPT ![Name[c]] = new]
  BY <1>3 DEF execute_put_read
<1>8. /\ new \in Seq(Data) /\ Len(new) = Len(old) + 1
      /\ \A k \in 1..Len(old) : new[k] = old[k]
      /\ new[Len(old) + 1] = u[1]
  BY <1>4, <1>6, AppendOne
<1>9. up'[c] = t /\ files'[Name[c]] = new /\ DOMAIN files' = DOMAIN files
  BY <1>0, <1>6, <1>7 DEF ServerInv, FSTypeOK
<1>10. /\ \A k \in 1..Len(u) : u[k] = <<c, k + Len(old)>>
       /\ \A k \in 1..Len(old) : old[k] = <<c, k>>
       /\ Len(u) + Len(old) <= Buffers
       /\ eof[c] /\ pc[c] # "dead" => Len(u) + Len(old) = Buffers
  <2>1. /\ \A k \in 1..Len(u) : u[k] = <<c, k - Headers(c) + Stored(c)>>
        /\ Len(u) - Headers(c) + Stored(c) <= Buffers
        /\ eof[c] /\ pc[c] # "dead" => Len(u) - Headers(c) + Stored(c) = Buffers
    BY <1>1, <1>2, <1>5 DEF Upload
  <2>2. \A k \in 1..Len(old) : old[k] = <<c, k>>
    BY <1>1, <1>5 DEF Upload
  <2> HIDE DEF u, old
  <2>3. \A k \in 1..Len(u) : k - 0 + Len(old) = k + Len(old)
    BY <1>4, <1>6
  <2>4. \A k \in 1..Len(u) : u[k] = <<c, k - 0 + Len(old)>>
    BY <1>2, <1>6, <2>1
  <2>5. Len(u) - Headers(c) + Stored(c) = Len(u) + Len(old)
    <3>1. Len(u) \in Nat /\ Len(old) \in Nat /\ Headers(c) = 0 /\ Stored(c) = Len(old)
      BY <1>2, <1>4, <1>6
    <3>2. \A m, n \in Nat : m - 0 + n = m + n
      OBVIOUS
    <3> QED
      BY <3>1, <3>2
  <2> QED
    BY <2>1, <2>2, <2>3, <2>4, <2>5
<1> HIDE DEF u, t, old, new
<1>11. FSTypeOK'
  BY <1>0, <1>4, <1>6, <1>7, <1>8, <1>9 DEF ServerInv, FSTypeOK
<1>12. Protocol'
  <2> SUFFICES ASSUME NEW d \in Clients PROVE Course(d)'
    BY DEF Protocol
  <2>1. Course(d)
    BY DEF ServerInv, Protocol
  <2> QED
    BY <1>0, <2>1 DEF Course, HeaderUnread, Ended
<1>13. ASSUME NEW d \in Clients PROVE Upload(d)'
  <2>1. CASE d # c
    <3>1. Upload(d) /\ up'[d] = up[d]
      BY <1>0, <2>1 DEF ServerInv, Uploads, FSTypeOK
    <3> QED
      BY <1>0, <2>1, <3>1, UploadSame
  <2>2. CASE d = c
    <3>1. Storing(c)' /\ Stored(c)' = Len(new) /\ Headers(c)' = 0
      BY <1>0, <1>2, <1>5, <1>9 DEF Storing, Stored, Headers, HeaderUnread
    <3>2. \A k \in 1..Len(new) : new[k] = <<c, k>>
      <4> SUFFICES ASSUME NEW k \in 1..Len(new) PROVE new[k] = <<c, k>>
        OBVIOUS
      <4>1. u[1] = <<c, 1 + Len(old)>>
        BY <1>4, <1>10
      <4>2. k \in 1..Len(old) \/ k = Len(old) + 1
        BY <1>6, <1>8
      <4> QED
        BY <1>6, <1>8, <1>10, <4>1, <4>2
    <3>3. \A k \in 1..Len(t) : t[k] = <<c, k - 0 + Len(new)>>
      <4> SUFFICES ASSUME NEW k \in 1..Len(t) PROVE t[k] = <<c, k - 0 + Len(new)>>
        OBVIOUS
      <4>1. k + 1 \in 1..Len(u) /\ k + 1 + Len(old) = k - 0 + Len(new)
        BY <1>4, <1>6, <1>8
      <4> QED
        BY <1>4, <1>10, <4>1
    <3>4. /\ Len(t) - 0 + Len(new) <= Buffers /\ Len(t) >= 0
          /\ eof[c] /\ pc[c] # "dead" => Len(t) - 0 + Len(new) = Buffers
      BY <1>4, <1>6, <1>8, <1>10
    <3>5. /\ ~(pc[c] \in {"start", "header"})
          /\ pc[c] \in {"start", "header", "body"} => ~eof[c] /\ conn[c] # "closed"
      BY <1>1, <1>2 DEF Course, HeaderUnread, Upload
    <3> QED
      BY <1>0, <1>2, <1>5, <1>6, <1>9, <2>2, <3>1, <3>2, <3>3, <3>4, <3>5 DEF Upload
  <2> QED
    BY <2>1, <2>2
<1>14. Listing'
  BY <1>0, <1>9, ListingSame DEF ServerInv
<1> QED
  BY <1>11, <1>12, <1>13, <1>14 DEF ServerInv, Uploads

(* A connection is closed, its request done. *)
LEMMA FinishServer ==
  ASSUME ServerInv, NEW c \in Clients, Verb' = Verb, conn[c] = "status1",
         pc[c] # "body", Finish(c), UNCHANGED <<client, request, exited>>, exited = "no",
         \A d \in Clients \ {c} : down'[d] = down[d] /\ busy # d,
         Stored(c) = 0 \/ eof[c]
  PROVE  Protocol' /\ Uploads'
<1>1. conn'[c] = "closed" /\ busy' = NULL /\ NULL \notin Clients
  BY DEF Finish, ServerInv, FSTypeOK
<1>2. \A d \in Clients \ {c} : conn'[d] = conn[d]
  BY DEF Finish, ServerInv, FSTypeOK
<1>3. Course(c) /\ Upload(c)
  BY DEF ServerInv, Protocol, Uploads
<1>4. ASSUME NEW d \in Clients PROVE Course(d)'
  <2>1. Course(d)
    BY DEF ServerInv, Protocol
  <2>2. CASE d # c
    BY <1>1, <1>2, <2>1, <2>2 DEF Course, HeaderUnread, Ended, client
  <2>3. CASE d = c
    BY <1>1, <2>1, <2>3 DEF Course, HeaderUnread, Ended, client
  <2> QED
    BY <2>2, <2>3
<1>5. ASSUME NEW d \in Clients PROVE Upload(d)'
  <2>1. CASE d # c
    <3>1. Upload(d)
      BY DEF ServerInv, Uploads
    <3> QED
      BY <1>1, <1>2, <2>1, <3>1, UploadSame DEF client
  <2>2. CASE d = c
    <3>1. pc[c] # "start" /\ pc[c] # "header"
      BY <1>3 DEF Course, HeaderUnread
    <3>2. Headers(c) = 0 /\ Headers(c)' = 0 /\ ~Storing(c)'
      BY <1>1 DEF Headers, HeaderUnread, Storing
    <3>3. Verb[c] # "PUT" => Len(up[c]) <= 0
      BY <1>3, <3>2 DEF Upload
    <3>4. pc[c] \in {"response", "done"} => Len(up[c]) >= 0
      BY <1>3, <3>2 DEF Upload
    <3> QED
      BY <1>1, <2>2, <3>1, <3>2, <3>3, <3>4 DEF Upload, client
  <2> QED
    BY <2>1, <2>2
<1> QED
  BY <1>4, <1>5 DEF Protocol, Uploads

(* The client has shut down its side: the file is whole, and listed. *)
LEMMA PutEndServer ==
  ASSUME ServerInv, NEW c \in Clients, execute_put_end(c), Verb' = Verb
  PROVE  ServerInv'
<1>0. /\ exited = "no" /\ busy = c /\ Verb[c] = "PUT" /\ up[c] = <<>> /\ eof[c]
      /\ down' = [down EXCEPT ![c] = OK] /\ Finish(c)
      /\ UNCHANGED <<client, request, files, exited>>
  BY DEF execute_put_end
<1>1. Course(c) /\ Upload(c) /\ Storing(c)
  BY <1>0 DEF ServerInv, Protocol, Uploads, Storing
<1>2. conn[c] = "status1" /\ pc[c] # "body"
  BY <1>0, <1>1 DEF Course, Upload
<1>3. request[c].name = Name[c]
  <2>1. request[c] = [verb |-> Verb[c], name |-> Name[c]]
    BY <1>1, <1>2 DEF Course
  <2> QED
    BY <2>1, RequestFields
<1>4. fileList' = Listed(Name[c])
  BY <1>3 DEF execute_put_end
<1>5. \A d \in Clients \ {c} : down'[d] = down[d] /\ busy # d
  BY <1>0 DEF ServerInv, FSTypeOK
<1>6. Protocol' /\ Uploads'
  BY <1>0, <1>2, <1>5, FinishServer
<1>7. /\ fileList \in Seq(Names) /\ Name[c] \in Names /\ Name[c] \in DOMAIN files
      /\ Distinct /\ ToSet(fileList) \subseteq DOMAIN files
  BY <1>0, <1>1 DEF ServerInv, FSTypeOK, Names, Upload, Listing
<1>8. /\ fileList' \in Seq(Names) /\ Distinct'
      /\ ToSet(fileList') = ToSet(fileList) \cup {Name[c]}
  <2>1. CASE Name[c] \in ToSet(fileList)
    BY <1>4, <1>7, <2>1 DEF Listed, Distinct
  <2>2. CASE Name[c] \notin ToSet(fileList)
    <3>1. fileList' = Append(fileList, Name[c])
      BY <1>4, <2>2 DEF Listed
    <3>2. /\ Append(fileList, Name[c]) \in Seq(Names)
          /\ ToSet(Append(fileList, Name[c])) = ToSet(fileList) \cup {Name[c]}
      BY <1>7, AppendOne
    <3>3. \A k, l \in 1..Len(Append(fileList, Name[c])) :
            Append(fileList, Name[c])[k] = Append(fileList, Name[c])[l] => k = l
      BY <1>7, <2>2, AppendDistinct DEF Distinct
    <3> QED
      BY <3>1, <3>2, <3>3 DEF Distinct
  <2> QED
    BY <2>1, <2>2
<1>9. FSTypeOK'
  BY <1>0, <1>8 DEF ServerInv, FSTypeOK, Finish, client
<1>10. Listing'
  <2>1. \A f \in DOMAIN files \ ToSet(fileList) : f = Name[c]
    BY <1>0 DEF ServerInv, Listing, Storing
  <2> QED
    BY <1>0, <1>7, <1>8, <2>1 DEF Listing
<1> QED
  BY <1>6, <1>9, <1>10 DEF ServerInv

(* The name goes with the file. *)
LEMMA DeleteServer ==
  ASSUME ServerInv, NEW c \in Clients, execute_delete(c), Verb' = Verb
  PROVE  ServerInv'
<1>0. Serving /\ conn[c] = "status1" /\ Course(c) /\ Upload(c)
  BY DEF execute_delete, Executes, Serving, ServerInv, Protocol, Uploads
<1>1. request[c].verb = Verb[c] /\ request[c].name = Name[c]
  <2>1. request[c] = [verb |-> Verb[c], name |-> Name[c]]
    BY <1>0 DEF Course
  <2> QED
    BY <2>1, RequestFields
<1>2. /\ Verb[c] = "DELETE" /\ busy = NULL /\ exited = "no" /\ NULL \notin Clients
      /\ files' = Without(files, Name[c]) /\ fileList' = RemoveFirst(fileList, Name[c])
      /\ UNCHANGED <<client, request>>
  BY <1>0, <1>1 DEF execute_delete, Executes, Serving, Unlisted
<1>3. /\ DOMAIN files' = DOMAIN files \ {Name[c]}
      /\ \A f \in DOMAIN files' : files'[f] = files[f]
  BY <1>2 DEF Without, Restrict
<1>4. fileList \in Seq(Names) /\ Distinct /\ ToSet(fileList) \subseteq DOMAIN files
  BY <1>2 DEF ServerInv, FSTypeOK, Listing
<1>5. /\ fileList' \in Seq(Names) /\ Distinct'
      /\ ToSet(fileList') = ToSet(fileList) \ {Name[c]}
  <2>1. /\ RemoveFirst(fileList, Name[c]) \in Seq(Names)
        /\ ToSet(RemoveFirst(fileList, Name[c])) = ToSet(fileList) \ {Name[c]}
        /\ \A k, l \in 1..Len(RemoveFirst(fileList, Name[c])) :
             RemoveFirst(fileList, Name[c])[k] = RemoveFirst(fileList, Name[c])[l] => k = l
    BY <1>4, RemoveFirstOne DEF Distinct
  <2> QED
    BY <1>2, <2>1 DEF Distinct
<1>6. \/ down' = [down EXCEPT ![c] = OK] /\ Finish(c) /\ UNCHANGED exited
      \/ down' = [down EXCEPT ![c] = ERROR] /\ exited' = "nofile" /\ UNCHANGED <<conn, busy>>
  BY DEF execute_delete
<1>7. DOMAIN down' = Clients /\ \A d \in Clients \ {c} : down'[d] = down[d]
  BY <1>6 DEF ServerInv, FSTypeOK
<1>8. FSTypeOK'
  BY ZenonT(60), <1>2, <1>3, <1>5, <1>6, <1>7 DEF ServerInv, FSTypeOK, Finish, client
<1>9. CASE Finish(c) /\ UNCHANGED exited
  <2>1. pc[c] # "body" /\ Stored(c) = 0
    BY <1>0, <1>2 DEF Course, Stored, Storing
  <2>2. Protocol' /\ Uploads'
    BY <1>0, <1>2, <1>7, <1>9, <2>1, FinishServer
  <2>3. \A f \in DOMAIN files : f \in ToSet(fileList)
    BY <1>2 DEF ServerInv, Listing, Storing
  <2>4. Listing'
    BY <1>3, <1>4, <1>5, <2>3 DEF Listing
  <2> QED
    BY <1>8, <2>2, <2>4 DEF ServerInv
<1>10. CASE exited' = "nofile" /\ UNCHANGED <<conn, busy>>
  <2>1. exited' # "no"
    BY <1>10
  <2> QED
    BY <1>0, <1>2, <1>7, <1>8, <1>10, <2>1, ExitServer
<1> QED
  BY <1>6, <1>9, <1>10

LEMMA ServerStep == ServerInv /\ [Next]_vars => ServerInv'
<1> SUFFICES ASSUME ServerInv, [Next]_vars PROVE ServerInv'
  OBVIOUS
<1>1. CASE UNCHANGED vars
  <2>0. /\ Verb' = Verb /\ pc' = pc /\ up' = up /\ eof' = eof /\ down' = down
        /\ result' = result /\ conn' = conn /\ request' = request /\ busy' = busy
        /\ files' = files /\ fileList' = fileList /\ exited' = exited
    BY <1>1 DEF vars
  <2>1. FSTypeOK'
    BY <2>0 DEF ServerInv, FSTypeOK
  <2>2. Protocol'
    BY <2>0 DEF ServerInv, Protocol, Course, HeaderUnread, Ended
  <2>3. ASSUME exited' = "no", NEW d \in Clients PROVE Upload(d)'
    <3>1. Upload(d)
      BY <2>0, <2>3 DEF ServerInv, Uploads
    <3> QED
      BY <2>0, <3>1, UploadSame DEF Upload, Storing
  <2>4. Listing'
    BY <2>0, ListingSame DEF ServerInv
  <2> QED
    BY <2>1, <2>2, <2>3, <2>4 DEF ServerInv, Uploads
<1>2. ASSUME NEW c \in Clients, Client(c) \/ die(c), Verb' = Verb PROVE ServerInv'
  BY <1>2, ConnectServer, SendHeaderServer, PutRequestServer, CheckResponseServer, DieServer
     DEF Client
<1>3. ASSUME NEW c \in Clients, Event(c), Verb' = Verb PROVE ServerInv'
  <2>1. CASE execute_put_open(c)
    BY <1>3, <2>1, PutOpenServer, PutRefusedServer
  <2> QED
    BY <1>3, <2>1, AcceptServer, ParsingHeaderServer, ExecuteGetServer, PutReadServer,
       PutEndServer, DeleteServer, ExecuteListServer, WriteAllServer DEF Event
<1>4. CASE sigint_handler /\ Verb' = Verb
  BY <1>4, SigintServer
<1> QED
  BY <1>1, <1>2, <1>3, <1>4 DEF Next, Step, Terminated

(* Names, buffers and connections stay in order in every run of the server. *)
THEOREM FileServerInvariant == Spec => []ServerInv
<1>1. Init => ServerInv
  BY ServerInit
<1>2. ServerInv /\ [Next]_vars => ServerInv'
  BY ServerStep
<1> QED
  BY <1>1, <1>2, PTL DEF Spec

(* fileList, which LIST shows and DELETE trusts, names the files of the     *)
(* directory, each once; a PUT that is going on may be ahead of it.         *)
THEOREM FileServerListAgrees == Spec => []ListAgrees
<1>1. ServerInv => ListAgrees
  <2> SUFFICES ASSUME ServerInv, exited = "no"
               PROVE  /\ IsInjective(fileList)
                      /\ ToSet(fileList) \subseteq DOMAIN files
                      /\ DOMAIN files \ ToSet(fileList) \subseteq
                           (IF busy = NULL THEN {} ELSE {request[busy].name})
    BY DEF ListAgrees
  <2>1. fileList \in Seq(Names) /\ Distinct /\ ToSet(fileList) \subseteq DOMAIN files
    BY DEF ServerInv, FSTypeOK, Listing
  <2>2. IsInjective(fileList)
    BY <2>1 DEF IsInjective, Distinct
  <2>3. ASSUME NEW f \in DOMAIN files \ ToSet(fileList)
        PROVE  f \in (IF busy = NULL THEN {} ELSE {request[busy].name})
    <3>1. PICK c \in Clients : Storing(c) /\ Name[c] = f
      BY DEF ServerInv, Listing
    <3>2. busy = c /\ busy # NULL
      BY <3>1 DEF Storing
    <3>3. Course(c)
      BY DEF ServerInv, Protocol
    <3>4. request[c] = [verb |-> Verb[c], name |-> Name[c]]
      BY <3>2, <3>3 DEF Course
    <3>5. request[busy].name = f
      BY <3>1, <3>2, <3>4, RequestFields
    <3> QED
      BY <3>2, <3>5
  <2> QED
    BY <2>1, <2>2, <2>3
<1> QED
  BY <1>1, FileServerInvariant, PTL

(* What the events do to a client and to the replies, one line each. *)
LEMMA RequestOf ==
  ASSUME ServerInv, NEW c \in Clients, conn[c] = "status1"
  PROVE  request[c].verb = Verb[c] /\ request[c].name = Name[c]
<1>1. request[c] = [verb |-> Verb[c], name |-> Name[c]]
  BY DEF ServerInv, Protocol, Course
<1> QED
  BY <1>1, RequestFields

(* All the buffers of a client, in order, are its file. *)
LEMMA WholeIs ==
  ASSUME NEW c, NEW s \in Seq(Data), Len(s) = Buffers,
         \A k \in 1..Len(s) : s[k] = <<c, k>>
  PROVE  s = Whole(c)
<1>1. DOMAIN s = 1..Buffers /\ s = [k \in DOMAIN s |-> s[k]]
  OBVIOUS
<1>2. \A k \in 1..Buffers : s[k] = Whole(c)[k]
  BY DEF Whole
<1>3. DOMAIN Whole(c) = 1..Buffers /\ Whole(c) = [k \in DOMAIN Whole(c) |-> Whole(c)[k]]
  BY DEF Whole
<1> HIDE DEF Whole
<1> QED
  BY <1>1, <1>2, <1>3

(* Buffers of a client, in order from the first, begin its file. *)
LEMMA BeginsWhole ==
  ASSUME NEW c \in Clients, NEW s \in Seq(Data), Len(s) \in 0..Buffers,
         \A k \in 1..Len(s) : s[k] = <<c, k>>
  PROVE  IsPrefix(s, Whole(c))
<1>0. Buffers \in Nat
  BY FileServerAssumption
<1>1. /\ Whole(c) \in Seq(Data) /\ Len(Whole(c)) = Buffers
      /\ \A k \in 1..Buffers : Whole(c)[k] = <<c, k>>
  BY <1>0 DEF Whole, Data
<1>2. Len(s) <= Len(Whole(c)) /\ 1..Len(s) \subseteq 1..Buffers
  BY <1>0, <1>1
<1>3. \A k \in 1..Len(s) : s[k] = Whole(c)[k]
  BY <1>1, <1>2
<1> QED
  BY <1>1, <1>2, <1>3, PrefixIff

(* An upload whose connection gives no more is all stored. *)
LEMMA AllStored ==
  ASSUME ServerInv, NEW c \in Clients, execute_put_end(c)
  PROVE  /\ request[c].name = Name[c] /\ Name[c] \in DOMAIN files
         /\ files[Name[c]] \in Seq(Data)
         /\ Len(files[Name[c]]) \in 0..Buffers
         /\ pc[c] # "dead" => Len(files[Name[c]]) = Buffers
         /\ \A k \in 1..Len(files[Name[c]]) : files[Name[c]][k] = <<c, k>>
<1>0. /\ exited = "no" /\ busy = c /\ Verb[c] = "PUT" /\ up[c] = <<>> /\ eof[c]
  BY DEF execute_put_end
<1>1. Course(c) /\ Upload(c) /\ Storing(c)
  BY <1>0 DEF ServerInv, Protocol, Uploads, Storing
<1>2. conn[c] = "status1"
  BY <1>0, <1>1 DEF Course
<1>3. request[c].name = Name[c]
  BY <1>2, RequestOf
<1>4. Name[c] \in DOMAIN files /\ \A k \in 1..Len(files[Name[c]]) : files[Name[c]][k] = <<c, k>>
  BY <1>1 DEF Upload
<1>5. files[Name[c]] \in Seq(Data)
  BY <1>4 DEF ServerInv, FSTypeOK
<1>6. Headers(c) = 0 /\ Stored(c) = Len(files[Name[c]]) /\ Stored(c) \in Nat /\ Len(up[c]) = 0
  <2>1. Headers(c) = 0
    BY <1>2 DEF Headers, HeaderUnread
  <2>2. Stored(c) = Len(files[Name[c]])
    BY <1>1 DEF Stored
  <2>3. Len(files[Name[c]]) \in Nat /\ Len(<<>>) = 0
    BY <1>5
  <2> QED
    BY <1>0, <2>1, <2>2, <2>3
<1>7. /\ Len(up[c]) - Headers(c) + Stored(c) <= Buffers
      /\ pc[c] # "dead" => Len(up[c]) - Headers(c) + Stored(c) = Buffers
  BY <1>0, <1>1, <1>2 DEF Upload
<1>8. Len(up[c]) - Headers(c) + Stored(c) = Stored(c)
  <2>1. \A n \in Nat : 0 - 0 + n = n
    OBVIOUS
  <2> QED
    BY <1>6, <2>1
<1> QED
  BY <1>3, <1>4, <1>5, <1>6, <1>7, <1>8

(* OK to a PUT means its whole file is there at that time, or when the      *)
(* client was killed in the middle, what it had sent and nothing of anybody *)
(* else's; OK to a DELETE that the file was there and is not now            *)
(* (server.c:371-378,397-414).                                              *)
THEOREM FileServerOkMeansDone == Spec => OkMeansDone
<1> DEFINE Told(c) ==
      down[c] = NULL /\ down'[c] # NULL /\ down'[c].ok =>
        /\ Verb[c] = "PUT" => IF pc[c] = "dead" THEN IsPrefix(files'[Name[c]], Whole(c))
                                                ELSE files'[Name[c]] = Whole(c)
        /\ Verb[c] = "DELETE" => Name[c] \in DOMAIN files \ DOMAIN files'
<1>1. ASSUME ServerInv, Next PROVE \A c \in Clients : Told(c)
  <2> SUFFICES ASSUME NEW c \in Clients, down[c] = NULL, down'[c] # NULL, down'[c].ok
               PROVE  /\ Verb[c] = "PUT" => IF pc[c] = "dead"
                                             THEN IsPrefix(files'[Name[c]], Whole(c))
                                             ELSE files'[Name[c]] = Whole(c)
                      /\ Verb[c] = "DELETE" => Name[c] \in DOMAIN files \ DOMAIN files'
    OBVIOUS
  <2>1. PICK e \in Clients :
             \/ (execute_get(e) \/ execute_list(e)) /\ UNCHANGED exited
             \/ write_all(e) \/ execute_put_end(e) \/ execute_delete(e)
    <3>1. down' # down
      OBVIOUS
    <3>2. ASSUME NEW e \in Clients, Client(e) \/ die(e) PROVE UNCHANGED down
      BY <3>2 DEF Client, connect, send_header, put_request, check_response, die
    <3>3. ASSUME NEW e \in Clients,
                 accept(e) \/ parsing_header(e) \/ execute_put_open(e) \/ execute_put_read(e)
          PROVE  UNCHANGED down
      BY <3>3 DEF accept, parsing_header, execute_put_open, execute_put_read
    <3>4. ASSUME NEW e \in Clients, execute_get(e) \/ execute_list(e)
          PROVE  UNCHANGED down \/ UNCHANGED exited
      BY <3>4 DEF execute_get, execute_list
    <3>5. sigint_handler \/ Terminated => UNCHANGED down
      BY DEF sigint_handler, Terminated, vars
    <3> QED
      BY <1>1, <3>1, <3>2, <3>3, <3>4, <3>5 DEF Next, Step, Event
  <2>2. CASE (execute_get(e) \/ execute_list(e)) /\ UNCHANGED exited
    <3>1. conn[e] = "status1" /\ request[e].verb \in {"GET", "LIST"}
      BY <2>2 DEF execute_get, execute_list, Executes
    <3>2. Verb[e] \in {"GET", "LIST"}
      BY <1>1, <3>1, RequestOf
    <3>3. WriteOK(e) \/ UNCHANGED down
      BY <2>2 DEF execute_get, execute_list
    <3>4. c = e
      BY <1>1, <3>3 DEF WriteOK, ServerInv, FSTypeOK
    <3> QED
      BY <3>2, <3>4
  <2>3. CASE write_all(e)
    <3>1. down[e] # NULL /\ \A d \in Clients \ {e} : down'[d] = down[d]
      BY <1>1, <2>3 DEF write_all, ServerInv, FSTypeOK
    <3> QED
      BY <3>1
  <2>4. CASE execute_put_end(e)
    <3>1. c = e /\ Verb[c] = "PUT" /\ UNCHANGED files
      BY <1>1, <2>4 DEF execute_put_end, ServerInv, FSTypeOK
    <3>2. /\ files[Name[c]] \in Seq(Data) /\ Len(files[Name[c]]) \in 0..Buffers
          /\ pc[c] # "dead" => Len(files[Name[c]]) = Buffers
          /\ \A k \in 1..Len(files[Name[c]]) : files[Name[c]][k] = <<c, k>>
      BY <1>1, <2>4, <3>1, AllStored
    <3>3. pc[c] # "dead" => files[Name[c]] = Whole(c)
      BY <3>2, WholeIs
    <3>4. IsPrefix(files[Name[c]], Whole(c))
      BY <3>2, BeginsWhole
    <3> QED
      BY <3>1, <3>3, <3>4
  <2>5. CASE execute_delete(e)
    <3>1. conn[e] = "status1" /\ request[e].verb = "DELETE"
      BY <2>5 DEF execute_delete, Executes
    <3>2. Verb[e] = "DELETE" /\ request[e].name = Name[e]
      BY <1>1, <3>1, RequestOf
    <3>3. c = e
      BY <1>1, <2>5 DEF execute_delete, ServerInv, FSTypeOK
    <3>4. down'[c] # ERROR
      <4>1. ERROR.ok = FALSE
        BY DEF ERROR, OK
      <4>2. ASSUME down'[c] = ERROR PROVE FALSE
        <5>1. down'[c].ok = FALSE
          BY <4>1, <4>2
        <5> QED
          BY <5>1, Zenon
      <4> QED
        BY <4>2
    <3>5. request[e].name \in DOMAIN files
      BY <1>1, <2>5, <3>3, <3>4 DEF execute_delete, ServerInv, FSTypeOK
    <3>6. files' = Without(files, Name[e])
      BY <2>5, <3>2 DEF execute_delete
    <3> QED
      BY <3>2, <3>3, <3>5, <3>6 DEF Without, Restrict
  <2> QED
    BY <2>1, <2>2, <2>3, <2>4, <2>5
<1>2. ServerInv /\ [Next]_vars => [\A c \in Clients : Told(c)]_vars
  BY <1>1
<1>3. (\A c \in Clients : Told(c)) <=>
        (\A c \in Clients : down[c] = NULL /\ down'[c] # NULL /\ down'[c].ok =>
           /\ Verb[c] = "PUT" => IF pc[c] = "dead" THEN IsPrefix(files'[Name[c]], Whole(c))
                                                   ELSE files'[Name[c]] = Whole(c)
           /\ Verb[c] = "DELETE" => Name[c] \in DOMAIN files \ DOMAIN files')
  OBVIOUS
<1> HIDE DEF Told
<1> QED
  BY <1>2, <1>3, FileServerInvariant, PTL DEF Spec, OkMeansDone

(* What a reply owes to an upload lasts: nobody comes back to life, and no  *)
(* answer is taken back.                                                    *)
Lasting ==
  \A d \in Clients : /\ pc[d] = "dead" => pc'[d] = "dead"
                     /\ Verb[d] = "PUT" /\ down[d] # NULL => down'[d] # NULL

LEMMA BeginsLasts ==
  ASSUME Lasting, Verb' = Verb, NEW d \in Clients, NEW s, NEW f, NEW n, Begins(s, d, f, n)
  PROVE  /\ Verb'[d] = "PUT" /\ Name[d] = f /\ down'[d] # NULL
         /\ n \in 0..Buffers /\ (pc'[d] # "dead" => n = Buffers)
         /\ Len(s) <= n /\ \A k \in 1..Len(s) : s[k] = <<d, k>>
  BY DEF Lasting, Begins

LEMMA ContentsSame ==
  ASSUME Contents, Lasting, Verb' = Verb, exited' = "no" => exited = "no",
         exited' = "no" => UNCHANGED files,
         \A c \in Clients : busy = c /\ Verb[c] = "PUT" => busy' = c
  PROVE  Contents'
<1> SUFFICES ASSUME exited' = "no", NEW f \in DOMAIN files'
             PROVE  \/ \E c \in Clients : Storing(c)' /\ Name[c] = f
                    \/ \E d \in Clients : Begins(files[f], d, f, Len(files[f]))'
  BY DEF Contents
<1>1. CASE \E c \in Clients : Storing(c) /\ Name[c] = f
  BY <1>1 DEF Storing
<1>2. CASE \E d \in Clients : Begins(files[f], d, f, Len(files[f]))
  <2>1. PICK d \in Clients : Begins(files[f], d, f, Len(files[f]))
    BY <1>2
  <2>2. Begins(files[f], d, f, Len(files[f]))'
    BY <2>1, BeginsLasts DEF Begins
  <2> QED
    BY <2>2
<1> QED
  BY <1>1, <1>2 DEF Contents

LEMMA ReplySame ==
  ASSUME Lasting, Verb' = Verb, NEW c \in Clients, Reply(c), down'[c] = down[c],
         result'[c] = result[c],
         busy' = c /\ exited' = "no" /\ Verb[c] = "GET" =>
           busy = c /\ exited = "no" /\ UNCHANGED files
  PROVE  Reply(c)'
<1> SUFFICES ASSUME Verb[c] = "GET", down[c] # NULL PROVE Reply(c)'
  BY DEF Reply
<1>1. down[c].size # NULL => \E d \in Clients : Begins(down[c].body, d, Name[c], down[c].size)'
  <2> SUFFICES ASSUME down[c].size # NULL
               PROVE  \E d \in Clients : Begins(down[c].body, d, Name[c], down[c].size)'
    OBVIOUS
  <2>1. PICK d \in Clients : Begins(down[c].body, d, Name[c], down[c].size)
    BY DEF Reply
  <2>2. Begins(down[c].body, d, Name[c], down[c].size)'
    BY SMTT(40), <2>1, BeginsLasts DEF Begins
  <2> QED
    BY <2>2
<1>2. busy' = c /\ exited' = "no" => Sending(c)'
  BY DEF Reply, Sending
<1> QED
  BY <1>1, <1>2 DEF Reply

(* The steps that leave files and replies alone. *)
LEMMA QuietContent ==
  ASSUME ContentInv, Verb' = Verb, UNCHANGED <<down, busy, result>>,
         exited' = "no" => UNCHANGED <<files, exited>>,
         \A d \in Clients : pc[d] = "dead" => pc'[d] = "dead"
  PROVE  Contents' /\ Replies'
<1>1. Lasting
  BY DEF Lasting
<1>2. Contents'
  BY <1>1, ContentsSame DEF ContentInv
<1>3. ASSUME NEW c \in Clients PROVE Reply(c)'
  BY <1>1, ReplySame DEF ContentInv, Replies
<1> QED
  BY <1>2, <1>3 DEF ContentInv, Replies

LEMMA CheckResponseContent ==
  ASSUME ContentInv, NEW c \in Clients, check_response(c), Verb' = Verb
  PROVE  Contents' /\ Replies'
<1>0. /\ UNCHANGED <<down, files, exited, busy>>
      /\ \A d \in Clients \ {c} : result'[d] = result[d]
  BY DEF check_response, ContentInv, ServerInv, FSTypeOK
<1>1. Lasting
  BY DEF Lasting, check_response, ContentInv, ServerInv, FSTypeOK
<1>2. Contents'
  BY <1>0, <1>1, ContentsSame DEF ContentInv
<1>3. ASSUME Verb[c] = "GET", result'[c] # NULL, result'[c].ok
      PROVE  /\ down[c] # NULL
             /\ result'[c].body = down[c].body
             /\ down[c].size # NULL => Len(down[c].body) = down[c].size
  <2>1. PICK size \in IF down[c] # NULL /\ down[c].size # NULL THEN {down[c].size} ELSE Garbage :
               result'[c] = Understood(down[c], size)
    BY DEF check_response, ContentInv, ServerInv, FSTypeOK
  <2>2. /\ down[c] # NULL /\ down[c].ok /\ (down[c].bare \/ ~check_read_byte(Len(down[c].body), size))
        /\ result'[c].body = down[c].body
    BY <1>3, <2>1 DEF Understood
  <2>3. down[c].bare = FALSE
    BY <1>3, <2>2 DEF ContentInv, Replies, Reply
  <2>4. Len(down[c].body) = size
    BY <2>2, <2>3 DEF check_read_byte
  <2> QED
    BY <2>1, <2>2, <2>4
<1>4. ASSUME NEW d \in Clients PROVE Reply(d)'
  <2>1. CASE d # c
    BY <1>0, <1>1, <2>1, ReplySame DEF ContentInv, Replies
  <2>2. CASE d = c
    <3> SUFFICES ASSUME Verb[c] = "GET", down[c] # NULL PROVE Reply(c)'
      BY <1>0, <2>2 DEF Reply
    <3>1. Reply(c)
      BY DEF ContentInv, Replies
    <3>2. down[c].size # NULL => \E e \in Clients : Begins(down[c].body, e, Name[c], down[c].size)'
      <4> SUFFICES ASSUME down[c].size # NULL
                   PROVE  \E e \in Clients : Begins(down[c].body, e, Name[c], down[c].size)'
        OBVIOUS
      <4>1. PICK e \in Clients : Begins(down[c].body, e, Name[c], down[c].size)
        BY <3>1 DEF Reply
      <4>2. Begins(down[c].body, e, Name[c], down[c].size)'
        BY SMTT(40), <1>0, <1>1, <4>1, BeginsLasts DEF Begins
      <4> QED
        BY <4>2
    <3>3. busy' = c /\ exited' = "no" => Sending(c)'
      BY <1>0, <3>1 DEF Reply, Sending
    <3> QED
      BY <1>0, <1>3, <3>1, <3>2, <3>3 DEF Reply
  <2> QED
    BY <2>1, <2>2
<1>5. ASSUME NEW d \in Clients, Verb[d] = "GET", result'[d] # NULL, result'[d].ok
      PROVE  down'[d] # NULL
  BY <1>0, <1>3, <1>5 DEF ContentInv, Replies
<1> QED
  BY <1>2, <1>4, <1>5 DEF Replies

LEMMA FreshReply ==
  ASSUME NEW r, r = [ok |-> TRUE, bare |-> FALSE, size |-> NULL, body |-> <<>>]
  PROVE  /\ r \in [ok : BOOLEAN, bare : {FALSE}, size : Nat \cup {NULL}, body : Seq(Data)]
         /\ r.size = NULL /\ r.body = <<>>
<1>1. <<>> \in Seq(Data)
  OBVIOUS
<1> QED
  BY <1>1

LEMMA WriteOKContent ==
  ASSUME ContentInv, NEW c \in Clients, Serving, conn[c] = "status1",
         Verb[c] = "LIST" \/ (Verb[c] = "GET" /\ Name[c] \in DOMAIN files),
         WriteOK(c), Verb' = Verb, UNCHANGED <<client, conn, request, files, fileList, exited>>
  PROVE  Contents' /\ Replies'
<1>0. /\ busy = NULL /\ busy' = c /\ exited = "no" /\ UNCHANGED <<result, pc>>
      /\ down'[c] = [ok |-> TRUE, bare |-> FALSE, size |-> NULL, body |-> <<>>]
      /\ \A d \in Clients \ {c} : down'[d] = down[d]
      /\ NULL \notin Clients
  BY DEF Serving, WriteOK, client, ContentInv, ServerInv, FSTypeOK
<1>1. Lasting
  BY <1>0 DEF Lasting
<1>2. Contents'
  BY <1>0, <1>1, ContentsSame DEF ContentInv
<1>3. result[c] = NULL
  BY <1>0 DEF ContentInv, ServerInv, Protocol, Course, Ended
<1>4. ASSUME NEW d \in Clients PROVE Reply(d)'
  <2>1. CASE d # c
    BY <1>0, <1>1, <2>1, ReplySame DEF ContentInv, Replies
  <2>2. CASE d = c
    <3>1. /\ down'[c] \in [ok : BOOLEAN, bare : {FALSE}, size : Nat \cup {NULL}, body : Seq(Data)]
          /\ down'[c].size = NULL /\ down'[c].body = <<>>
      BY <1>0, FreshReply
    <3>2. Verb[c] = "GET" => Sending(c)'
      BY <3>1 DEF Sending
    <3> QED
      BY <1>0, <1>3, <2>2, <3>1, <3>2 DEF Reply
  <2> QED
    BY <2>1, <2>2
<1>5. ASSUME NEW d \in Clients, Verb[d] = "GET", result'[d] # NULL, result'[d].ok
      PROVE  down'[d] # NULL
  BY <1>0, <1>3, <1>5 DEF ContentInv, Replies
<1> QED
  BY <1>2, <1>4, <1>5 DEF Replies

(* What is sent next is what the upload brought there. *)
LEMMA WriteAllContent ==
  ASSUME ContentInv, NEW c \in Clients, write_all(c), Verb' = Verb
  PROVE  Contents' /\ Replies'
<1>0. /\ exited = "no" /\ busy = c /\ down[c] # NULL /\ NULL \notin Clients /\ NULL \notin Nat
      /\ UNCHANGED <<result, pc, files, exited>> /\ conn[c] = "status1"
  BY DEF write_all, client, ContentInv, ServerInv, Protocol, Course
<1>1. Verb[c] # "PUT"
  BY <1>0 DEF ContentInv, ServerInv, Protocol, Course
<1>2. \A d \in Clients \ {c} : down'[d] = down[d]
  BY DEF write_all, ContentInv, ServerInv, FSTypeOK
<1>3. busy' = c \/ busy' = NULL
  BY <1>0 DEF write_all, Finish
<1>4. Lasting
  BY <1>0, <1>1, <1>2 DEF Lasting
<1>5. Contents'
  BY <1>0, <1>1, <1>4, ContentsSame DEF ContentInv
<1>6. result[c] = NULL
  BY <1>0 DEF ContentInv, ServerInv, Protocol, Course, Ended
<1>7. CASE UNCHANGED down
  <2>1. ASSUME NEW d \in Clients PROVE Reply(d)'
    BY <1>0, <1>3, <1>4, <1>7, ReplySame DEF ContentInv, Replies
  <2> QED
    BY <1>0, <1>5, <1>7, <2>1 DEF ContentInv, Replies
<1>8. ASSUME Verb[c] = "GET", ~UNCHANGED down PROVE Reply(c)'
  <2> DEFINE old == files[Name[c]]
             body == down[c].body
  <2>1. request[c].verb = "GET" /\ request[c].name = Name[c]
    BY <1>0, <1>8, RequestOf DEF ContentInv
  <2>2. Content(c) = old
    BY <2>1 DEF Content
  <2>3. /\ down[c] \in [ok : BOOLEAN, bare : {FALSE}, size : Nat \cup {NULL}, body : Seq(Data)]
        /\ Sending(c)
    BY <1>0, <1>8 DEF ContentInv, Replies, Reply
  <2>4. Name[c] \in DOMAIN files /\ old \in Seq(Data) /\ Len(old) \in Nat
    <3>1. Name[c] \in DOMAIN files
      BY <2>3 DEF Sending
    <3>2. old \in Seq(Data)
      BY <3>1 DEF ContentInv, ServerInv, FSTypeOK
    <3> QED
      BY <3>1, <3>2
  <2>5. PICK d \in Clients : Begins(old, d, Name[c], Len(old))
    <3>1. ~\E e \in Clients : Storing(e)
      BY <1>0, <1>8 DEF Storing
    <3> QED
      BY <1>0, <2>4, <3>1 DEF ContentInv, Contents
  <2>6. /\ Verb'[d] = "PUT" /\ Name[d] = Name[c] /\ down'[d] # NULL
        /\ Len(old) \in 0..Buffers /\ (pc'[d] # "dead" => Len(old) = Buffers)
        /\ \A k \in 1..Len(old) : old[k] = <<d, k>>
    BY <1>4, <2>5, BeginsLasts
  <2>7. CASE down[c].size = NULL
    <3>1. down' = [down EXCEPT ![c].size = Len(old)]
      BY <2>2, <2>7 DEF write_all
    <3>2. down'[c].size = Len(old) /\ down'[c].body = <<>>
          /\ down'[c] \in [ok : BOOLEAN, bare : {FALSE}, size : Nat \cup {NULL}, body : Seq(Data)]
      BY <2>3, <2>4, <2>7, <3>1 DEF Sending, ContentInv, ServerInv, FSTypeOK
    <3>3. Len(<<>>) = 0 /\ down'[c].size # NULL
      BY <1>0, <2>4, <3>2
    <3>4. Begins(down[c].body, d, Name[c], down[c].size)'
      BY <2>4, <2>6, <3>2, <3>3 DEF Begins
    <3>5. Sending(c)'
      <4>0. files' = files
        BY <1>0
      <4>1. Len(down'[c].body) = 0 /\ 1..0 = {}
        <5>1. down'[c].body = <<>>
          BY <3>2
        <5> QED
          BY <5>1
      <4>2. Len(down'[c].body) <= Len(old)
        BY <2>4, <4>1
      <4>3. down'[c].size = Len(files'[Name[c]]) /\ Len(down'[c].body) <= down'[c].size
        BY <3>2, <4>0, <4>1, <4>2
      <4>4. \A k \in 1..Len(down'[c].body) : down'[c].body[k] = files'[Name[c]][k]
        BY <4>1
      <4> HIDE DEF old
      <4> QED
        BY <2>4, <3>2, <3>3, <4>0, <4>1, <4>3, <4>4 DEF Sending
    <3> QED
      BY <1>0, <1>6, <3>2, <3>3, <3>4, <3>5 DEF Reply
  <2>8. CASE down[c].size # NULL /\ Len(body) < down[c].size
    <3>1. /\ down[c].size = Len(old) /\ body \in Seq(Data)
          /\ \A k \in 1..Len(body) : body[k] = old[k]
      BY <2>3, <2>8 DEF Sending
    <3>2. down' = [down EXCEPT ![c].body = Append(@, old[Len(@) + 1])]
      BY <2>2, <2>8 DEF write_all
    <3>3. Len(body) + 1 \in 1..Len(old) /\ old[Len(body) + 1] \in Data
      BY <2>4, <2>8, <3>1
    <3>4. /\ down'[c].body = Append(body, old[Len(body) + 1])
          /\ down'[c].size = Len(old)
          /\ down'[c].ok = down[c].ok /\ down'[c].bare = down[c].bare
      BY <2>3, <3>1, <3>2 DEF ContentInv, ServerInv, FSTypeOK
    <3>5. /\ Append(body, old[Len(body) + 1]) \in Seq(Data)
          /\ Len(Append(body, old[Len(body) + 1])) = Len(body) + 1
          /\ \A k \in 1..Len(body) : Append(body, old[Len(body) + 1])[k] = body[k]
          /\ Append(body, old[Len(body) + 1])[Len(body) + 1] = old[Len(body) + 1]
      BY <3>1, <3>3, AppendOne
    <3>6. down'[c] \in [ok : BOOLEAN, bare : {FALSE}, size : Nat \cup {NULL}, body : Seq(Data)]
      BY <2>3, <2>4, <3>1, <3>2, <3>5 DEF ContentInv, ServerInv, FSTypeOK
    <3>7. /\ Len(down'[c].body) <= Len(old) /\ Len(down'[c].body) = Len(body) + 1
          /\ Len(body) \in Nat
      BY <2>4, <3>1, <3>3, <3>4, <3>5
    <3>8. \A k \in 1..Len(down'[c].body) : k \in 1..Len(old) /\ down'[c].body[k] = old[k]
      <4> SUFFICES ASSUME NEW k \in 1..Len(down'[c].body)
                   PROVE  k \in 1..Len(old) /\ down'[c].body[k] = old[k]
        OBVIOUS
      <4>1. k \in 1..Len(body) \/ k = Len(body) + 1
        BY SMTT(40), <3>7
      <4> QED
        BY <2>4, <3>1, <3>3, <3>4, <3>5, <4>1
    <3>9. down'[c].size # NULL
      BY <1>0, <2>4, <3>4
    <3>10. Begins(down[c].body, d, Name[c], down[c].size)'
      BY <2>4, <2>6, <3>4, <3>7, <3>8 DEF Begins
    <3>11. Sending(c)'
      BY <1>0, <2>4, <3>4, <3>7, <3>8, <3>9 DEF Sending
    <3> QED
      BY <1>0, <1>6, <3>6, <3>9, <3>10, <3>11 DEF Reply
  <2> QED
    BY <1>8, <2>7, <2>8 DEF write_all
<1>9. CASE ~UNCHANGED down
  <2>1. ASSUME NEW d \in Clients PROVE Reply(d)'
    <3>1. CASE d # c
      BY <1>0, <1>2, <1>3, <1>4, <3>1, ReplySame DEF ContentInv, Replies
    <3>2. CASE d = c /\ Verb[c] = "GET"
      BY <1>8, <1>9, <3>2
    <3>3. CASE d = c /\ Verb[c] # "GET"
      BY <3>3 DEF Reply
    <3> QED
      BY <3>1, <3>2, <3>3
  <2>2. ASSUME NEW d \in Clients, Verb[d] = "GET", result'[d] # NULL, result'[d].ok
        PROVE  down'[d] # NULL
    BY <1>0, <1>2, <1>6, <2>2 DEF ContentInv, Replies
  <2> QED
    BY <1>5, <2>1, <2>2 DEF Replies
<1> QED
  BY <1>7, <1>9

LEMMA PutOpenContent ==
  ASSUME ContentInv, NEW c \in Clients, execute_put_open(c), exited' = exited, Verb' = Verb
  PROVE  Contents' /\ Replies'
<1>0. conn[c] = "status1" /\ request[c].verb = "PUT"
  BY DEF execute_put_open, Executes
<1>1. Verb[c] = "PUT" /\ request[c].name = Name[c]
  BY <1>0, RequestOf DEF ContentInv
<1>2. /\ busy = NULL /\ busy' = c /\ exited = "no" /\ NULL \notin Clients
      /\ UNCHANGED <<down, result, pc, exited>> /\ files' = With(files, Name[c], <<>>)
  <2>1. exited = "no" /\ exited' # "noopen"
    BY DEF execute_put_open, Executes, Serving
  <2> QED
    BY <1>1, <2>1 DEF execute_put_open, Executes, Serving, Opened, client
<1>3. Lasting
  BY <1>2 DEF Lasting
<1>4. ASSUME NEW f \in DOMAIN files', f # Name[c]
      PROVE  \E d \in Clients : Begins(files[f], d, f, Len(files[f]))'
  <2>1. f \in DOMAIN files /\ files'[f] = files[f]
    BY <1>2, <1>4 DEF With
  <2>2. ~\E e \in Clients : Storing(e)
    BY <1>2 DEF Storing
  <2>3. PICK d \in Clients : Begins(files[f], d, f, Len(files[f]))
    BY <1>2, <2>1, <2>2 DEF ContentInv, Contents
  <2>4. Begins(files[f], d, f, Len(files[f]))'
    BY <1>3, <2>1, <2>3, BeginsLasts DEF Begins
  <2> QED
    BY <2>4
<1>5. Storing(c)'
  BY <1>1, <1>2 DEF Storing
<1>6. Contents'
  BY <1>4, <1>5 DEF Contents
<1>7. ASSUME NEW d \in Clients PROVE Reply(d)'
  BY <1>1, <1>2, <1>3, ReplySame DEF ContentInv, Replies
<1> QED
  BY <1>2, <1>6, <1>7 DEF ContentInv, Replies

LEMMA PutReadContent ==
  ASSUME ContentInv, NEW c \in Clients, execute_put_read(c), Verb' = Verb
  PROVE  Contents' /\ Replies'
<1>0. /\ exited = "no" /\ busy = c /\ up[c] # <<>>
      /\ UNCHANGED <<pc, result, down, busy, exited>>
  BY DEF execute_put_read
<1>1. conn[c] = "status1"
  BY <1>0 DEF ContentInv, ServerInv, Protocol, Course
<1>2. request[c].name = Name[c]
  BY <1>1, RequestOf DEF ContentInv
<1>3. Verb[c] = "PUT"
  <2>1. Headers(c) = 0
    BY <1>1 DEF Headers, HeaderUnread
  <2>2. Verb[c] = "PUT" \/ Len(up[c]) <= 0
    BY <1>0, <2>1 DEF ContentInv, ServerInv, Uploads, Upload
  <2>3. up[c] \in Seq(Data)
    BY DEF ContentInv, ServerInv, FSTypeOK
  <2>4. Len(up[c]) \in Nat \ {0}
    BY <1>0, <2>3, TailOne
  <2> QED
    BY <2>2, <2>4
<1>4. Storing(c)' /\ Lasting
  BY <1>0, <1>3 DEF Storing, Lasting
<1>5. /\ DOMAIN files' = DOMAIN files
      /\ \A f \in DOMAIN files : f # Name[c] => files'[f] = files[f]
  BY <1>2 DEF execute_put_read
<1>6. ASSUME NEW f \in DOMAIN files', f # Name[c]
      PROVE  \E d \in Clients : Begins(files[f], d, f, Len(files[f]))'
  <2>1. f \in DOMAIN files /\ files'[f] = files[f]
    BY <1>5, <1>6
  <2>2. ~\E e \in Clients : Storing(e) /\ Name[e] = f
    BY <1>0, <1>6 DEF Storing
  <2>3. PICK d \in Clients : Begins(files[f], d, f, Len(files[f]))
    BY <1>0, <2>1, <2>2 DEF ContentInv, Contents
  <2>4. Begins(files[f], d, f, Len(files[f]))'
    BY <1>4, <2>1, <2>3, BeginsLasts DEF Begins
  <2> QED
    BY <2>4
<1>7. Contents'
  BY <1>4, <1>6 DEF Contents
<1>8. ASSUME NEW d \in Clients PROVE Reply(d)'
  BY <1>0, <1>3, <1>4, ReplySame DEF ContentInv, Replies
<1> QED
  BY <1>0, <1>7, <1>8 DEF ContentInv, Replies

(* The file counts as an upload from now on. *)
LEMMA PutEndContent ==
  ASSUME ContentInv, NEW c \in Clients, execute_put_end(c), Verb' = Verb
  PROVE  Contents' /\ Replies'
<1>0. /\ exited = "no" /\ busy = c /\ Verb[c] = "PUT" /\ busy' = NULL /\ NULL \notin Clients
      /\ UNCHANGED <<pc, result, files, exited>> /\ down' = [down EXCEPT ![c] = OK]
  BY DEF execute_put_end, Finish, client
<1>1. down'[c] = OK /\ \A d \in Clients \ {c} : down'[d] = down[d]
  BY <1>0 DEF ContentInv, ServerInv, FSTypeOK
<1>2. down'[c] # NULL
  BY <1>1, NullIsNoReply
<1>3. Lasting
  BY <1>0, <1>1, <1>2 DEF Lasting
<1>4. /\ Len(files[Name[c]]) \in 0..Buffers
      /\ pc[c] # "dead" => Len(files[Name[c]]) = Buffers
      /\ \A k \in 1..Len(files[Name[c]]) : files[Name[c]][k] = <<c, k>>
  BY AllStored DEF ContentInv
<1>5. Begins(files[Name[c]], c, Name[c], Len(files[Name[c]]))'
  BY <1>0, <1>2, <1>4 DEF Begins
<1>6. ASSUME NEW f \in DOMAIN files', f # Name[c]
      PROVE  \E d \in Clients : Begins(files[f], d, f, Len(files[f]))'
  <2>1. f \in DOMAIN files /\ files'[f] = files[f]
    BY <1>0
  <2>2. ~\E e \in Clients : Storing(e) /\ Name[e] = f
    BY <1>0, <1>6 DEF Storing
  <2>3. PICK d \in Clients : Begins(files[f], d, f, Len(files[f]))
    BY <1>0, <2>1, <2>2 DEF ContentInv, Contents
  <2>4. Begins(files[f], d, f, Len(files[f]))'
    BY <1>3, <2>1, <2>3, BeginsLasts DEF Begins
  <2> QED
    BY <2>4
<1>7. Contents'
  <2> SUFFICES ASSUME NEW f \in DOMAIN files'
               PROVE  \E d \in Clients : Begins(files[f], d, f, Len(files[f]))'
    BY DEF Contents
  <2>1. CASE f = Name[c]
    BY <1>5, <2>1
  <2>2. CASE f # Name[c]
    BY <1>6, <2>2
  <2> QED
    BY <2>1, <2>2
<1>8. ASSUME NEW d \in Clients PROVE Reply(d)'
  <2>1. CASE d = c
    BY <1>0, <2>1 DEF Reply
  <2>2. CASE d # c
    BY <1>0, <1>1, <1>3, <2>2, ReplySame DEF ContentInv, Replies
  <2> QED
    BY <2>1, <2>2
<1> QED
  BY <1>0, <1>1, <1>7, <1>8 DEF ContentInv, Replies

LEMMA DeleteContent ==
  ASSUME ContentInv, NEW c \in Clients, execute_delete(c), Verb' = Verb
  PROVE  Contents' /\ Replies'
<1>0. conn[c] = "status1" /\ request[c].verb = "DELETE"
  BY DEF execute_delete, Executes
<1>1. Verb[c] = "DELETE" /\ request[c].name = Name[c]
  BY <1>0, RequestOf DEF ContentInv
<1>2. /\ busy = NULL /\ busy' = NULL /\ exited = "no" /\ NULL \notin Clients
      /\ UNCHANGED <<result, pc>> /\ files' = Without(files, Name[c])
  BY <1>1 DEF execute_delete, Executes, Serving, Finish, client
<1>3. \A d \in Clients \ {c} : down'[d] = down[d]
  BY DEF execute_delete, ContentInv, ServerInv, FSTypeOK
<1>4. Lasting
  BY <1>1, <1>2, <1>3 DEF Lasting
<1>5. Contents'
  <2> SUFFICES ASSUME NEW f \in DOMAIN files'
               PROVE  \E d \in Clients : Begins(files[f], d, f, Len(files[f]))'
    BY DEF Contents
  <2>1. f \in DOMAIN files /\ files'[f] = files[f]
    BY <1>2 DEF Without, Restrict
  <2>2. ~\E e \in Clients : Storing(e)
    BY <1>2 DEF Storing
  <2>3. PICK d \in Clients : Begins(files[f], d, f, Len(files[f]))
    BY <1>2, <2>1, <2>2 DEF ContentInv, Contents
  <2>4. Begins(files[f], d, f, Len(files[f]))'
    BY <1>4, <2>1, <2>3, BeginsLasts DEF Begins
  <2> QED
    BY <2>4
<1>6. ASSUME NEW d \in Clients PROVE Reply(d)'
  <2>1. CASE d = c
    BY <1>1, <2>1 DEF Reply
  <2>2. CASE d # c
    BY <1>2, <1>3, <1>4, <2>2, ReplySame DEF ContentInv, Replies
  <2> QED
    BY <2>1, <2>2
<1> QED
  BY <1>1, <1>2, <1>3, <1>5, <1>6 DEF ContentInv, Replies

LEMMA ContentStep == ContentInv /\ [Next]_vars => ContentInv'
<1> SUFFICES ASSUME ContentInv, [Next]_vars PROVE ContentInv'
  OBVIOUS
<1>0. ServerInv'
  BY ServerStep DEF ContentInv
<1> SUFFICES Contents' /\ Replies'
  BY <1>0 DEF ContentInv
<1>1. CASE UNCHANGED vars
  BY <1>1, QuietContent DEF vars
<1>2. ASSUME NEW c \in Clients, Client(c) \/ die(c), Verb' = Verb PROVE Contents' /\ Replies'
  <2>1. CASE check_response(c)
    BY <1>2, <2>1, CheckResponseContent
  <2>2. CASE connect(c) \/ send_header(c) \/ put_request(c) \/ die(c)
    <3>1. UNCHANGED <<down, busy, result, files, exited>>
      BY <2>2 DEF connect, send_header, put_request, die
    <3>2. \A d \in Clients : pc[d] = "dead" => pc'[d] = "dead"
      BY <2>2 DEF connect, send_header, put_request, die, ContentInv, ServerInv, FSTypeOK
    <3> QED
      BY <1>2, <3>1, <3>2, QuietContent
  <2> QED
    BY <1>2, <2>1, <2>2 DEF Client
<1>3. ASSUME NEW c \in Clients, Event(c), Verb' = Verb PROVE Contents' /\ Replies'
  <2>1. CASE accept(c) \/ parsing_header(c)
    <3>1. UNCHANGED <<down, busy, result, files, pc>>
      BY <2>1 DEF accept, parsing_header, client
    <3>2. exited' = "no" => exited' = exited
      BY <2>1 DEF accept, parsing_header
    <3> QED
      BY <1>3, <3>1, <3>2, QuietContent
  <2>2. CASE execute_get(c)
    <3>1. Serving /\ conn[c] = "status1" /\ request[c].verb = "GET"
      BY <2>2 DEF execute_get, Executes
    <3>2. Verb[c] = "GET" /\ request[c].name = Name[c]
      BY <3>1, RequestOf DEF ContentInv
    <3>3. CASE Name[c] \in DOMAIN files
      BY <1>3, <2>2, <3>1, <3>2, <3>3, WriteOKContent DEF execute_get
    <3>4. CASE Name[c] \notin DOMAIN files
      <4>1. exited' # "no" /\ UNCHANGED <<down, busy, result, files, pc>>
        BY <2>2, <3>2, <3>4 DEF execute_get, client
      <4> QED
        BY <1>3, <4>1, QuietContent
    <3> QED
      BY <3>3, <3>4
  <2>3. CASE execute_list(c)
    <3>1. Serving /\ conn[c] = "status1" /\ request[c].verb = "LIST"
      BY <2>3 DEF execute_list, Executes
    <3>2. Verb[c] = "LIST"
      BY <3>1, RequestOf DEF ContentInv
    <3> QED
      BY <1>3, <2>3, <3>1, <3>2, WriteOKContent DEF execute_list
  <2>4. CASE execute_put_open(c)
    <3>1. CASE exited' = exited
      BY <1>3, <2>4, <3>1, PutOpenContent
    <3>2. CASE exited' # exited
      <4>1. exited' # "no" /\ UNCHANGED <<down, busy, result, files, pc>>
        BY <2>4, <3>2 DEF execute_put_open, client
      <4> QED
        BY <1>3, <4>1, QuietContent
    <3> QED
      BY <3>1, <3>2
  <2> QED
    BY <1>3, <2>1, <2>2, <2>3, <2>4, PutReadContent, PutEndContent, DeleteContent,
       WriteAllContent DEF Event
<1>4. CASE sigint_handler /\ Verb' = Verb
  <2>1. exited' # "no" /\ UNCHANGED <<down, busy, result, pc>>
    BY <1>4 DEF sigint_handler, client
  <2> QED
    BY <1>4, <2>1, QuietContent
<1> QED
  BY <1>1, <1>2, <1>3, <1>4 DEF Next, Step, Terminated

(* A GET that succeeds brings one whole file that was PUT under that name,  *)
(* or what a client that was killed had sent of it: uploads of two clients  *)
(* never mix, nobody sees half of one that goes on, and a reply cut short   *)
(* by SIGINT is not taken for the file, except before the size is there.    *)
THEOREM FileServerGetsWholeFile == Spec => []GetsWholeFile
<1>1. Init => ContentInv
  <2> SUFFICES ASSUME Init PROVE ContentInv
    OBVIOUS
  <2>1. ServerInv
    BY ServerInit
  <2>2. DOMAIN files = {} /\ \A c \in Clients : down[c] = NULL /\ result[c] = NULL
    BY DEF Init
  <2> QED
    BY <2>1, <2>2 DEF ContentInv, Contents, Replies, Reply
<1>2. ContentInv /\ [Next]_vars => ContentInv'
  BY ContentStep
<1>3. ContentInv => GetsWholeFile
  <2> SUFFICES ASSUME ContentInv, NEW c \in Clients,
                      Verb[c] = "GET", result[c] # NULL, result[c].ok
               PROVE  \/ down[c].size = NULL /\ result[c].body = <<>>
                      \/ \E d \in Clients :
                           /\ Verb[d] = "PUT" /\ Name[d] = Name[c] /\ down[d] # NULL
                           /\ IF pc[d] = "dead" THEN IsPrefix(result[c].body, Whole(d))
                                                ELSE result[c].body = Whole(d)
    BY DEF GetsWholeFile
  <2>1. Reply(c) /\ down[c] # NULL
    BY DEF ContentInv, Replies
  <2>2. /\ result[c].body = down[c].body
        /\ down[c].size = NULL => down[c].body = <<>>
        /\ down[c].size # NULL => Len(down[c].body) = down[c].size
        /\ down[c].body \in Seq(Data)
    BY <2>1 DEF Reply
  <2>3. CASE down[c].size = NULL
    BY <2>2, <2>3
  <2>4. CASE down[c].size # NULL
    <3> DEFINE body == down[c].body
    <3>1. PICK d \in Clients : Begins(body, d, Name[c], down[c].size)
      BY <2>1, <2>4 DEF Reply
    <3>2. /\ Verb[d] = "PUT" /\ Name[d] = Name[c] /\ down[d] # NULL
          /\ Len(body) \in 0..Buffers /\ (pc[d] # "dead" => Len(body) = Buffers)
          /\ \A k \in 1..Len(body) : body[k] = <<d, k>>
      BY <2>2, <2>4, <3>1 DEF Begins
    <3>3. pc[d] # "dead" => body = Whole(d)
      BY <2>2, <3>2, WholeIs
    <3>4. IsPrefix(body, Whole(d))
      BY <2>2, <3>2, BeginsWhole
    <3> QED
      BY <2>2, <3>2, <3>3, <3>4
  <2> QED
    BY <2>3, <2>4
<1> QED
  BY <1>1, <1>2, <1>3, PTL DEF Spec

(***************************************************************************)
(* Blocks that tile the heap.                                              *)
(***************************************************************************)
(* Blocks at the addresses D, of these sizes, tile the heap up to end. *)
Tiles(D, size, end) ==
  /\ D # {} => 0 \in D
  /\ end = 0 <=> D = {}
  /\ \A b \in D : b + META + size[b] \in D \cup {end}
  /\ \A b \in D : b + META + size[b] <= end
  /\ \A b, c \in D : b < c => b + META + size[b] <= c

(* combine_next: a block takes in the next one. *)
LEMMA MergeTiles ==
  ASSUME META \in Nat \ {0}, NEW D, D \subseteq Nat, NEW size, \A b \in D : size[b] \in Nat,
         NEW end \in Nat, Tiles(D, size, end),
         NEW x \in D, NEW y \in D, y = x + META + size[x],
         NEW sz, sz[x] = size[x] + META + size[y], \A b \in D \ {x, y} : sz[b] = size[b]
  PROVE  Tiles(D \ {y}, sz, end)
<1> DEFINE E == D \ {y}
<1>1. x < y /\ x \in E /\ x + META + sz[x] = y + META + size[y] /\ x \in Nat /\ y \in Nat
      /\ sz[x] \in Nat
  <2>1. x \in Nat /\ y \in Nat /\ size[x] \in Nat /\ size[y] \in Nat
    OBVIOUS
  <2> QED
    BY <2>1
<1>2. \A b \in E : b # x => sz[b] = size[b] /\ b \in D
  OBVIOUS
<1>3. E # {} => 0 \in E
  <2>1. 0 \in D /\ 0 # y
    BY <1>1 DEF Tiles
  <2> QED
    BY <2>1
<1>4. end = 0 <=> E = {}
  BY <1>1 DEF Tiles
<1>5. ASSUME NEW b \in E
      PROVE  b + META + sz[b] \in E \cup {end} /\ b + META + sz[b] <= end
  <2>1. CASE b = x
    <3>1. /\ y + META + size[y] \in D \cup {end} /\ y + META + size[y] <= end
          /\ y + META + size[y] # y
      BY <1>1 DEF Tiles
    <3> QED
      BY <1>1, <2>1, <3>1
  <2>2. CASE b # x
    <3>1. b + META + size[b] \in D \cup {end} /\ b + META + size[b] <= end
      BY DEF Tiles
    <3>2. b + META + size[b] # y \/ y = end
      <4>1. CASE b < x
        <5>1. b + META + size[b] <= x
          BY <4>1 DEF Tiles
        <5>2. b \in Nat /\ size[b] \in Nat
          OBVIOUS
        <5> QED
          BY <1>1, <5>1, <5>2
      <4>2. CASE b > x
        <5>1. x + META + size[x] <= b
          BY <1>1, <4>2 DEF Tiles
        <5>2. b \in Nat /\ size[b] \in Nat
          OBVIOUS
        <5> QED
          BY <5>1, <5>2
      <4> QED
        BY <1>1, <2>2, <4>1, <4>2
    <3> QED
      BY <1>2, <2>2, <3>1, <3>2
  <2> QED
    BY <2>1, <2>2
<1>6. ASSUME NEW b \in E, NEW c \in E, b < c
      PROVE  b + META + sz[b] <= c
  <2>1. CASE b = x
    <3>1. x + META + size[x] <= c /\ c # y
      BY <1>6, <2>1 DEF Tiles
    <3>2. y < c
      BY <1>1, <3>1
    <3>3. y + META + size[y] <= c
      BY <3>2 DEF Tiles
    <3> QED
      BY <1>1, <2>1, <3>3
  <2>2. CASE b # x
    BY <1>2, <1>6, <2>2 DEF Tiles
  <2> QED
    BY <2>1, <2>2
<1> QED
  BY <1>3, <1>4, <1>5, <1>6 DEF Tiles

(* give_back: the last block goes. *)
LEMMA DropTiles ==
  ASSUME META \in Nat \ {0}, NEW D, D \subseteq Nat, NEW size, \A b \in D : size[b] \in Nat,
         NEW end \in Nat, Tiles(D, size, end), NEW x \in D, x + META + size[x] >= end
  PROVE  Tiles(D \ {x}, size, x)
<1>1. x + META + size[x] = end /\ x \in Nat /\ size[x] \in Nat
  BY DEF Tiles
<1>2. ASSUME NEW b \in D \ {x} PROVE b < x
  <2>1. CASE b > x
    <3>1. x + META + size[x] <= b /\ b + META + size[b] <= end /\ size[b] \in Nat
      BY <1>1, <2>1 DEF Tiles
    <3> QED
      BY <1>1, <3>1
  <2> QED
    BY <1>1, <2>1
<1>3. x = 0 => D \ {x} = {}
  <2>1. \A b \in D \ {x} : b < x /\ b \in Nat
    BY <1>2
  <2>2. \A b \in D \ {x} : x # 0
    BY <1>1, <2>1
  <2> QED
    BY <2>2
<1>4. x # 0 => 0 \in D \ {x}
  BY DEF Tiles
<1>5. ASSUME NEW b \in D \ {x}
      PROVE  b + META + size[b] \in (D \ {x}) \cup {x} /\ b + META + size[b] <= x
  <2>1. b + META + size[b] <= x /\ b + META + size[b] \in D \cup {end}
    BY <1>2 DEF Tiles
  <2> QED
    BY <1>1, <2>1
<1>6. /\ D \ {x} # {} => 0 \in D \ {x}
      /\ x = 0 <=> D \ {x} = {}
  BY <1>3, <1>4
<1>7. \A b, c \in D \ {x} : b < c => b + META + size[b] <= c
  BY DEF Tiles
<1> QED
  BY <1>5, <1>6, <1>7 DEF Tiles

(* sbrk: a block more at the end. *)
LEMMA ExtendTiles ==
  ASSUME META \in Nat \ {0}, NEW D, D \subseteq Nat, NEW size, \A b \in D : size[b] \in Nat,
         NEW end \in Nat, Tiles(D, size, end), NEW sz, \A b \in D : sz[b] = size[b],
         sz[end] \in Nat
  PROVE  end \notin D /\ Tiles(D \cup {end}, sz, end + META + sz[end])
<1>1. ASSUME NEW b \in D PROVE b + META + size[b] <= end /\ b < end /\ b \in Nat /\ sz[b] = size[b]
  BY DEF Tiles
<1>2. end \notin D
  BY <1>1
<1>3. 0 \in D \cup {end}
  BY DEF Tiles
<1>4. ASSUME NEW b \in D \cup {end}
      PROVE  /\ b + META + sz[b] \in (D \cup {end}) \cup {end + META + sz[end]}
             /\ b + META + sz[b] <= end + META + sz[end]
  <2>1. CASE b \in D
    <3>1. b + META + size[b] \in D \cup {end}
      BY <2>1 DEF Tiles
    <3> QED
      BY <1>1, <2>1, <3>1
  <2> QED
    BY <1>4, <2>1
<1>5. ASSUME NEW b \in D \cup {end}, NEW c \in D \cup {end}, b < c
      PROVE  b + META + sz[b] <= c
  <2>1. b \in D
    BY <1>1, <1>5
  <2>2. CASE c \in D
    BY <1>1, <1>5, <2>1, <2>2 DEF Tiles
  <2> QED
    BY <1>1, <1>5, <2>1, <2>2
<1> QED
  BY <1>2, <1>3, <1>4, <1>5 DEF Tiles

(***************************************************************************)
(* Lists linked both ways.                                                 *)
(***************************************************************************)
(* The blocks F are in the lists of their classes, linked both ways, each   *)
(* list from its head; rank falls from a block to the next, so that no list *)
(* comes back to itself.                                                    *)
Chained(F, class, nxt, prv, first, rank) ==
  /\ \A k \in 0..Heap!Over : first[k] # Nothing =>
       first[k] \in F /\ prv[first[k]] = Nothing /\ class[first[k]] = k
  /\ \A b \in F : nxt[b] # Nothing =>
       /\ nxt[b] \in F /\ prv[nxt[b]] = b /\ class[nxt[b]] = class[b]
       /\ rank[nxt[b]] < rank[b]
  /\ \A b \in F :
       IF prv[b] = Nothing THEN first[class[b]] = b ELSE prv[b] \in F /\ nxt[prv[b]] = b

(* removeblock: a block leaves its list. *)
LEMMA Unlink ==
  ASSUME NEW F, Nothing \notin F, NEW class, NEW nxt, NEW prv, NEW first, NEW rank,
         \A b \in F : class[b] \in 0..Heap!Over /\ rank[b] \in Int,
         Chained(F, class, nxt, prv, first, rank), NEW x \in F,
         NEW n, NEW p, NEW f,
         \A b \in F \ {x} : n[b] = IF b = prv[x] THEN nxt[x] ELSE nxt[b],
         \A b \in F \ {x} : p[b] = IF b = nxt[x] THEN prv[x] ELSE prv[b],
         \A k \in 0..Heap!Over :
           f[k] = IF prv[x] = Nothing /\ k = class[x] THEN nxt[x] ELSE first[k]
  PROVE  Chained(F \ {x}, class, n, p, f, rank)
<1> DEFINE G == F \ {x}
<1>1. /\ nxt[x] # Nothing => /\ nxt[x] \in G /\ prv[nxt[x]] = x /\ class[nxt[x]] = class[x]
                             /\ nxt[x] # prv[x]
                             /\ rank[nxt[x]] < rank[x]
      /\ prv[x] # Nothing => /\ prv[x] \in G /\ nxt[prv[x]] = x /\ class[prv[x]] = class[x]
                             /\ rank[x] < rank[prv[x]]
      /\ prv[x] = Nothing => first[class[x]] = x
  <2>1. nxt[x] # Nothing => /\ nxt[x] \in F /\ prv[nxt[x]] = x /\ class[nxt[x]] = class[x]
                            /\ rank[nxt[x]] < rank[x]
    BY DEF Chained
  <2>2. prv[x] # Nothing => /\ prv[x] \in F /\ nxt[prv[x]] = x /\ class[prv[x]] = class[x]
                            /\ rank[x] < rank[prv[x]]
    BY DEF Chained
  <2>3. prv[x] = Nothing => first[class[x]] = x
    BY DEF Chained
  <2> QED
    BY <2>1, <2>2, <2>3
<1>2. ASSUME NEW k \in 0..Heap!Over, f[k] # Nothing
      PROVE  f[k] \in G /\ p[f[k]] = Nothing /\ class[f[k]] = k
  <2>1. CASE prv[x] = Nothing /\ k = class[x]
    <3>1. f[k] = nxt[x] /\ nxt[x] \in G /\ nxt[x] # prv[x] /\ class[nxt[x]] = k
      BY <1>1, <1>2, <2>1
    <3> QED
      BY <2>1, <3>1
  <2>2. CASE ~(prv[x] = Nothing /\ k = class[x])
    <3>1. f[k] = first[k] /\ first[k] # Nothing
      BY <1>2, <2>2
    <3>2. first[k] \in F /\ prv[first[k]] = Nothing /\ class[first[k]] = k
      BY <3>1 DEF Chained
    <3>3. first[k] # x
      BY <2>2, <3>2
    <3>4. first[k] # nxt[x]
      BY <1>1, <3>1, <3>2
    <3> QED
      BY <3>1, <3>2, <3>3, <3>4
  <2> QED
    BY <2>1, <2>2
<1>3. ASSUME NEW b \in G, n[b] # Nothing
      PROVE  n[b] \in G /\ p[n[b]] = b /\ class[n[b]] = class[b] /\ rank[n[b]] < rank[b]
  <2>1. CASE b = prv[x]
    <3>1. /\ n[b] = nxt[x] /\ nxt[x] \in G /\ prv[x] \in G /\ nxt[x] # prv[x]
          /\ class[nxt[x]] = class[x] /\ class[prv[x]] = class[x]
      BY <1>1, <1>3, <2>1
    <3>2. rank[nxt[x]] < rank[prv[x]]
      <4>1. rank[nxt[x]] < rank[x] /\ rank[x] < rank[prv[x]]
        BY <1>1, <1>3, <2>1, <3>1
      <4>2. rank[nxt[x]] \in Int /\ rank[x] \in Int /\ rank[prv[x]] \in Int
        BY <3>1
      <4> QED
        BY <4>1, <4>2
    <3> QED
      BY <2>1, <3>1, <3>2
  <2>2. CASE b # prv[x]
    <3>1. n[b] = nxt[b] /\ nxt[b] # Nothing
      BY <1>3, <2>2
    <3>2. /\ nxt[b] \in F /\ prv[nxt[b]] = b /\ class[nxt[b]] = class[b]
          /\ rank[nxt[b]] < rank[b]
      BY <3>1 DEF Chained
    <3>3. nxt[b] # x /\ nxt[b] # nxt[x]
      BY <1>1, <2>2, <3>1, <3>2
    <3> QED
      BY <3>1, <3>2, <3>3
  <2> QED
    BY <2>1, <2>2
<1>4. ASSUME NEW b \in G
      PROVE  IF p[b] = Nothing THEN f[class[b]] = b ELSE p[b] \in G /\ n[p[b]] = b
  <2>1. CASE b = nxt[x]
    <3>1. nxt[x] # Nothing
      BY <2>1
    <3>2. p[b] = prv[x] /\ class[b] = class[x]
      BY <1>1, <2>1, <3>1
    <3>3. CASE prv[x] = Nothing
      BY <2>1, <3>2, <3>3
    <3>4. CASE prv[x] # Nothing
      BY <1>1, <2>1, <3>2, <3>4
    <3> QED
      BY <3>3, <3>4
  <2>2. CASE b # nxt[x]
    <3>1. p[b] = prv[b]
      BY <2>2
    <3>2. CASE prv[b] = Nothing
      <4>1. first[class[b]] = b
        BY <3>2 DEF Chained
      <4>2. ~(prv[x] = Nothing /\ class[b] = class[x])
        BY <1>1, <4>1
      <4> QED
        BY <3>1, <3>2, <4>1, <4>2
    <3>3. CASE prv[b] # Nothing
      <4>1. prv[b] \in F /\ nxt[prv[b]] = b
        BY <3>3 DEF Chained
      <4>2. prv[b] # x /\ prv[b] # prv[x]
        BY <1>1, <2>2, <3>3, <4>1
      <4> QED
        BY <3>1, <3>3, <4>1, <4>2
    <3> QED
      BY <3>2, <3>3
  <2> QED
    BY <2>1, <2>2
<1> QED
  BY <1>2, <1>3, <1>4 DEF Chained

(* addblock: a block becomes the first of the list of its class. *)
Linked(F, x, class, nxt, prv, first, n, p, f) ==
  /\ \A b \in F \cup {x} : class[b] \in 0..Heap!Over
  /\ n[x] = first[class[x]] /\ p[x] = Nothing
  /\ \A b \in F : n[b] = nxt[b]
  /\ \A b \in F : p[b] = IF b = first[class[x]] THEN x ELSE prv[b]
  /\ \A k \in 0..Heap!Over : f[k] = IF k = class[x] THEN x ELSE first[k]
Ranked(F, x, class, first, rank, r) ==
  /\ \A b \in F : rank[b] \in Int /\ r[b] = rank[b]
  /\ first[class[x]] # Nothing => r[first[class[x]]] < r[x]

LEMMA Link ==
  ASSUME NEW F, Nothing \notin F, NEW x, x \notin F, x # Nothing,
         NEW class, NEW nxt, NEW prv, NEW first, NEW rank,
         Chained(F, class, nxt, prv, first, rank),
         NEW n, NEW p, NEW f, NEW r, Linked(F, x, class, nxt, prv, first, n, p, f),
         Ranked(F, x, class, first, rank, r)
  PROVE  Chained(F \cup {x}, class, n, p, f, r)
<1> DEFINE G == F \cup {x}
           y == first[class[x]]
<1>0. /\ \A b \in F \cup {x} : class[b] \in 0..Heap!Over
      /\ \A b \in F : rank[b] \in Int
      /\ n[x] = first[class[x]] /\ p[x] = Nothing
      /\ \A b \in F : n[b] = nxt[b]
      /\ \A b \in F : p[b] = IF b = first[class[x]] THEN x ELSE prv[b]
      /\ \A k \in 0..Heap!Over : f[k] = IF k = class[x] THEN x ELSE first[k]
      /\ \A b \in F : r[b] = rank[b]
      /\ first[class[x]] # Nothing => r[first[class[x]]] < r[x]
  BY DEF Linked, Ranked
<1>1. y # Nothing => y \in F /\ prv[y] = Nothing /\ class[y] = class[x]
  BY <1>0 DEF Chained
<1>2. ASSUME NEW k \in 0..Heap!Over, f[k] # Nothing
      PROVE  f[k] \in G /\ p[f[k]] = Nothing /\ class[f[k]] = k
  <2>1. CASE k = class[x]
    BY <1>0, <2>1
  <2>2. CASE k # class[x]
    <3>1. f[k] = first[k] /\ first[k] \in F /\ prv[first[k]] = Nothing /\ class[first[k]] = k
      BY <1>0, <1>2, <2>2 DEF Chained
    <3> QED
      BY <1>0, <1>1, <2>2, <3>1
  <2> QED
    BY <2>1, <2>2
<1>3. ASSUME NEW b \in G, n[b] # Nothing
      PROVE  n[b] \in G /\ p[n[b]] = b /\ class[n[b]] = class[b] /\ r[n[b]] < r[b]
  <2>1. CASE b = x
    BY <1>0, <1>1, <1>3, <2>1
  <2>2. CASE b # x
    <3>1. b \in F /\ n[b] = nxt[b]
      BY <1>0, <2>2
    <3>2. /\ nxt[b] \in F /\ prv[nxt[b]] = b /\ class[nxt[b]] = class[b]
          /\ rank[nxt[b]] < rank[b]
      BY <1>0, <1>3, <3>1 DEF Chained
    <3>3. nxt[b] # y
      BY <1>0, <1>1, <3>1, <3>2
    <3> QED
      BY <1>0, <3>1, <3>2, <3>3
  <2> QED
    BY <2>1, <2>2
<1>4. ASSUME NEW b \in G
      PROVE  IF p[b] = Nothing THEN f[class[b]] = b ELSE p[b] \in G /\ n[p[b]] = b
  <2>1. CASE b = x
    BY <1>0, <2>1
  <2>2. CASE b # x /\ b = y
    BY <1>0, <2>2
  <2>3. CASE b # x /\ b # y
    <3>1. b \in F /\ p[b] = prv[b]
      BY <1>0, <2>3
    <3>2. CASE prv[b] = Nothing
      <4>1. first[class[b]] = b
        BY <1>0, <3>1, <3>2 DEF Chained
      <4> QED
        BY <1>0, <2>3, <3>1, <3>2, <4>1
    <3>3. CASE prv[b] # Nothing
      BY <1>0, <3>1, <3>3 DEF Chained
    <3> QED
      BY <3>2, <3>3
  <2> QED
    BY <2>1, <2>2, <2>3
<1> QED
  BY <1>2, <1>3, <1>4 DEF Chained

(* Only what is said of the blocks in the lists matters. *)
LEMMA SameChains ==
  ASSUME NEW F, NEW class, NEW nxt, NEW prv, NEW first, NEW rank,
         Chained(F, class, nxt, prv, first, rank),
         NEW c, NEW n, NEW p, NEW f,
         \A b \in F : c[b] = class[b] /\ n[b] = nxt[b] /\ p[b] = prv[b],
         \A k \in 0..Heap!Over : f[k] = first[k],
         \A b \in F : class[b] \in 0..Heap!Over
  PROVE  Chained(F, c, n, p, f, rank)
<1>1. ASSUME NEW k \in 0..Heap!Over, f[k] # Nothing
      PROVE  f[k] \in F /\ p[f[k]] = Nothing /\ c[f[k]] = k
  BY <1>1 DEF Chained
<1>2. ASSUME NEW b \in F, n[b] # Nothing
      PROVE  n[b] \in F /\ p[n[b]] = b /\ c[n[b]] = c[b] /\ rank[n[b]] < rank[b]
  BY <1>2 DEF Chained
<1>3. ASSUME NEW b \in F
      PROVE  IF p[b] = Nothing THEN f[c[b]] = b ELSE p[b] \in F /\ n[p[b]] = b
  BY DEF Chained
<1> QED
  BY <1>1, <1>2, <1>3 DEF Chained

(***************************************************************************)
(* Heaps.                                                                  *)
(***************************************************************************)
(* What the constants of the allocator stand for. *)
LEMMA HeapConstants ==
  /\ META \in Nat \ {0} /\ Heap!Over \in Nat \ {0} /\ HeapLimit \in Nat
  /\ block_size \in [0..(Heap!Over - 1) -> Nat \ {0}]
  /\ Requests \subseteq Nat /\ Nums \subseteq Nat /\ SizeMod \in Nat /\ SizeMod > HeapLimit
  /\ Nothing \notin Heap!Addresses /\ Heap!Addresses \subseteq Nat
<1>1. Heap!MallocAssumption
  BY LibraryAssumption
<1>2. Nothing \notin Heap!Addresses /\ HeapLimit \in Nat
  BY <1>1 DEF Heap!MallocAssumption
<1>3. Heap!Addresses \subseteq Nat
  BY <1>2 DEF Heap!Addresses
<1> QED
  BY <1>1, <1>2, <1>3 DEF Heap!MallocAssumption

Pointers == Heap!Addresses \cup {Nothing}
Heaps ==
  [mem : UNION {[A -> Heap!Header] : A \in SUBSET Heap!Addresses},
   head : [0..Heap!Over -> Pointers], brk : Heap!Addresses]

Unused(h) == {b \in DOMAIN h.mem : h.mem[b].free = 1}
InUse(h) == {b \in DOMAIN h.mem : h.mem[b].free = 0}
SizeOf(h) == [b \in DOMAIN h.mem |-> h.mem[b].size]
ClassOf(h) == [b \in DOMAIN h.mem |-> Heap!get_index(h.mem[b].size)]
NextOf(h) == [b \in DOMAIN h.mem |-> h.mem[b].next]
PrevOf(h) == [b \in DOMAIN h.mem |-> h.mem[b].prev]

(* The blocks tile the heap, and the free ones are chained. *)
Sound(h, rank) ==
  /\ h \in Heaps /\ rank \in [Heap!Addresses -> Int]
  /\ Tiles(DOMAIN h.mem, SizeOf(h), h.brk)
  /\ Chained(Unused(h), ClassOf(h), NextOf(h), PrevOf(h), h.head, rank)

LEMMA HeapFields ==
  ASSUME NEW h \in Heaps
  PROVE  /\ DOMAIN h.mem \subseteq Heap!Addresses
         /\ h.mem \in [DOMAIN h.mem -> Heap!Header]
         /\ h.head \in [0..Heap!Over -> Pointers] /\ h.brk \in Heap!Addresses
         /\ h = [mem |-> h.mem, head |-> h.head, brk |-> h.brk]
         /\ \A b \in DOMAIN h.mem :
              /\ h.mem[b] \in Heap!Header /\ b \in Nat /\ b # Nothing
              /\ h.mem[b].size \in Nat /\ h.mem[b].free \in {0, 1}
              /\ h.mem[b].next \in Pointers /\ h.mem[b].prev \in Pointers
         /\ DOMAIN h.mem = Unused(h) \cup InUse(h) /\ Unused(h) \cap InUse(h) = {}
<1>1. h.mem \in UNION {[A -> Heap!Header] : A \in SUBSET Heap!Addresses}
  BY DEF Heaps
<1>2. PICK A \in SUBSET Heap!Addresses : h.mem \in [A -> Heap!Header]
  BY <1>1
<1>3. DOMAIN h.mem = A
  BY <1>2
<1>4. ASSUME NEW b \in DOMAIN h.mem
      PROVE  /\ h.mem[b] \in Heap!Header /\ b \in Nat /\ b # Nothing
             /\ h.mem[b].size \in Nat /\ h.mem[b].free \in {0, 1}
             /\ h.mem[b].next \in Pointers /\ h.mem[b].prev \in Pointers
  <2>1. h.mem[b] \in Heap!Header
    BY <1>2, <1>3
  <2>2. b \in Nat /\ b # Nothing
    BY <1>3, HeapConstants
  <2> QED
    BY <2>1, <2>2 DEF Heap!Header, Pointers
<1>5. /\ h.head \in [0..Heap!Over -> Pointers] /\ h.brk \in Heap!Addresses
      /\ h = [mem |-> h.mem, head |-> h.head, brk |-> h.brk]
  BY DEF Heaps
<1>6. DOMAIN h.mem = Unused(h) \cup InUse(h) /\ Unused(h) \cap InUse(h) = {}
  BY <1>4 DEF Unused, InUse
<1> QED
  BY <1>2, <1>3, <1>4, <1>5, <1>6

LEMMA IsHeap ==
  ASSUME NEW A, A \subseteq Heap!Addresses, NEW m \in [A -> Heap!Header],
         NEW f \in [0..Heap!Over -> Pointers], NEW e \in Heap!Addresses
  PROVE  [mem |-> m, head |-> f, brk |-> e] \in Heaps
  BY DEF Heaps

(* get_index: a larger block has no smaller class. *)
LEMMA Classes ==
  ASSUME NEW n \in Nat
  PROVE  /\ Heap!get_index(n) \in 0..Heap!Over
         /\ \A i \in Nat : n <= i => Heap!get_index(n) <= Heap!get_index(i)
         /\ n <= block_size[Heap!Over - 1] => Heap!get_index(n) <= Heap!Over - 1
<1> DEFINE fits(i) == {k \in 0..(Heap!Over - 1) : i <= block_size[k]}
<1>1. ASSUME NEW i \in Nat
      PROVE  /\ fits(i) = {} => Heap!get_index(i) = Heap!Over
             /\ fits(i) # {} => /\ Heap!get_index(i) \in fits(i)
                                /\ \A k \in fits(i) : Heap!get_index(i) <= k
  <2>1. Heap!get_index(i) = IF fits(i) = {} THEN Heap!Over ELSE Min(fits(i))
    BY DEF Heap!get_index, Heap!Min, Min
  <2>2. fits(i) \subseteq Nat
    OBVIOUS
  <2> HIDE DEF fits
  <2> QED
    BY <2>1, <2>2, MinOfSet
<1>2. \A i \in Nat : Heap!get_index(i) \in 0..Heap!Over
  BY <1>1, HeapConstants
<1>3. ASSUME NEW i \in Nat, n <= i PROVE Heap!get_index(n) <= Heap!get_index(i)
  <2>1. fits(i) \subseteq fits(n)
    BY <1>3, HeapConstants
  <2>2. CASE fits(i) = {}
    <3>1. Heap!get_index(i) = Heap!Over
      BY <1>1, <2>2
    <3>2. Heap!get_index(n) \in 0..Heap!Over
      BY <1>2
    <3> QED
      BY <3>1, <3>2, HeapConstants
  <2>3. CASE fits(i) # {}
    <3>1. Heap!get_index(i) \in fits(n)
      BY <1>1, <2>1, <2>3
    <3>2. fits(n) # {}
      BY <3>1
    <3> HIDE DEF fits
    <3> QED
      BY <1>1, <3>1, <3>2
  <2> QED
    BY <2>2, <2>3
<1>4. ASSUME n <= block_size[Heap!Over - 1] PROVE Heap!get_index(n) <= Heap!Over - 1
  <2>1. Heap!Over - 1 \in fits(n)
    BY <1>4, HeapConstants
  <2> HIDE DEF fits
  <2> QED
    BY <1>1, <2>1
<1> QED
  BY <1>2, <1>3, <1>4

(***************************************************************************)
(* The operators on heaps.                                                 *)
(***************************************************************************)
(* removeblock changes links and list heads only. *)
LEMMA RemoveEffect ==
  ASSUME NEW h \in Heaps, NEW x \in DOMAIN h.mem, NEW g, g = Heap!removeblock(h, x)
  PROVE  /\ g \in Heaps /\ DOMAIN g.mem = DOMAIN h.mem /\ g.brk = h.brk
         /\ \A b \in DOMAIN h.mem : g.mem[b].size = h.mem[b].size /\ g.mem[b].free = h.mem[b].free
         /\ \A b \in DOMAIN h.mem \ {x} :
              /\ g.mem[b].next = IF b = h.mem[x].prev THEN h.mem[x].next ELSE h.mem[b].next
              /\ g.mem[b].prev = IF b = h.mem[x].next THEN h.mem[x].prev ELSE h.mem[b].prev
         /\ \A k \in 0..Heap!Over :
              g.head[k] = IF h.mem[x].prev = Nothing /\ k = Heap!get_index(h.mem[x].size)
                          THEN h.mem[x].next ELSE h.head[k]
<1> DEFINE D == DOMAIN h.mem
           e == h.mem[x]
           M == [a \in D |->
                  IF a = x THEN [e EXCEPT !.next = Nothing, !.prev = Nothing]
                  ELSE [h.mem[a] EXCEPT !.next = IF a = e.prev THEN e.next ELSE @,
                                        !.prev = IF a = e.next THEN e.prev ELSE @]]
           H == IF e.prev # Nothing THEN h.head
                ELSE [h.head EXCEPT ![Heap!get_index(e.size)] = e.next]
<1>1. /\ D \subseteq Heap!Addresses /\ h.head \in [0..Heap!Over -> Pointers]
      /\ h.brk \in Heap!Addresses /\ h = [mem |-> h.mem, head |-> h.head, brk |-> h.brk]
      /\ \A b \in D : h.mem[b] \in Heap!Header
      /\ Nothing \in Pointers
  BY HeapFields DEF Pointers
<1>2. g = [mem |-> M, head |-> H, brk |-> h.brk]
  <2>1. g = [h EXCEPT !.head = H, !.mem = M]
    BY DEF Heap!removeblock
  <2> HIDE DEF M, H, D
  <2> QED
    BY <1>1, <2>1
<1>3. ASSUME NEW a \in D
      PROVE  /\ M[a] \in Heap!Header
             /\ M[a].size = h.mem[a].size /\ M[a].free = h.mem[a].free
             /\ a # x =>
                  /\ M[a].next = IF a = e.prev THEN e.next ELSE h.mem[a].next
                  /\ M[a].prev = IF a = e.next THEN e.prev ELSE h.mem[a].prev
  <2>1. h.mem[a] \in Heap!Header /\ e \in Heap!Header /\ Nothing \in Pointers
    BY <1>1
  <2>2. CASE a = x
    <3> HIDE DEF e, H
    <3>1. M[a] = [e EXCEPT !.next = Nothing, !.prev = Nothing]
      BY <2>2
    <3> HIDE DEF M
    <3> QED
      BY <2>1, <2>2, <3>1 DEF Heap!Header, Pointers, e
  <2>3. CASE a # x
    <3> HIDE DEF e, H
    <3>1. M[a] = [h.mem[a] EXCEPT !.next = IF a = e.prev THEN e.next ELSE @,
                                  !.prev = IF a = e.next THEN e.prev ELSE @]
      BY <2>3
    <3> HIDE DEF M
    <3> QED
      BY <2>1, <2>3, <3>1 DEF Heap!Header, Pointers
  <2> QED
    BY <2>2, <2>3
<1>4. /\ H \in [0..Heap!Over -> Pointers]
      /\ \A k \in 0..Heap!Over :
           H[k] = IF e.prev = Nothing /\ k = Heap!get_index(e.size) THEN e.next ELSE h.head[k]
  <2>1. e.next \in Pointers
    BY HeapFields
  <2> HIDE DEF e
  <2> QED
    BY <1>1, <2>1
<1>5. M \in [D -> Heap!Header] /\ DOMAIN M = D
  BY <1>3
<1>6. g.mem = M /\ g.head = H /\ g.brk = h.brk
  <2> HIDE DEF M, H
  <2> QED
    BY <1>2
<1>7. g \in Heaps
  <2> HIDE DEF M, H, D
  <2> QED
    BY <1>1, <1>2, <1>4, <1>5, IsHeap
<1> HIDE DEF M, H
<1>8. /\ \A b \in D : g.mem[b].size = h.mem[b].size /\ g.mem[b].free = h.mem[b].free
      /\ \A b \in D \ {x} :
           /\ g.mem[b].next = IF b = e.prev THEN e.next ELSE h.mem[b].next
           /\ g.mem[b].prev = IF b = e.next THEN e.prev ELSE h.mem[b].prev
  <2> HIDE DEF D, e
  <2> QED
    BY <1>3, <1>6
<1>9. \A k \in 0..Heap!Over :
        g.head[k] = IF e.prev = Nothing /\ k = Heap!get_index(e.size) THEN e.next ELSE h.head[k]
  <2> HIDE DEF D, e
  <2> QED
    BY <1>4, <1>6
<1>10. DOMAIN g.mem = D /\ g.brk = h.brk
  BY <1>5, <1>6
<1> QED
  BY <1>7, <1>8, <1>9, <1>10

(* ... and leaves the others chained. *)
LEMMA Removed ==
  ASSUME NEW h, NEW rank, Sound(h, rank), NEW x \in Unused(h), NEW g, g = Heap!removeblock(h, x)
  PROVE  /\ g \in Heaps /\ DOMAIN g.mem = DOMAIN h.mem /\ g.brk = h.brk
         /\ \A b \in DOMAIN h.mem : g.mem[b].size = h.mem[b].size /\ g.mem[b].free = h.mem[b].free
         /\ Chained(Unused(h) \ {x}, ClassOf(h), NextOf(g), PrevOf(g), g.head, rank)
<1>1. h \in Heaps /\ x \in DOMAIN h.mem
  BY DEF Sound, Unused
<1> DEFINE F == Unused(h)
<1>2. /\ g \in Heaps /\ DOMAIN g.mem = DOMAIN h.mem /\ g.brk = h.brk
      /\ \A b \in DOMAIN h.mem : g.mem[b].size = h.mem[b].size /\ g.mem[b].free = h.mem[b].free
  BY <1>1, RemoveEffect
<1>3. /\ Nothing \notin F
      /\ \A b \in F : ClassOf(h)[b] \in 0..Heap!Over /\ rank[b] \in Int
  BY <1>1, HeapFields, Classes DEF Unused, ClassOf, Sound
<1>4. /\ \A b \in F \ {x} :
           /\ NextOf(g)[b] = IF b = PrevOf(h)[x] THEN NextOf(h)[x] ELSE NextOf(h)[b]
           /\ PrevOf(g)[b] = IF b = NextOf(h)[x] THEN PrevOf(h)[x] ELSE PrevOf(h)[b]
      /\ \A k \in 0..Heap!Over :
           g.head[k] = IF PrevOf(h)[x] = Nothing /\ k = ClassOf(h)[x]
                       THEN NextOf(h)[x] ELSE h.head[k]
  BY <1>1, <1>2, RemoveEffect DEF NextOf, PrevOf, ClassOf, Unused
<1>5. Chained(F, ClassOf(h), NextOf(h), PrevOf(h), h.head, rank)
  BY DEF Sound
<1> HIDE DEF F
<1>6. Chained(F \ {x}, ClassOf(h), NextOf(g), PrevOf(g), g.head, rank)
  <2>1. x \in F
    BY DEF F
  <2> QED
    BY <1>3, <1>4, <1>5, <2>1, Unlink
<1> QED
  BY <1>2, <1>6 DEF F

(* What is in use in both heaps has the same size. *)
SameSizes(h, g) == \A b \in InUse(h) \cap InUse(g) : g.mem[b].size = h.mem[b].size

(* A heap with the used blocks of h, each of its size at least *)
Keeps(h, g) ==
  /\ InUse(g) = InUse(h)
  /\ \A b \in InUse(h) : g.mem[b].size >= h.mem[b].size

(* combine_next: the lists stay sound when a listed block keeps its class. *)
LEMMA Combined ==
  ASSUME NEW h, NEW rank, Sound(h, rank), NEW x \in DOMAIN h.mem,
         NEW g, g = Heap!combine_next(h, x),
         x \in Unused(h) => Heap!Class(g, x) = Heap!Class(h, x)
  PROVE  /\ Sound(g, rank) /\ Keeps(h, g)
         /\ x \in DOMAIN g.mem /\ g.mem[x].free = h.mem[x].free
         /\ g.mem[x].size >= h.mem[x].size
         /\ x \in Unused(h) => ClassOf(g)[x] = ClassOf(h)[x]
<1> DEFINE D == DOMAIN h.mem
           y == Heap!End(h, x)
<1>1. /\ h \in Heaps /\ rank \in [Heap!Addresses -> Int] /\ Tiles(D, SizeOf(h), h.brk)
      /\ Chained(Unused(h), ClassOf(h), NextOf(h), PrevOf(h), h.head, rank)
  BY DEF Sound
<1>2. /\ D \subseteq Heap!Addresses /\ h.brk \in Heap!Addresses
      /\ \A b \in D : h.mem[b] \in Heap!Header /\ h.mem[b].size \in Nat /\ b \in Nat
      /\ h.brk \in Nat /\ META \in Nat \ {0}
  BY <1>1, HeapFields, HeapConstants
<1>3. CASE ~(y < h.brk /\ h.mem[y].free = 1)
  <2>1. g = h
    BY <1>3 DEF Heap!combine_next
  <2> QED
    BY <1>2, <2>1 DEF Keeps, InUse
<1>4. CASE y < h.brk /\ h.mem[y].free = 1
  <2> DEFINE e == Heap!removeblock(h, y)
             total == h.mem[x].size + META + h.mem[y].size
             M == [b \in D \ {y} |-> IF b = x THEN [e.mem[b] EXCEPT !.size = total]
                                     ELSE e.mem[b]]
  <2>1. y = x + META + SizeOf(h)[x] /\ y \in D /\ y # x
    <3>1. y = x + META + SizeOf(h)[x]
      BY DEF Heap!End, SizeOf
    <3>2. y \in D \cup {h.brk}
      BY <1>1, <3>1 DEF Tiles
    <3>3. y # x
      <4>1. SizeOf(h)[x] \in Nat /\ x \in Nat
        BY <1>2 DEF SizeOf
      <4> QED
        BY <1>2, <3>1, <4>1
    <3>4. y # h.brk
      <4>1. SizeOf(h)[x] \in Nat /\ x \in Nat
        BY <1>2 DEF SizeOf
      <4> QED
        BY <1>2, <1>4, <3>1, <4>1
    <3> QED
      BY <3>1, <3>2, <3>3, <3>4
  <2> HIDE DEF y
  <2>2. y \in Unused(h)
    BY <1>4, <2>1 DEF Unused
  <2>3. /\ e \in Heaps /\ DOMAIN e.mem = D /\ e.brk = h.brk
        /\ \A b \in D : e.mem[b].size = h.mem[b].size /\ e.mem[b].free = h.mem[b].free
        /\ Chained(Unused(h) \ {y}, ClassOf(h), NextOf(e), PrevOf(e), e.head, rank)
    BY <2>2, Removed
  <2> HIDE DEF e
  <2>4. /\ \A b \in D : e.mem[b] \in Heap!Header
        /\ e.head \in [0..Heap!Over -> Pointers]
        /\ e = [mem |-> e.mem, head |-> e.head, brk |-> h.brk]
    BY <2>3, HeapFields
  <2>5. g = [mem |-> M, head |-> e.head, brk |-> h.brk]
    <3>1. g = [e EXCEPT !.mem = Heap!Without([e.mem EXCEPT ![x].size =
                                                @ + META + h.mem[y].size], y)]
      BY <1>4 DEF Heap!combine_next, y, e
    <3>2. e.mem[x].size + META + h.mem[y].size = total
      BY <2>3
    <3>3. Heap!Without([e.mem EXCEPT ![x].size = @ + META + h.mem[y].size], y) = M
      <4> DEFINE f == [e.mem EXCEPT ![x].size = @ + META + h.mem[y].size]
      <4>1. DOMAIN f = D /\ \A b \in D : f[b] = IF b = x THEN [e.mem[b] EXCEPT !.size = total]
                                                ELSE e.mem[b]
        BY <2>3, <3>2
      <4> HIDE DEF f, total
      <4>2. Heap!Without(f, y) = [b \in D \ {y} |-> f[b]]
        BY <4>1 DEF Heap!Without, Heap!Restrict
      <4>3. [b \in D \ {y} |-> f[b]] = M
        BY <4>1
      <4> QED
        BY <4>2, <4>3 DEF f
    <3> QED
      BY <2>4, <3>1, <3>3
  <2>6. /\ DOMAIN M = D \ {y} /\ total \in Nat
        /\ \A b \in D \ {y} :
             /\ M[b] \in Heap!Header /\ M[b].free = h.mem[b].free
             /\ M[b].next = e.mem[b].next /\ M[b].prev = e.mem[b].prev
             /\ M[b].size = IF b = x THEN total ELSE h.mem[b].size
    <3>1. total \in Nat
      BY <1>2, <2>1
    <3>2. ASSUME NEW b \in D \ {y}
          PROVE  /\ M[b] \in Heap!Header /\ M[b].free = h.mem[b].free
                 /\ M[b].next = e.mem[b].next /\ M[b].prev = e.mem[b].prev
                 /\ M[b].size = IF b = x THEN total ELSE h.mem[b].size
      <4>1. M[b] = IF b = x THEN [e.mem[b] EXCEPT !.size = total] ELSE e.mem[b]
        OBVIOUS
      <4> HIDE DEF M, total
      <4> QED
        BY <2>3, <2>4, <3>1, <4>1 DEF Heap!Header
    <3> QED
      BY <3>1, <3>2
  <2>7. M \in [D \ {y} -> Heap!Header] /\ total = h.mem[x].size + META + h.mem[y].size
    BY <2>6
  <2> HIDE DEF M, total
  <2>8. g \in Heaps
    <3>1. D \ {y} \subseteq Heap!Addresses
      BY <1>2
    <3> HIDE DEF D
    <3>2. M \in [D \ {y} -> Heap!Header]
      BY <2>7
    <3>3. e.head \in [0..Heap!Over -> Pointers]
      BY <2>4
    <3>4. h.brk \in Heap!Addresses
      BY <1>2
    <3>5. [mem |-> M, head |-> e.head, brk |-> h.brk] \in Heaps
      BY ZenonT(30), <3>1, <3>2, <3>3, <3>4, IsHeap
    <3> QED
      BY <2>5, <3>5
  <2>9. g.mem = M /\ g.head = e.head /\ g.brk = h.brk /\ DOMAIN g.mem = D \ {y}
    BY <2>5, <2>6
  <2>10. Tiles(DOMAIN g.mem, SizeOf(g), g.brk)
    <3>1. /\ D \subseteq Nat /\ \A b \in D : SizeOf(h)[b] \in Nat
          /\ SizeOf(g)[x] = SizeOf(h)[x] + META + SizeOf(h)[y]
          /\ \A b \in D \ {x, y} : SizeOf(g)[b] = SizeOf(h)[b]
      BY <1>2, <2>1, <2>6, <2>7, <2>9 DEF SizeOf
    <3> HIDE DEF D
    <3>2. Tiles(D \ {y}, SizeOf(g), h.brk)
      BY <1>1, <1>2, <2>1, <3>1, MergeTiles DEF D
    <3> QED
      BY <2>9, <3>2
  <2>11. Unused(g) = Unused(h) \ {y} /\ InUse(g) = InUse(h)
    <3>1. y \notin InUse(h)
      BY <1>4, <2>1 DEF InUse
    <3> QED
      BY <2>6, <2>9, <3>1 DEF Unused, InUse
  <2>12. /\ x \in DOMAIN g.mem /\ g.mem[x].size = total /\ g.mem[x].free = h.mem[x].free
         /\ total >= h.mem[x].size
    <3>1. h.mem[x].size \in Nat /\ h.mem[y].size \in Nat
      BY <1>2, <2>1
    <3> QED
      BY <1>2, <2>1, <2>6, <2>7, <2>9, <3>1
  <2>13. ASSUME x \in Unused(h) PROVE ClassOf(g)[x] = ClassOf(h)[x]
    <3>1. Heap!Class(g, x) = Heap!Class(h, x)
      BY <2>13
    <3> QED
      BY <2>12, <3>1 DEF Heap!Class, ClassOf
  <2>14. Chained(Unused(g), ClassOf(g), NextOf(g), PrevOf(g), g.head, rank)
    <3>1. \A b \in Unused(h) \ {y} : b \in D \ {y}
      BY DEF Unused
    <3>2. \A b \in Unused(h) \ {y} : NextOf(g)[b] = NextOf(e)[b] /\ PrevOf(g)[b] = PrevOf(e)[b]
      BY <2>3, <2>6, <2>9, <3>1 DEF NextOf, PrevOf
    <3>3. ASSUME NEW b \in Unused(h) \ {y} PROVE ClassOf(g)[b] = ClassOf(h)[b]
      <4>1. CASE b = x
        BY <2>13, <4>1
      <4>2. CASE b # x
        <5>1. g.mem[b].size = h.mem[b].size
          BY <2>6, <2>9, <3>1, <4>2
        <5> QED
          BY <2>9, <3>1, <5>1 DEF ClassOf
      <4> QED
        BY <4>1, <4>2
    <3>4. \A b \in Unused(h) \ {y} : ClassOf(h)[b] \in 0..Heap!Over
      BY <1>2, <3>1, Classes DEF ClassOf
    <3> QED
      BY <2>3, <2>9, <2>11, <3>2, <3>3, <3>4, SameChains
  <2>15. Sound(g, rank)
    BY <1>1, <2>8, <2>10, <2>14 DEF Sound
  <2>16. Keeps(h, g)
    <3>1. \A b \in InUse(h) : b \in D \ {y}
      BY <1>4 DEF InUse
    <3>2. \A b \in InUse(h) : g.mem[b].size >= h.mem[b].size
      BY <1>2, <2>6, <2>9, <2>12, <3>1
    <3> QED
      BY <2>11, <3>2 DEF Keeps
  <2> QED
    BY <2>12, <2>13, <2>15, <2>16
<1> QED
  BY <1>3, <1>4

(* give_back: the last block goes, when it is in no list any more. *)
LEMMA GivenBack ==
  ASSUME NEW e \in Heaps, NEW rank \in [Heap!Addresses -> Int], NEW x \in DOMAIN e.mem,
         Tiles(DOMAIN e.mem, SizeOf(e), e.brk),
         Chained(Unused(e) \ {x}, ClassOf(e), NextOf(e), PrevOf(e), e.head, rank),
         Heap!End(e, x) >= e.brk, NEW g, g = Heap!give_back(e, x)
  PROVE  Sound(g, rank) /\ InUse(g) = InUse(e) \ {x} /\ SameSizes(e, g)
<1> DEFINE D == DOMAIN e.mem
           M == [b \in D \ {x} |-> e.mem[b]]
<1>1. /\ D \subseteq Heap!Addresses /\ e.brk \in Heap!Addresses
      /\ \A b \in D : e.mem[b] \in Heap!Header /\ e.mem[b].size \in Nat /\ b \in Nat
      /\ e.head \in [0..Heap!Over -> Pointers]
      /\ e = [mem |-> e.mem, head |-> e.head, brk |-> e.brk]
      /\ e.brk \in Nat /\ META \in Nat \ {0} /\ D \subseteq Nat
  BY HeapFields, HeapConstants
<1>2. g = [mem |-> M, head |-> e.head, brk |-> e.brk - (META + e.mem[x].size)]
  <2>1. Heap!Without(e.mem, x) = M
    BY DEF Heap!Without, Heap!Restrict
  <2>2. g = [e EXCEPT !.mem = M, !.brk = e.brk - (META + e.mem[x].size)]
    BY <2>1 DEF Heap!give_back
  <2> HIDE DEF M
  <2> QED
    BY <1>1, <2>2
<1>3. Tiles(D \ {x}, SizeOf(e), x) /\ e.brk - (META + e.mem[x].size) = x
  <2>1. /\ \A b \in D : SizeOf(e)[b] \in Nat
        /\ SizeOf(e)[x] = e.mem[x].size
        /\ x + META + SizeOf(e)[x] >= e.brk
    BY <1>1 DEF SizeOf, Heap!End
  <2>2. META \in Nat \ {0} /\ D \subseteq Nat /\ e.brk \in Nat /\ x \in D
    BY <1>1
  <2>3. Tiles(D, SizeOf(e), e.brk)
    OBVIOUS
  <2> DEFINE end == e.brk
             size == SizeOf(e)
  <2> HIDE DEF D, end, size
  <2>4. /\ META \in Nat \ {0} /\ D \subseteq Nat /\ (\A b \in D : size[b] \in Nat)
        /\ end \in Nat /\ Tiles(D, size, end) /\ x \in D /\ x + META + size[x] >= end
    BY <2>1, <2>2, <2>3 DEF end, size
  <2>5. Tiles(D \ {x}, size, x)
    BY <2>4, DropTiles
  <2>6. end - (META + size[x]) = x
    <3>1. x + META + size[x] <= end
      BY <2>4 DEF Tiles
    <3>2. x \in Nat /\ size[x] \in Nat
      BY <2>4
    <3> QED
      BY <2>4, <3>1, <3>2
  <2> QED
    BY <2>1, <2>5, <2>6 DEF end, size
<1>4. /\ M \in [D \ {x} -> Heap!Header] /\ DOMAIN M = D \ {x}
      /\ \A b \in D \ {x} : M[b] = e.mem[b]
  BY <1>1
<1> HIDE DEF M
<1>5. g = [mem |-> M, head |-> e.head, brk |-> x]
  BY <1>2, <1>3
<1>6. g.mem = M /\ g.head = e.head /\ g.brk = x
  BY <1>5
<1>7. g \in Heaps
  <2>1. D \ {x} \subseteq Heap!Addresses /\ x \in Heap!Addresses
        /\ e.head \in [0..Heap!Over -> Pointers]
    BY <1>1
  <2>2. M \in [D \ {x} -> Heap!Header]
    BY <1>4
  <2> HIDE DEF D
  <2>3. [mem |-> M, head |-> e.head, brk |-> x] \in Heaps
    BY ZenonT(30), <2>1, <2>2, IsHeap
  <2> QED
    BY <1>5, <2>3
<1>8. \A b \in D \ {x} : /\ SizeOf(g)[b] = SizeOf(e)[b] /\ ClassOf(g)[b] = ClassOf(e)[b]
                         /\ NextOf(g)[b] = NextOf(e)[b] /\ PrevOf(g)[b] = PrevOf(e)[b]
  BY <1>4, <1>6 DEF SizeOf, ClassOf, NextOf, PrevOf
<1>9. Tiles(DOMAIN g.mem, SizeOf(g), g.brk)
  <2>1. Tiles(D \ {x}, SizeOf(g), x)
    BY <1>3, <1>8 DEF Tiles
  <2> QED
    BY <1>4, <1>6, <2>1
<1>10. Unused(g) = Unused(e) \ {x} /\ InUse(g) = InUse(e) \ {x}
  BY <1>4, <1>6 DEF Unused, InUse
<1>11. Chained(Unused(g), ClassOf(g), NextOf(g), PrevOf(g), g.head, rank)
  <2>1. \A b \in Unused(e) \ {x} : b \in D \ {x}
    BY DEF Unused
  <2>2. \A b \in Unused(e) \ {x} : ClassOf(e)[b] \in 0..Heap!Over
    BY <1>1, <2>1, Classes DEF ClassOf
  <2> HIDE DEF D
  <2> QED
    BY <1>6, <1>8, <1>10, <2>1, <2>2, SameChains
<1>12. SameSizes(e, g)
  BY <1>4, <1>6, <1>10 DEF InUse, SameSizes
<1> QED
  BY <1>7, <1>9, <1>10, <1>11, <1>12 DEF Sound

(* block_coalescing's last block, taken off its list first *)
LEMMA GivenBackUnused ==
  ASSUME NEW h, NEW rank, Sound(h, rank), NEW x \in Unused(h), Heap!End(h, x) >= h.brk,
         NEW g, g = Heap!give_back(Heap!removeblock(h, x), x)
  PROVE  Sound(g, rank) /\ Keeps(h, g)
<1> DEFINE e == Heap!removeblock(h, x)
<1>1. /\ e \in Heaps /\ DOMAIN e.mem = DOMAIN h.mem /\ e.brk = h.brk
      /\ \A b \in DOMAIN h.mem : e.mem[b].size = h.mem[b].size /\ e.mem[b].free = h.mem[b].free
      /\ Chained(Unused(h) \ {x}, ClassOf(h), NextOf(e), PrevOf(e), e.head, rank)
  BY Removed
<1> HIDE DEF e
<1>2. /\ h \in Heaps /\ rank \in [Heap!Addresses -> Int] /\ x \in DOMAIN h.mem
      /\ Tiles(DOMAIN h.mem, SizeOf(h), h.brk) /\ x \notin InUse(h)
  BY DEF Sound, Unused, InUse
<1>3. /\ SizeOf(e) = SizeOf(h) /\ ClassOf(e) = ClassOf(h) /\ Unused(e) = Unused(h)
      /\ InUse(e) = InUse(h) /\ Heap!End(e, x) = Heap!End(h, x)
  BY <1>1, <1>2 DEF SizeOf, ClassOf, Unused, InUse, Heap!End
<1>4. Sound(g, rank) /\ InUse(g) = InUse(e) \ {x} /\ SameSizes(e, g)
  <2>1. g = Heap!give_back(e, x)
    BY DEF e
  <2>2. Tiles(DOMAIN e.mem, SizeOf(e), e.brk) /\ e \in Heaps /\ x \in DOMAIN e.mem
    BY <1>1, <1>2, <1>3
  <2>3. Chained(Unused(e) \ {x}, ClassOf(e), NextOf(e), PrevOf(e), e.head, rank)
    BY <1>1, <1>3
  <2>4. Heap!End(e, x) >= e.brk /\ rank \in [Heap!Addresses -> Int]
    BY <1>1, <1>2, <1>3
  <2> QED
    BY <2>1, <2>2, <2>3, <2>4, GivenBack
<1>5. \A b \in InUse(h) : g.mem[b].size = h.mem[b].size /\ h.mem[b].size \in Nat
  BY <1>1, <1>2, <1>3, <1>4, HeapFields DEF InUse, SameSizes
<1> QED
  BY <1>2, <1>3, <1>4, <1>5 DEF Keeps

(* The last block, which was in use *)
LEMMA GivenBackInUse ==
  ASSUME NEW h, NEW rank, Sound(h, rank), NEW x \in InUse(h), Heap!End(h, x) >= h.brk,
         NEW g, g = Heap!give_back(h, x)
  PROVE  Sound(g, rank) /\ InUse(g) = InUse(h) \ {x} /\ SameSizes(h, g)
<1>1. Unused(h) \ {x} = Unused(h) /\ x \in DOMAIN h.mem
  BY DEF Unused, InUse
<1>2. /\ h \in Heaps /\ rank \in [Heap!Addresses -> Int]
      /\ Tiles(DOMAIN h.mem, SizeOf(h), h.brk)
      /\ Chained(Unused(h) \ {x}, ClassOf(h), NextOf(h), PrevOf(h), h.head, rank)
  BY <1>1 DEF Sound
<1>3. x \in DOMAIN h.mem /\ Heap!End(h, x) >= h.brk /\ g = Heap!give_back(h, x)
  BY <1>1
<1> QED
  BY <1>2, <1>3, GivenBack

(* sbrk: a new block at the end, in use *)
Extend(h, n) ==
  [h EXCEPT !.mem = Heap!With(@, h.brk, [size |-> n, free |-> 0,
                                         next |-> Nothing, prev |-> Nothing]),
            !.brk = @ + META + n]

LEMMA Extended ==
  ASSUME NEW h, NEW rank, Sound(h, rank), NEW n \in Nat, h.brk + META + n <= HeapLimit, 
         NEW g, g = Extend(h, n)
  PROVE  /\ Sound(g, rank) /\ h.brk \notin InUse(h) /\ h.brk # Nothing
         /\ InUse(g) = InUse(h) \cup {h.brk} /\ g.mem[h.brk].size = n /\ SameSizes(h, g)
<1> DEFINE D == DOMAIN h.mem
           x == h.brk
           v == [size |-> n, free |-> 0, next |-> Nothing, prev |-> Nothing]
           M == [b \in D \cup {x} |-> IF b = x THEN v ELSE h.mem[b]]
<1>1. /\ D \subseteq Heap!Addresses /\ x \in Heap!Addresses
      /\ \A b \in D : h.mem[b] \in Heap!Header /\ h.mem[b].size \in Nat /\ b \in Nat
      /\ h.head \in [0..Heap!Over -> Pointers]
      /\ h = [mem |-> h.mem, head |-> h.head, brk |-> x]
      /\ x \in Nat /\ META \in Nat \ {0} /\ D \subseteq Nat /\ x # Nothing
      /\ Tiles(D, SizeOf(h), x) /\ rank \in [Heap!Addresses -> Int]
      /\ Chained(Unused(h), ClassOf(h), NextOf(h), PrevOf(h), h.head, rank)
  BY HeapFields, HeapConstants DEF Sound
<1>2. x + META + n \in Heap!Addresses
  BY <1>1, HeapConstants DEF Heap!Addresses
<1>3. v \in Heap!Header /\ v.size = n /\ v.free = 0
  BY DEF Heap!Header
<1>4. g = [mem |-> M, head |-> h.head, brk |-> x + META + n]
  <2>1. Heap!With(h.mem, x, v) = M
    BY DEF Heap!With
  <2>2. g = [h EXCEPT !.mem = M, !.brk = x + META + n]
    BY <2>1 DEF Extend
  <2> HIDE DEF M, x
  <2> QED
    BY <1>1, <2>2 DEF x
<1> HIDE DEF v
<1>5. x \notin D
  <2>1. \A b \in D : SizeOf(h)[b] \in Nat
    BY <1>1 DEF SizeOf
  <2>2. ASSUME NEW b \in D PROVE b < x
    <3>1. b + META + SizeOf(h)[b] <= x
      BY <1>1 DEF Tiles
    <3>2. b \in Nat /\ META \in Nat \ {0} /\ x \in Nat /\ SizeOf(h)[b] \in Nat
      BY <1>1, <2>1
    <3> HIDE DEF x, D
    <3> QED
      BY <3>1, <3>2
  <2> QED
    BY <1>1, <2>2
<1> HIDE DEF x
<1>6. /\ M \in [D \cup {x} -> Heap!Header] /\ DOMAIN M = D \cup {x}
      /\ \A b \in D : M[b] = h.mem[b]
      /\ M[x] = v
  BY <1>1, <1>3, <1>5
<1> HIDE DEF M
<1>7. g.mem = M /\ g.head = h.head /\ g.brk = x + META + n
  <2> DEFINE f == h.head
             end == x + META + n
  <2>1. g = [mem |-> M, head |-> f, brk |-> end]
    BY <1>4
  <2> HIDE DEF f, end
  <2>2. g.mem = M /\ g.head = f /\ g.brk = end
    BY <2>1
  <2> QED
    BY <2>2 DEF f, end
<1>8. g \in Heaps
  <2>1. D \cup {x} \subseteq Heap!Addresses /\ h.head \in [0..Heap!Over -> Pointers]
    BY <1>1
  <2>2. M \in [D \cup {x} -> Heap!Header]
    BY <1>6
  <2> HIDE DEF D
  <2>3. [mem |-> M, head |-> h.head, brk |-> x + META + n] \in Heaps
    BY ZenonT(30), <1>2, <2>1, <2>2, IsHeap
  <2> QED
    BY <1>4, <2>3, Zenon
<1>9. /\ \A b \in D : /\ SizeOf(g)[b] = SizeOf(h)[b] /\ ClassOf(g)[b] = ClassOf(h)[b]
                      /\ NextOf(g)[b] = NextOf(h)[b] /\ PrevOf(g)[b] = PrevOf(h)[b]
      /\ SizeOf(g)[x] = n
  BY <1>3, <1>6, <1>7 DEF SizeOf, ClassOf, NextOf, PrevOf
<1>10. Tiles(DOMAIN g.mem, SizeOf(g), g.brk)
  <2>1. \A b \in D : SizeOf(h)[b] \in Nat
    BY <1>1 DEF SizeOf
  <2>3. /\ META \in Nat \ {0} /\ D \subseteq Nat /\ x \in Nat
        /\ Tiles(D, SizeOf(h), x)
    BY <1>1
  <2>4. (\A b \in D : SizeOf(g)[b] = SizeOf(h)[b]) /\ SizeOf(g)[x] \in Nat
    BY <1>9
  <2> HIDE DEF D
  <2>2. Tiles(D \cup {x}, SizeOf(g), x + META + SizeOf(g)[x])
    BY <2>1, <2>3, <2>4, ExtendTiles
  <2> QED
    BY <1>6, <1>7, <1>9, <2>2
<1>11. Unused(g) = Unused(h) /\ InUse(g) = InUse(h) \cup {x}
  BY <1>3, <1>5, <1>6, <1>7 DEF Unused, InUse
<1>12. Chained(Unused(g), ClassOf(g), NextOf(g), PrevOf(g), g.head, rank)
  <2>1. \A b \in Unused(h) : b \in D
    BY DEF Unused
  <2>2. \A b \in Unused(h) : ClassOf(h)[b] \in 0..Heap!Over
    BY <1>1, <2>1, Classes DEF ClassOf
  <2> HIDE DEF D
  <2> QED
    BY <1>1, <1>7, <1>9, <1>11, <2>1, <2>2, SameChains
<1>13. x \notin InUse(h) /\ g.mem[x].size = n /\ SameSizes(h, g)
  BY <1>3, <1>5, <1>6, <1>7 DEF InUse, SameSizes
<1>14. Sound(g, rank)
  BY <1>1, <1>8, <1>10, <1>12 DEF Sound
<1> QED
  BY <1>1, <1>11, <1>13, <1>14 DEF x

(* A block is taken off its list for a caller. *)
Take(h, x) == [Heap!removeblock(h, x) EXCEPT !.mem[x].free = 0]

LEMMA Taken ==
  ASSUME NEW h, NEW rank, Sound(h, rank), NEW x \in Unused(h), NEW g, g = Take(h, x)
  PROVE  /\ Sound(g, rank) /\ InUse(g) = InUse(h) \cup {x} /\ x \notin InUse(h)
         /\ SameSizes(h, g) /\ g.mem[x].size = h.mem[x].size
<1> DEFINE e == Heap!removeblock(h, x)
           D == DOMAIN h.mem
           M == [b \in D |-> IF b = x THEN [e.mem[b] EXCEPT !.free = 0] ELSE e.mem[b]]
<1>1. /\ e \in Heaps /\ DOMAIN e.mem = D /\ e.brk = h.brk
      /\ \A b \in D : e.mem[b].size = h.mem[b].size /\ e.mem[b].free = h.mem[b].free
      /\ Chained(Unused(h) \ {x}, ClassOf(h), NextOf(e), PrevOf(e), e.head, rank)
  BY Removed
<1> HIDE DEF e
<1>2. /\ h \in Heaps /\ rank \in [Heap!Addresses -> Int] /\ x \in D
      /\ Tiles(D, SizeOf(h), h.brk) /\ h.mem[x].free = 1
      /\ D \subseteq Heap!Addresses
      /\ \A b \in D : h.mem[b].size \in Nat
  BY HeapFields DEF Sound, Unused
<1>3. /\ \A b \in D : e.mem[b] \in Heap!Header
      /\ e.head \in [0..Heap!Over -> Pointers] /\ e.brk \in Heap!Addresses
      /\ e = [mem |-> e.mem, head |-> e.head, brk |-> e.brk]
      /\ e.mem \in [D -> Heap!Header]
  BY <1>1, HeapFields
<1>4. g = [mem |-> M, head |-> e.head, brk |-> e.brk]
  <2>1. g = [e EXCEPT !.mem = [e.mem EXCEPT ![x] = [e.mem[x] EXCEPT !.free = 0]]]
    BY DEF e, Take
  <2>2. [e.mem EXCEPT ![x] = [e.mem[x] EXCEPT !.free = 0]] = M
    BY <1>2, <1>3
  <2> HIDE DEF M
  <2> QED
    BY <1>3, <2>1, <2>2
<1>5. ASSUME NEW b \in D
      PROVE  /\ M[b] \in Heap!Header /\ M[b].size = h.mem[b].size
             /\ M[b].next = e.mem[b].next /\ M[b].prev = e.mem[b].prev
             /\ M[b].free = IF b = x THEN 0 ELSE h.mem[b].free
  <2>1. M[b] = IF b = x THEN [e.mem[b] EXCEPT !.free = 0] ELSE e.mem[b]
    OBVIOUS
  <2> HIDE DEF M
  <2> QED
    BY <1>1, <1>3, <2>1 DEF Heap!Header
<1>6. M \in [D -> Heap!Header] /\ DOMAIN M = D
  BY <1>5
<1> HIDE DEF M
<1>7. g.mem = M /\ g.head = e.head /\ g.brk = h.brk
  BY <1>1, <1>4
<1>8. g \in Heaps
  <2>1. /\ D \subseteq Heap!Addresses /\ e.head \in [0..Heap!Over -> Pointers]
        /\ e.brk \in Heap!Addresses
    BY <1>2, <1>3
  <2>2. M \in [D -> Heap!Header]
    BY <1>6
  <2> HIDE DEF D
  <2>3. [mem |-> M, head |-> e.head, brk |-> e.brk] \in Heaps
    BY ZenonT(30), <2>1, <2>2, IsHeap
  <2> QED
    BY <1>4, <2>3, Zenon
<1>9. SizeOf(g) = SizeOf(h) /\ ClassOf(g) = ClassOf(h)
  <2>1. DOMAIN g.mem = D /\ \A b \in D : g.mem[b].size = h.mem[b].size
    BY <1>5, <1>6, <1>7
  <2> QED
    BY <2>1 DEF SizeOf, ClassOf
<1>10. Unused(g) = Unused(h) \ {x} /\ InUse(g) = InUse(h) \cup {x} /\ x \notin InUse(h)
  BY <1>2, <1>5, <1>6, <1>7 DEF Unused, InUse
<1>11. Chained(Unused(g), ClassOf(g), NextOf(g), PrevOf(g), g.head, rank)
  <2>1. \A b \in Unused(h) \ {x} : b \in D
    BY DEF Unused
  <2>2. \A b \in Unused(h) \ {x} : ClassOf(h)[b] \in 0..Heap!Over
    BY <1>2, <2>1, Classes DEF ClassOf
  <2>3. \A b \in Unused(h) \ {x} : NextOf(g)[b] = NextOf(e)[b] /\ PrevOf(g)[b] = PrevOf(e)[b]
    BY <1>1, <1>5, <1>6, <1>7, <2>1 DEF NextOf, PrevOf
  <2>4. Chained(Unused(h) \ {x}, ClassOf(h), NextOf(e), PrevOf(e), e.head, rank)
    BY <1>1
  <2>5. g.head = e.head
    BY <1>7
  <2> HIDE DEF D
  <2>6. Chained(Unused(h) \ {x}, ClassOf(h), NextOf(g), PrevOf(g), g.head, rank)
    BY <2>2, <2>3, <2>4, <2>5, SameChains
  <2> QED
    BY <1>9, <1>10, <2>6
<1>12. Sound(g, rank)
  BY <1>2, <1>6, <1>7, <1>8, <1>9, <1>11 DEF Sound
<1>13. SameSizes(h, g) /\ g.mem[x].size = h.mem[x].size
  BY <1>2, <1>5, <1>7 DEF SameSizes, InUse
<1> QED
  BY <1>10, <1>12, <1>13

(* A block that was in use becomes the first of its list. *)
MarkUnused(h, x) == [h EXCEPT !.mem[x].free = 1]

LEMMA Freed ==
  ASSUME NEW h, NEW rank, Sound(h, rank), NEW x \in InUse(h),
         NEW g, g = Heap!addblock(MarkUnused(h, x), x)
  PROVE  /\ \E r : Sound(g, r)
         /\ InUse(g) = InUse(h) \ {x}
         /\ SameSizes(h, g)
<1> DEFINE D == DOMAIN h.mem
           k == ClassOf(h)[x]
           y == h.head[k]
           e == MarkUnused(h, x)
           M == [b \in D |->
                  IF b = x THEN [h.mem[b] EXCEPT !.free = 1, !.next = y, !.prev = Nothing]
                  ELSE [h.mem[b] EXCEPT !.prev = IF b = y THEN x ELSE @]]
           r == [rank EXCEPT ![x] = IF y = Nothing THEN 0 ELSE rank[y] + 1]
<1>1. /\ h \in Heaps /\ rank \in [Heap!Addresses -> Int] /\ x \in D /\ h.mem[x].free = 0
      /\ Tiles(D, SizeOf(h), h.brk) /\ D \subseteq Heap!Addresses
      /\ Chained(Unused(h), ClassOf(h), NextOf(h), PrevOf(h), h.head, rank)
      /\ \A b \in D : h.mem[b] \in Heap!Header /\ h.mem[b].size \in Nat /\ b # Nothing
      /\ h.head \in [0..Heap!Over -> Pointers] /\ h.brk \in Heap!Addresses
      /\ h.mem \in [D -> Heap!Header]
      /\ h = [mem |-> h.mem, head |-> h.head, brk |-> h.brk]
  BY HeapFields DEF Sound, InUse
<1>2. k = Heap!get_index(h.mem[x].size) /\ \A b \in D : ClassOf(h)[b] \in 0..Heap!Over
  BY <1>1, Classes DEF ClassOf
<1> HIDE DEF k
<1>3. k \in 0..Heap!Over /\ y \in Pointers
  <2>1. k \in 0..Heap!Over
    BY <1>1, <1>2 DEF k
  <2> QED
    BY <1>1, <2>1
<1>4. y # Nothing => y \in Unused(h) /\ y \in Heap!Addresses /\ y # x
  <2>1. y # Nothing => y \in Unused(h)
    BY <1>1, <1>3 DEF Chained
  <2> QED
    BY <1>1, <2>1 DEF Unused
<1> HIDE DEF y
<1>5. g = [mem |-> M, head |-> [h.head EXCEPT ![k] = x], brk |-> h.brk]
  <2> DEFINE m == [h.mem EXCEPT ![x] = [h.mem[x] EXCEPT !.free = 1]]
  <2>1. e = [mem |-> m, head |-> h.head, brk |-> h.brk]
    <3>1. e = [h EXCEPT !.mem = m]
      BY DEF MarkUnused
    <3>2. h = [mem |-> h.mem, head |-> h.head, brk |-> h.brk]
      BY <1>1
    <3> HIDE DEF m, e
    <3> QED
      BY <3>1, <3>2
  <2>2. e.mem = m /\ e.head = h.head
    <3> HIDE DEF m, e
    <3> QED
      BY <2>1
  <2>3. /\ DOMAIN m = D /\ m[x] = [h.mem[x] EXCEPT !.free = 1]
        /\ \A b \in D : b # x => m[b] = h.mem[b]
    BY <1>1
  <2>4. m[x].size = h.mem[x].size
    BY <1>1, <2>3 DEF Heap!Header
  <2> HIDE DEF m, e
  <2>5. Heap!get_index(e.mem[x].size) = k /\ e.head[k] = y
    BY <1>2, <2>2, <2>4 DEF y
  <2> DEFINE n == [a \in DOMAIN e.mem |->
                    IF a = x THEN [e.mem[a] EXCEPT !.next = y, !.prev = Nothing]
                    ELSE [e.mem[a] EXCEPT !.prev = IF a = y THEN x ELSE @]]
  <2>6. g = [e EXCEPT !.head[k] = x, !.mem = n]
    <3>1. g = Heap!addblock(e, x)
      BY DEF e
    <3> QED
      BY <2>5, <3>1 DEF Heap!addblock
  <2>7. n = M
    <3>1. [m[x] EXCEPT !.next = y, !.prev = Nothing]
            = [h.mem[x] EXCEPT !.free = 1, !.next = y, !.prev = Nothing]
      BY <1>1, <2>3 DEF Heap!Header
    <3>2. \A a \in D : (IF a = x THEN [e.mem[a] EXCEPT !.next = y, !.prev = Nothing]
                        ELSE [e.mem[a] EXCEPT !.prev = IF a = y THEN x ELSE @]) = M[a]
      BY <2>2, <2>3, <3>1
    <3> HIDE DEF D
    <3> QED
      BY <2>2, <2>3, <3>2
  <2> HIDE DEF n, M
  <2>8. g = [mem |-> n, head |-> [h.head EXCEPT ![k] = x], brk |-> h.brk]
    BY <2>1, <2>6
  <2> QED
    BY <2>7, <2>8
<1>6. ASSUME NEW b \in D
      PROVE  /\ M[b] \in Heap!Header /\ M[b].size = h.mem[b].size
             /\ M[b].next = IF b = x THEN y ELSE h.mem[b].next
             /\ M[b].prev = IF b = x THEN Nothing ELSE IF b = y THEN x ELSE h.mem[b].prev
             /\ M[b].free = IF b = x THEN 1 ELSE h.mem[b].free
  <2>1. M[b] = IF b = x THEN [h.mem[b] EXCEPT !.free = 1, !.next = y, !.prev = Nothing]
               ELSE [h.mem[b] EXCEPT !.prev = IF b = y THEN x ELSE @]
    OBVIOUS
  <2>2. x \in Pointers /\ Nothing \in Pointers /\ y \in Pointers
    BY <1>1, <1>3 DEF Pointers
  <2>3. h.mem[b] \in Heap!Header
    BY <1>1
  <2> HIDE DEF M
  <2>4. CASE b = x
    <3>1. M[b] = [h.mem[b] EXCEPT !.free = 1, !.next = y, !.prev = Nothing]
      BY <2>1, <2>4
    <3> QED
      BY <2>2, <2>3, <2>4, <3>1 DEF Heap!Header, Pointers
  <2>5. CASE b # x
    <3>1. M[b] = [h.mem[b] EXCEPT !.prev = IF b = y THEN x ELSE @]
      BY <2>1, <2>5
    <3> QED
      BY <2>2, <2>3, <2>5, <3>1 DEF Heap!Header, Pointers
  <2> QED
    BY <2>4, <2>5
<1>7. M \in [D -> Heap!Header] /\ DOMAIN M = D
  BY <1>6
<1> HIDE DEF M
<1>8. g.mem = M /\ g.head = [h.head EXCEPT ![k] = x] /\ g.brk = h.brk
  BY <1>5
<1>9. g \in Heaps
  <2>1. [h.head EXCEPT ![k] = x] \in [0..Heap!Over -> Pointers]
    BY <1>1 DEF Pointers
  <2>2. D \subseteq Heap!Addresses /\ h.brk \in Heap!Addresses
    BY <1>1
  <2>3. M \in [D -> Heap!Header]
    BY <1>7
  <2> HIDE DEF D
  <2>4. [mem |-> M, head |-> [h.head EXCEPT ![k] = x], brk |-> h.brk] \in Heaps
    BY ZenonT(30), <2>1, <2>2, <2>3, IsHeap
  <2> QED
    BY <1>5, <2>4, Zenon
<1>10. SizeOf(g) = SizeOf(h) /\ ClassOf(g) = ClassOf(h)
  <2>1. DOMAIN g.mem = D /\ \A b \in D : g.mem[b].size = h.mem[b].size
    BY <1>6, <1>7, <1>8
  <2> QED
    BY <2>1 DEF SizeOf, ClassOf
<1>11. Unused(g) = Unused(h) \cup {x} /\ InUse(g) = InUse(h) \ {x} /\ x \notin Unused(h)
  <2>1. DOMAIN g.mem = D /\ \A b \in D : g.mem[b].free = IF b = x THEN 1 ELSE h.mem[b].free
    BY <1>6, <1>7, <1>8
  <2>2. x \in D /\ h.mem[x].free = 0
    BY <1>1
  <2> HIDE DEF k, y
  <2> QED
    BY <2>1, <2>2 DEF Unused, InUse
<1>12. r \in [Heap!Addresses -> Int]
  BY <1>1, <1>4
<1>13. Chained(Unused(g), ClassOf(g), NextOf(g), PrevOf(g), g.head, r)
  <2> DEFINE F == Unused(h)
  <2>1. F \subseteq D
    BY DEF Unused
  <2>2. Nothing \notin F /\ x \notin F /\ x # Nothing
    BY <1>1, <1>11, <2>1
  <2>3. \A b \in F \cup {x} : ClassOf(h)[b] \in 0..Heap!Over
    BY <1>1, <1>2, <2>1
  <2>4. \A b \in F : rank[b] \in Int /\ r[b] = rank[b]
    BY <1>1, <1>11, <2>1
  <2>5. y # Nothing => r[y] < r[x]
    BY <1>1, <1>4
  <2>6. h.head[ClassOf(h)[x]] = y
    BY DEF y, k
  <2>7. NextOf(g)[x] = y /\ PrevOf(g)[x] = Nothing
    BY <1>1, <1>6, <1>7, <1>8 DEF NextOf, PrevOf
  <2>8. \A b \in F : /\ NextOf(g)[b] = NextOf(h)[b]
                     /\ PrevOf(g)[b] = IF b = y THEN x ELSE PrevOf(h)[b]
    BY <1>6, <1>7, <1>8, <2>1, <2>2 DEF NextOf, PrevOf
  <2>9. \A i \in 0..Heap!Over : g.head[i] = IF i = ClassOf(h)[x] THEN x ELSE h.head[i]
    BY <1>1, <1>8 DEF k
  <2>10. Chained(F, ClassOf(h), NextOf(h), PrevOf(h), h.head, rank)
    BY <1>1
  <2> DEFINE class == ClassOf(h)
             nxt == NextOf(h)
             prv == PrevOf(h)
             first == h.head
             n == NextOf(g)
             p == PrevOf(g)
             f == g.head
  <2> HIDE DEF F, r, class, nxt, prv, first, n, p, f
  <2>11. /\ \A b \in F \cup {x} : class[b] \in 0..Heap!Over
         /\ Chained(F, class, nxt, prv, first, rank)
         /\ n[x] = first[class[x]] /\ p[x] = Nothing
         /\ \A b \in F : n[b] = nxt[b]
         /\ \A b \in F : p[b] = IF b = first[class[x]] THEN x ELSE prv[b]
         /\ \A i \in 0..Heap!Over : f[i] = IF i = class[x] THEN x ELSE first[i]
         /\ first[class[x]] # Nothing => r[first[class[x]]] < r[x]
    BY <2>3, <2>5, <2>6, <2>7, <2>8, <2>9, <2>10 DEF class, nxt, prv, first, n, p, f
  <2>12. Chained(F \cup {x}, class, n, p, f, r)
    <3>1. Nothing \notin F /\ x \notin F /\ x # Nothing
      BY <2>2
    <3>2. Chained(F, class, nxt, prv, first, rank)
      BY <2>11
    <3>3. Linked(F, x, class, nxt, prv, first, n, p, f)
      BY <2>11 DEF Linked
    <3>4. Ranked(F, x, class, first, rank, r)
      BY <2>4, <2>11 DEF Ranked
    <3> QED
      BY <3>1, <3>2, <3>3, <3>4, Link
  <2> QED
    BY <1>10, <1>11, <2>12 DEF F, class, n, p, f
<1>14. Sound(g, r)
  <2> HIDE DEF r
  <2> QED
    BY <1>1, <1>7, <1>8, <1>9, <1>10, <1>12, <1>13 DEF Sound
<1>15. SameSizes(h, g)
  BY <1>6, <1>7, <1>8 DEF InUse, SameSizes
<1> QED
  BY <1>11, <1>14, <1>15

(***************************************************************************)
(* The loops along a list.                                                 *)
(***************************************************************************)
LEMMA RoundsOf ==
  ASSUME NEW h \in Heaps
  PROVE  /\ IsFiniteSet(DOMAIN h.mem) /\ Cardinality(DOMAIN h.mem) \in Nat
         /\ DOMAIN Heap!Rounds(h) = 1..Cardinality(DOMAIN h.mem)
<1>1. IsFiniteSet(Heap!Addresses)
  BY HeapConstants, FS_Interval DEF Heap!Addresses
<1>2. IsFiniteSet(DOMAIN h.mem)
  BY <1>1, HeapFields, FS_Subset
<1>3. Cardinality(DOMAIN h.mem) \in Nat
  BY <1>2, FS_CardinalityType
<1>4. DOMAIN Heap!Rounds(h) = 1..Cardinality(DOMAIN h.mem)
  BY DEF Heap!Rounds, Heap!Cardinality, Cardinality
<1> QED
  BY <1>2, <1>3, <1>4

(* List: one block further. *)
ListStep(h, s) ==
  IF s.cur \notin DOMAIN h.mem THEN s
  ELSE [seq |-> Append(s.seq, s.cur), cur |-> h.mem[s.cur].next]
ListStart(h, k) == [seq |-> <<>>, cur |-> h.head[k]]
ListWay(h, k, g) ==
  g = [s \in SUBSET DOMAIN Heap!Rounds(h) |->
        IF s = {} THEN ListStart(h, k) ELSE ListStep(h, g[s \ {Max(s)}])]

LEMMA ListFolds ==
  ASSUME NEW h, NEW k
  PROVE  Heap!List(h, k) = (CHOOSE g : ListWay(h, k, g))[DOMAIN Heap!Rounds(h)].seq
  BY DEF Heap!List, Heap!FoldLeft, Heap!MapThenFoldSet, ListWay, ListStep, ListStart, Max, Heap!Max

(* block_coalescing: one round of its loop. *)
CoalesceStart(h, k) == [h |-> h, cur |-> h.head[k], leaves |-> FALSE]
CoalesceWay(h, k, g) ==
  g = [s \in SUBSET DOMAIN Heap!Rounds(h) |->
        IF s = {} THEN CoalesceStart(h, k) ELSE Heap!CoalesceRound(g[s \ {Max(s)}])]

LEMMA CoalesceFolds ==
  ASSUME NEW h, NEW k
  PROVE  Heap!Coalesce(h, k) = (CHOOSE g : CoalesceWay(h, k, g))[DOMAIN Heap!Rounds(h)]
  BY DEF Heap!Coalesce, Heap!FoldLeft, Heap!MapThenFoldSet, CoalesceWay, CoalesceStart,
         Max, Heap!Max

(* What List goes through: the heads of the rest of the list, one by one. *)
Walks(h, k, D, w) ==
  LET N == Cardinality(DOMAIN h.mem)
  IN  /\ w \in [0..N -> D] /\ w[0] = ListStart(h, k)
      /\ \A i \in 1..N : w[i] = ListStep(h, w[i - 1])
      /\ Heap!List(h, k) = w[N].seq

LEMMA Walk ==
  ASSUME NEW h \in Heaps, NEW k, NEW D, ListStart(h, k) \in D,
         \A s \in D : ListStep(h, s) \in D
  PROVE  \E w : Walks(h, k, D, w)
<1> DEFINE N == Cardinality(DOMAIN h.mem)
           F == [s \in D |-> ListStep(h, s)]
           base == ListStart(h, k)
           R == DOMAIN Heap!Rounds(h)
<1>1. N \in Nat /\ R = 1..N
  BY RoundsOf
<1>3. base \in D
  OBVIOUS
<1>4. F \in [D -> D]
  OBVIOUS
<1> HIDE DEF N, R, base
<1>n. N \in Nat
  BY <1>1
<1>5. PICK w : Iterating(w, D, F, base, N)
  <2> HIDE DEF F
  <2> QED
    BY <1>n, <1>3, <1>4, Iterates
<1>6. /\ w \in [0..N -> D] /\ w[0] = base
      /\ \A i \in 1..N : w[i] = ListStep(h, w[i - 1])
  <2>1. \A i \in 1..N : i - 1 \in 0..N
    BY <1>1
  <2>2. w \in [0..N -> D] /\ w[0] = base /\ \A i \in 1..N : w[i] = F[w[i - 1]]
    <3> HIDE DEF F
    <3> QED
      BY <1>5 DEF Iterating
  <2> QED
    BY <2>1, <2>2
<1>7. \E g : ListWay(h, k, g)
  <2>0. PICK g : Folding(g, D, F, base, N)
    <3> HIDE DEF F
    <3> QED
      BY <1>n, <1>5, IteratesOverSets
  <2>1. /\ g \in [SUBSET (1..N) -> D]
        /\ g = [s \in SUBSET (1..N) |-> IF s = {} THEN base ELSE F[g[s \ {Max(s)}]]]
    <3> HIDE DEF F
    <3> QED
      BY <2>0 DEF Folding
  <2>2. \A s \in SUBSET (1..N) : g[s \ {Max(s)}] \in D
    <3>1. \A s \in SUBSET (1..N) : s \ {Max(s)} \in SUBSET (1..N)
      OBVIOUS
    <3> HIDE DEF F
    <3> QED
      BY <2>1, <3>1
  <2>3. \A s \in SUBSET (1..N) : F[g[s \ {Max(s)}]] = ListStep(h, g[s \ {Max(s)}])
    BY <2>2
  <2>4. g = [s \in SUBSET (1..N) |-> IF s = {} THEN base ELSE ListStep(h, g[s \ {Max(s)}])]
    <3> HIDE DEF F
    <3> QED
      BY <2>1, <2>3
  <2> QED
    BY <1>1, <2>4 DEF ListWay, R, base
<1> DEFINE g == CHOOSE g : ListWay(h, k, g)
<1>8. ListWay(h, k, g)
  BY <1>7
<1> HIDE DEF g
<1>9. \A s \in SUBSET (1..N) : g[s] = IF s = {} THEN base ELSE ListStep(h, g[s \ {Max(s)}])
  BY <1>1, <1>8 DEF ListWay, R, base
<1>10. g[1..N] = w[N]
  <2>1. g[{}] = base
    BY <1>9
  <2>2. \A s \in SUBSET (1..N) :
          s # {} /\ g[s \ {Max(s)}] \in D => g[s] = F[g[s \ {Max(s)}]]
    BY <1>9
  <2> HIDE DEF F
  <2>3. Agreeing(g, D, F, base, N)
    BY <2>1, <2>2 DEF Agreeing
  <2> QED
    BY <1>n, <1>5, <2>3, IteratesAgree
<1>11. Heap!List(h, k) = w[N].seq
  BY <1>1, <1>10, ListFolds DEF g, R
<1> QED
  BY <1>6, <1>11 DEF N, base, Walks

(* The blocks of a list are blocks. *)
LEMMA ListOf ==
  ASSUME NEW h \in Heaps, NEW k \in 0..Heap!Over
  PROVE  Heap!List(h, k) \in Seq(DOMAIN h.mem)
<1> DEFINE N == Cardinality(DOMAIN h.mem)
           D == [seq : Seq(DOMAIN h.mem), cur : Pointers]
           base == ListStart(h, k)
<1>1. N \in Nat
  BY RoundsOf
<1>2. ASSUME NEW s \in D PROVE ListStep(h, s) \in D
  <2>1. CASE s.cur \notin DOMAIN h.mem
    BY <2>1 DEF ListStep
  <2>2. CASE s.cur \in DOMAIN h.mem
    <3>1. Append(s.seq, s.cur) \in Seq(DOMAIN h.mem) /\ h.mem[s.cur].next \in Pointers
      BY <2>2, HeapFields
    <3>2. ListStep(h, s) = [seq |-> Append(s.seq, s.cur), cur |-> h.mem[s.cur].next]
      BY <2>2 DEF ListStep
    <3> QED
      BY <3>1, <3>2
  <2> QED
    BY <2>1, <2>2
<1>3. base \in D
  <2> DEFINE y == h.head[k]
  <2>a. y \in Pointers
    BY HeapFields
  <2>b. <<>> \in Seq(DOMAIN h.mem)
    OBVIOUS
  <2>1. y \in Pointers /\ <<>> \in Seq(DOMAIN h.mem)
    BY <2>a, <2>b
  <2>2. base = [seq |-> <<>>, cur |-> y]
    BY DEF ListStart
  <2> HIDE DEF y, base
  <2> QED
    BY <2>1, <2>2
<1>4. PICK w : Walks(h, k, D, w)
  <2> HIDE DEF D
  <2> QED
    BY <1>2, <1>3, Walk DEF base
<1> HIDE DEF N, D
<1>5. w[N] \in D /\ Heap!List(h, k) = w[N].seq
  BY <1>1, <1>4 DEF Walks, N
<1> QED
  BY <1>5 DEF D

LEMMA KeepsOn ==
  ASSUME NEW h \in Heaps, NEW e \in Heaps, NEW g \in Heaps, Keeps(h, e), Keeps(e, g)
  PROVE  Keeps(h, g)
<1>1. InUse(g) = InUse(h) /\ InUse(e) = InUse(h)
  BY DEF Keeps
<1>2. ASSUME NEW b \in InUse(h) PROVE g.mem[b].size >= h.mem[b].size
  <2>1. g.mem[b].size >= e.mem[b].size /\ e.mem[b].size >= h.mem[b].size
    BY <1>1 DEF Keeps
  <2>2. g.mem[b].size \in Nat /\ e.mem[b].size \in Nat /\ h.mem[b].size \in Nat
    <3>1. b \in DOMAIN g.mem /\ b \in DOMAIN e.mem /\ b \in DOMAIN h.mem
      BY <1>1 DEF InUse
    <3> QED
      BY <3>1, HeapFields
  <2> QED
    BY <2>1, <2>2
<1> QED
  BY <1>1, <1>2 DEF Keeps

(* What coalescing a list goes through while no block leaves its class:     *)
(* sound heaps with the same blocks in use, and a place in the list.       *)
Coalescing(h, rank, k) ==
  {s \in [h : Heaps, cur : Pointers, leaves : {FALSE}] :
     /\ Sound(s.h, rank) /\ Keeps(h, s.h)
     /\ s.cur \in DOMAIN s.h.mem => s.cur \in Unused(s.h) /\ ClassOf(s.h)[s.cur] = k}

LEMMA CoalescingGoesOn ==
  ASSUME NEW h \in Heaps, NEW rank, NEW k \in 0..Heap!Over,
         NEW s \in Coalescing(h, rank, k), ~Heap!CoalesceRound(s).leaves
  PROVE  Heap!CoalesceRound(s) \in Coalescing(h, rank, k)
<1>1. /\ s \in [h : Heaps, cur : Pointers, leaves : {FALSE}] /\ Sound(s.h, rank) /\ Keeps(h, s.h)
      /\ s.cur \in DOMAIN s.h.mem => s.cur \in Unused(s.h) /\ ClassOf(s.h)[s.cur] = k
  BY DEF Coalescing
<1>2. CASE s.cur \notin DOMAIN s.h.mem
  BY <1>2 DEF Heap!CoalesceRound
<1>3. CASE s.cur \in DOMAIN s.h.mem
  <2> DEFINE x == s.cur
             f == s.h
             g == Heap!combine_next(f, x)
             out == Heap!Class(g, x) # Heap!Class(f, x)
  <2>1. x \in Unused(f) /\ ClassOf(f)[x] = k /\ f.mem[x].free = 1 /\ x \in DOMAIN f.mem
    BY <1>1, <1>3 DEF Unused
  <2>2. Heap!CoalesceRound(s) = Heap!Onward(g, x, out)
    BY <1>1, <1>3, <2>1 DEF Heap!CoalesceRound
  <2>3. Heap!Class(g, x) = Heap!Class(f, x) /\ out = FALSE
    <3>1. Heap!Onward(g, x, out).leaves = out
      <4> HIDE DEF g, x, out
      <4> QED
        BY DEF Heap!Onward
    <3> QED
      BY <2>2, <3>1
  <2> HIDE DEF x, f, g, out
  <2>4. /\ Sound(g, rank) /\ Keeps(f, g) /\ x \in DOMAIN g.mem
        /\ g.mem[x].free = f.mem[x].free
        /\ ClassOf(g)[x] = ClassOf(f)[x]
    <3>1. Sound(f, rank)
      BY <1>1 DEF f
    <3>2. g = Heap!combine_next(f, x)
      BY DEF g
    <3> QED
      BY <2>1, <2>3, <3>1, <3>2, Combined
  <2>5. x \in Unused(g) /\ ClassOf(g)[x] = k /\ g \in Heaps
    BY <2>1, <2>4 DEF Unused, Sound
  <2>6. Keeps(h, g)
    <3>1. Keeps(h, f) /\ f \in Heaps
      BY <1>1 DEF f
    <3> QED
      BY <2>4, <2>5, <3>1, KeepsOn
  <2>7. CASE Heap!End(g, x) >= g.brk
    <3> DEFINE e == Heap!give_back(Heap!removeblock(g, x), x)
    <3>1. Heap!CoalesceRound(s) = [h |-> e, cur |-> Nothing, leaves |-> FALSE]
      BY <2>2, <2>3, <2>7 DEF Heap!Onward
    <3>2. Sound(e, rank) /\ Keeps(g, e)
      BY <2>4, <2>5, <2>7, GivenBackUnused
    <3> HIDE DEF e
    <3>3. e \in Heaps /\ Nothing \notin DOMAIN e.mem /\ Nothing \in Pointers
      BY <3>2, HeapFields, HeapConstants DEF Sound, Pointers
    <3>4. Keeps(h, e)
      BY <2>5, <2>6, <3>2, <3>3, KeepsOn
    <3> QED
      BY <3>1, <3>2, <3>3, <3>4 DEF Coalescing
  <2>8. CASE ~(Heap!End(g, x) >= g.brk)
    <3> DEFINE y == g.mem[x].next
    <3>1. Heap!CoalesceRound(s) = [h |-> g, cur |-> y, leaves |-> FALSE]
      BY <2>2, <2>3, <2>8 DEF Heap!Onward
    <3>2. y \in Pointers /\ Nothing \notin DOMAIN g.mem
      BY <2>4, <2>5, HeapFields, HeapConstants
    <3>3. y \in DOMAIN g.mem => y \in Unused(g) /\ ClassOf(g)[y] = k
      <4>1. NextOf(g)[x] = y
        BY <2>4 DEF NextOf
      <4>2. y # Nothing => y \in Unused(g) /\ ClassOf(g)[y] = ClassOf(g)[x]
        <5>1. Chained(Unused(g), ClassOf(g), NextOf(g), PrevOf(g), g.head, rank)
          BY <2>4 DEF Sound
        <5> HIDE DEF y
        <5> QED
          BY <2>5, <4>1, <5>1 DEF Chained
      <4> QED
        BY <2>5, <3>2, <4>2
    <3> HIDE DEF y
    <3> QED
      BY <2>4, <2>5, <2>6, <3>1, <3>2, <3>3 DEF Coalescing
  <2> QED
    BY <2>7, <2>8
<1> QED
  BY <1>2, <1>3

(* block_coalescing keeps the heap sound, and what is in use, when no block *)
(* leaves its class.                                                       *)
LEMMA Coalesced ==
  ASSUME NEW h, NEW rank, Sound(h, rank), NEW k \in 0..Heap!Over, ~Heap!Coalesce(h, k).leaves
  PROVE  /\ Sound(Heap!block_coalescing(h, k), rank)
         /\ Keeps(h, Heap!block_coalescing(h, k))
<1> DEFINE G == Coalescing(h, rank, k)
           D == G \cup {Heap!CoalesceRound(s) : s \in G}
           N == Cardinality(DOMAIN h.mem)
           F == [s \in D |-> Heap!CoalesceRound(s)]
           base == CoalesceStart(h, k)
           R == DOMAIN Heap!Rounds(h)
<1>1. h \in Heaps /\ N \in Nat /\ R = 1..N
  BY RoundsOf DEF Sound
<1>2. \A s \in D : (s.leaves \/ s \in G) /\ Heap!CoalesceRound(s) \in D
  <2>1. \A s \in G : ~Heap!CoalesceRound(s).leaves => Heap!CoalesceRound(s) \in G
    BY <1>1, CoalescingGoesOn
  <2> HIDE DEF G
  <2>2. ASSUME NEW s \in D PROVE s.leaves \/ s \in G
    BY <2>1
  <2>3. ASSUME NEW s \in D PROVE Heap!CoalesceRound(s) \in D
    <3>1. CASE s \in G
      BY <3>1
    <3>2. CASE s \notin G
      <4>1. Heap!CoalesceRound(s) = s
        BY <2>2, <3>2 DEF Heap!CoalesceRound
      <4> QED
        BY <4>1
    <3> QED
      BY <3>1, <3>2
  <2> QED
    BY <2>2, <2>3
<1>3. base \in G
  <2>1. k \in 0..Heap!Over
    OBVIOUS
  <2>2. h.head[k] \in Pointers /\ Nothing \notin DOMAIN h.mem
    BY <1>1, <2>1, HeapFields, HeapConstants
  <2>3. h.head[k] # Nothing => h.head[k] \in Unused(h) /\ ClassOf(h)[h.head[k]] = k
    BY <2>1 DEF Sound, Chained
  <2>4. Keeps(h, h)
    BY <1>1, HeapFields DEF Keeps, InUse
  <2> DEFINE y == h.head[k]
  <2> HIDE DEF y
  <2>5. base = [h |-> h, cur |-> y, leaves |-> FALSE]
    BY DEF CoalesceStart, y
  <2>6. y \in Pointers /\ (y \in DOMAIN h.mem => y \in Unused(h) /\ ClassOf(h)[y] = k)
    BY <2>2, <2>3 DEF y
  <2> HIDE DEF base
  <2> QED
    BY <1>1, <2>4, <2>5, <2>6 DEF Coalescing
<1> HIDE DEF G
<1>4. F \in [D -> D] /\ base \in D
  BY <1>2, <1>3
<1> HIDE DEF N, R, D, base
<1>n. N \in Nat
  BY <1>1
<1>5. PICK w : Iterating(w, D, F, base, N)
  <2> HIDE DEF F
  <2> QED
    BY <1>n, <1>4, Iterates
<1>7. \E g : CoalesceWay(h, k, g)
  <2>0. PICK g : Folding(g, D, F, base, N)
    <3> HIDE DEF F
    <3> QED
      BY <1>n, <1>5, IteratesOverSets
  <2>1. /\ g \in [SUBSET (1..N) -> D]
        /\ g = [s \in SUBSET (1..N) |-> IF s = {} THEN base ELSE F[g[s \ {Max(s)}]]]
    <3> HIDE DEF F
    <3> QED
      BY <2>0 DEF Folding
  <2>2. \A s \in SUBSET (1..N) : g[s \ {Max(s)}] \in D
    <3>1. \A s \in SUBSET (1..N) : s \ {Max(s)} \in SUBSET (1..N)
      OBVIOUS
    <3> HIDE DEF F
    <3> QED
      BY <2>1, <3>1
  <2>3. \A s \in SUBSET (1..N) : F[g[s \ {Max(s)}]] = Heap!CoalesceRound(g[s \ {Max(s)}])
    BY <2>2
  <2>4. g = [s \in SUBSET (1..N) |->
              IF s = {} THEN base ELSE Heap!CoalesceRound(g[s \ {Max(s)}])]
    <3> HIDE DEF F
    <3> QED
      BY <2>1, <2>3
  <2> QED
    BY <1>1, <2>4 DEF CoalesceWay, R, base
<1> DEFINE g == CHOOSE g : CoalesceWay(h, k, g)
<1>8. CoalesceWay(h, k, g)
  BY <1>7
<1> HIDE DEF g
<1>9. \A s \in SUBSET (1..N) :
        g[s] = IF s = {} THEN base ELSE Heap!CoalesceRound(g[s \ {Max(s)}])
  BY <1>1, <1>8 DEF CoalesceWay, R, base
<1>10. g[1..N] = w[N]
  <2>1. g[{}] = base
    BY <1>9
  <2>2. \A s \in SUBSET (1..N) :
          s # {} /\ g[s \ {Max(s)}] \in D => g[s] = F[g[s \ {Max(s)}]]
    BY <1>9
  <2> HIDE DEF F
  <2>3. Agreeing(g, D, F, base, N)
    BY <2>1, <2>2 DEF Agreeing
  <2> QED
    BY <1>n, <1>5, <2>3, IteratesAgree
<1>11. Heap!Coalesce(h, k) = w[N]
  BY <1>1, <1>10, CoalesceFolds DEF g, R
<1>12. w[N] \in D
  BY <1>1, <1>5 DEF Iterating
<1>13. w[N] \in G
  BY <1>2, <1>11, <1>12
<1>14. Heap!block_coalescing(h, k) = w[N].h
  BY <1>11 DEF Heap!block_coalescing
<1> QED
  BY <1>13, <1>14 DEF G, Coalescing

(***************************************************************************)
(* malloc, free and realloc.                                               *)
(***************************************************************************)
(* first_fit and best_fit find nothing, or a free block that is large enough. *)
LEMMA Fits ==
  ASSUME NEW h \in Heaps, NEW size \in Nat, NEW x,
         x = Heap!first_fit(h, size) \/ x = Heap!best_fit(h, size), x # Nothing
  PROVE  x \in Unused(h) /\ h.mem[x].size >= size
<1> DEFINE k == Heap!get_index(size)
           seq == Heap!List(h, k)
           fit == Heap!Fitting(h, seq, size)
           small == Heap!Smallest(h, seq, fit)
<1>1. seq \in Seq(DOMAIN h.mem)
  BY Classes, ListOf
<1>2. /\ fit \subseteq DOMAIN seq
      /\ \A n \in fit : h.mem[seq[n]].free = 1 /\ h.mem[seq[n]].size >= size
  BY DEF Heap!Fitting
<1>3. small \subseteq fit
  BY DEF Heap!Smallest
<1>4. PICK places \in SUBSET fit : x = Heap!First(seq, places)
  <2>1. Heap!first_fit(h, size) = Heap!First(seq, fit)
    BY DEF Heap!first_fit
  <2>2. Heap!best_fit(h, size) = Heap!First(seq, small)
    BY DEF Heap!best_fit
  <2> HIDE DEF fit, small, seq
  <2> QED
    BY <1>3, <2>1, <2>2
<1> HIDE DEF seq, fit
<1>5. DOMAIN seq \subseteq Nat /\ \A n \in DOMAIN seq : seq[n] \in DOMAIN h.mem
  BY <1>1
<1>6. places # {} /\ x = seq[Min(places)]
  BY <1>4 DEF Heap!First, Heap!Min, Min
<1>7. Min(places) \in places
  <2>1. places \subseteq Nat
    BY <1>2, <1>5
  <2> QED
    BY <1>6, <2>1, MinOfSet
<1>8. Min(places) \in fit /\ Min(places) \in DOMAIN seq
  BY <1>2, <1>4, <1>7
<1> QED
  BY <1>2, <1>5, <1>6, <1>8 DEF Unused

(* What malloc and realloc leave: a sound heap, where the blocks in use are *)
(* as large as they were, and the one that is returned is new and large     *)
(* enough.                                                                 *)
Grows(h, g) == \A b \in InUse(h) : b \in InUse(g) /\ g.mem[b].size >= h.mem[b].size
Allocates(h, m, size) ==
  /\ \E r : Sound(m.h, r)
  /\ m.ptr = Nothing => Keeps(h, m.h)
  /\ m.ptr # Nothing =>
       /\ m.ptr \notin InUse(h) /\ InUse(m.h) = InUse(h) \cup {m.ptr}
       /\ m.h.mem[m.ptr].size >= size /\ Grows(h, m.h)

(* Nothing can be said of a block in use that is as large as it was. *)
LEMMA SameGrows ==
  ASSUME NEW h \in Heaps, NEW g, SameSizes(h, g), InUse(h) \subseteq InUse(g)
  PROVE  Grows(h, g)
<1>1. ASSUME NEW b \in InUse(h) PROVE b \in InUse(g) /\ g.mem[b].size >= h.mem[b].size
  <2>1. h.mem[b].size \in Nat
    BY HeapFields DEF InUse
  <2>2. g.mem[b].size = h.mem[b].size
    BY DEF SameSizes
  <2> QED
    BY <2>1, <2>2
<1> QED
  BY <1>1 DEF Grows

LEMMA KeepsReflexive ==
  ASSUME NEW h \in Heaps
  PROVE  Keeps(h, h)
<1>1. ASSUME NEW b \in InUse(h) PROVE h.mem[b].size >= h.mem[b].size
  <2>1. h.mem[b].size \in Nat
    BY HeapFields DEF InUse
  <2> QED
    BY <2>1
<1> QED
  BY <1>1 DEF Keeps

(* A block that is found is taken off its list, and is not split. *)
LEMMA FoundBlock ==
  ASSUME NEW h, NEW rank, Sound(h, rank), NEW size \in Nat,
         NEW x \in Unused(h), h.mem[x].size >= size
  PROVE  Allocates(h, Heap!Obtain(h, x, size), size)
<1> DEFINE g == Take(h, x)
           m == Heap!Obtain(h, x, size)
<1>1. /\ Sound(g, rank) /\ InUse(g) = InUse(h) \cup {x} /\ x \notin InUse(h)
      /\ SameSizes(h, g) /\ g.mem[x].size = h.mem[x].size
  BY Taken
<1>2. x # Nothing /\ h \in Heaps
  BY HeapFields DEF Unused, Sound
<1>3. m = [h |-> Heap!block_splitting(g, x, size), ptr |-> x]
  BY <1>2 DEF Heap!Obtain, Take
<1> HIDE DEF g, m
<1>4. g.mem[x].free = 0
  BY <1>1 DEF InUse
<1>5. Heap!block_splitting(g, x, size) = g
  BY <1>4 DEF Heap!block_splitting
<1>6. m.h = g /\ m.ptr = x
  BY <1>3, <1>5
<1>7. Grows(h, g)
  BY <1>1, <1>2, SameGrows
<1>8. Allocates(h, m, size)
  BY <1>1, <1>2, <1>6, <1>7 DEF Allocates
<1> QED
  BY <1>8 DEF m

(* There is none: the heap grows, or malloc fails. *)
LEMMA NoBlock ==
  ASSUME NEW h, NEW rank, Sound(h, rank), NEW size \in Nat
  PROVE  Allocates(h, Heap!Obtain(h, Nothing, size), size)
<1> DEFINE g == Extend(h, size)
           m == Heap!Obtain(h, Nothing, size)
<1>1. h \in Heaps
  BY DEF Sound
<1>2. CASE h.brk + META + size > HeapLimit
  <2>1. m = [h |-> h, ptr |-> Nothing]
    BY <1>2 DEF Heap!Obtain
  <2> HIDE DEF m
  <2>2. m.h = h /\ m.ptr = Nothing /\ Keeps(h, h)
    BY <1>1, <2>1, KeepsReflexive
  <2>3. Allocates(h, m, size)
    BY <2>2 DEF Allocates
  <2> QED
    BY <2>3 DEF m
<1>3. CASE ~(h.brk + META + size > HeapLimit)
  <2>1. m = [h |-> g, ptr |-> h.brk]
    BY <1>3 DEF Heap!Obtain, Extend
  <2>2. h.brk + META + size <= HeapLimit
    <3>1. h.brk \in Nat /\ META \in Nat /\ HeapLimit \in Nat
      BY <1>1, HeapFields, HeapConstants
    <3> QED
      BY <1>3, <3>1
  <2> DEFINE x == h.brk
  <2>3. /\ Sound(g, rank) /\ x \notin InUse(h) /\ x # Nothing
        /\ InUse(g) = InUse(h) \cup {x} /\ g.mem[x].size = size /\ SameSizes(h, g)
    BY <2>2, Extended
  <2>4. m.h = g /\ m.ptr = x
    <3> HIDE DEF m, g, x
    <3> QED
      BY <2>1 DEF x
  <2> HIDE DEF m, g, x
  <2>5. Grows(h, g)
    BY <1>1, <2>3, SameGrows
  <2>6. Allocates(h, m, size)
    BY <2>3, <2>4, <2>5 DEF Allocates
  <2> QED
    BY <2>6 DEF m
<1> QED
  BY <1>2, <1>3

LEMMA KeepsThenAllocates ==
  ASSUME NEW h \in Heaps, NEW e \in Heaps, Keeps(h, e), NEW m, NEW size, Allocates(e, m, size)
  PROVE  Allocates(h, m, size)
<1>1. InUse(e) = InUse(h)
  BY DEF Keeps
<1>2. PICK r : Sound(m.h, r)
  BY DEF Allocates
<1>3. m.h \in Heaps
  BY <1>2 DEF Sound
<1>4. ASSUME m.ptr = Nothing PROVE Keeps(h, m.h)
  <2>1. Keeps(e, m.h)
    BY <1>4 DEF Allocates
  <2> QED
    BY <1>3, <2>1, KeepsOn
<1>5. ASSUME m.ptr # Nothing
      PROVE  /\ m.ptr \notin InUse(h) /\ InUse(m.h) = InUse(h) \cup {m.ptr}
             /\ m.h.mem[m.ptr].size >= size
  BY <1>1, <1>5 DEF Allocates
<1>6. ASSUME m.ptr # Nothing PROVE Grows(h, m.h)
  <2>1. Grows(e, m.h)
    BY <1>6 DEF Allocates
  <2>2. ASSUME NEW b \in InUse(h)
        PROVE  b \in InUse(m.h) /\ m.h.mem[b].size >= h.mem[b].size
    <3>1. b \in InUse(m.h) /\ m.h.mem[b].size >= e.mem[b].size
      BY <1>1, <2>1 DEF Grows
    <3>2. e.mem[b].size >= h.mem[b].size
      BY DEF Keeps
    <3>3. m.h.mem[b].size \in Nat
      BY <1>3, <3>1, HeapFields DEF InUse
    <3>4. e.mem[b].size \in Nat
      BY <1>1, HeapFields DEF InUse
    <3>5. h.mem[b].size \in Nat
      BY HeapFields DEF InUse
    <3> QED
      BY <3>1, <3>2, <3>3, <3>4, <3>5
  <2> QED
    BY <2>2 DEF Grows
<1> QED
  BY <1>2, <1>4, <1>5, <1>6 DEF Allocates

LEMMA MallocAllocates ==
  ASSUME NEW h, NEW rank, Sound(h, rank), NEW size \in Nat, NEW d, ~Heap!Outgrows(h, size, d)
  PROVE  Allocates(h, Heap!Malloc(h, size, d), size)
<1>1. h \in Heaps
  BY DEF Sound
<1>2. CASE size = 0
  <2>1. Heap!Malloc(h, size, d) = [h |-> h, ptr |-> Nothing]
    BY <1>2 DEF Heap!Malloc
  <2> DEFINE m == Heap!Malloc(h, size, d)
  <2>2. m.h = h /\ m.ptr = Nothing
    BY <2>1
  <2> HIDE DEF m
  <2>3. Allocates(h, m, size)
    BY <1>1, <2>2, KeepsReflexive DEF Allocates
  <2> QED
    BY <2>3 DEF m
<1>3. CASE size # 0
  <2> DEFINE e == Heap!Coalesced(h, size, d)
             x == IF Heap!get_index(size) >= SEARCH THEN Heap!best_fit(e, size)
                  ELSE Heap!first_fit(e, size)
  <2>1. Heap!Malloc(h, size, d) = Heap!Obtain(e, x, size)
    BY <1>3 DEF Heap!Malloc, Heap!Search
  <2>2. Sound(e, rank) /\ Keeps(h, e)
    <3>1. CASE Heap!Coalesces(size, d)
      <4> DEFINE k == Heap!get_index(size)
      <4>1. e = Heap!block_coalescing(h, k) /\ ~Heap!Coalesce(h, k).leaves
        BY <3>1 DEF Heap!Coalesced, Heap!Outgrows
      <4>2. k \in 0..Heap!Over
        BY Classes
      <4> HIDE DEF e, k
      <4> QED
        BY <4>1, <4>2, Coalesced
    <3>2. CASE ~Heap!Coalesces(size, d)
      <4>1. e = h
        BY <3>2 DEF Heap!Coalesced
      <4> QED
        BY <1>1, <4>1, KeepsReflexive
    <3> QED
      BY <3>1, <3>2
  <2>3. x = Heap!best_fit(e, size) \/ x = Heap!first_fit(e, size)
    OBVIOUS
  <2> HIDE DEF e, x
  <2>4. e \in Heaps
    BY <2>2 DEF Sound
  <2>5. Allocates(e, Heap!Obtain(e, x, size), size)
    <3>1. CASE x = Nothing
      BY <2>2, <3>1, NoBlock
    <3>2. CASE x # Nothing
      <4>1. x \in Unused(e) /\ e.mem[x].size >= size
        BY <2>3, <2>4, <3>2, Fits
      <4> QED
        BY <2>2, <4>1, FoundBlock
    <3> QED
      BY <3>1, <3>2
  <2> QED
    BY <1>1, <2>1, <2>2, <2>4, <2>5, KeepsThenAllocates
<1> QED
  BY <1>2, <1>3

(* The block of the caller is not in use any more; the others are as large  *)
(* as they were.                                                           *)
Frees(h, g, x) ==
  /\ \E r : Sound(g, r)
  /\ InUse(g) = InUse(h) \ {x}
  /\ \A b \in InUse(h) \ {x} : g.mem[b].size >= h.mem[b].size

LEMMA SameFrees ==
  ASSUME NEW h \in Heaps, NEW e \in Heaps, Keeps(h, e), NEW g, NEW x, NEW r,
         Sound(g, r), InUse(g) = InUse(e) \ {x}, SameSizes(e, g)
  PROVE  Frees(h, g, x)
<1>1. ASSUME NEW b \in InUse(h) \ {x} PROVE g.mem[b].size >= h.mem[b].size
  <2>1. b \in InUse(e) /\ b \in InUse(g) /\ e.mem[b].size >= h.mem[b].size
    BY DEF Keeps
  <2>2. g.mem[b].size = e.mem[b].size
    BY <2>1 DEF SameSizes
  <2> QED
    BY <2>1, <2>2
<1>2. InUse(e) = InUse(h)
  BY DEF Keeps
<1> QED
  BY <1>1, <1>2 DEF Frees

LEMMA FreeFrees ==
  ASSUME NEW h, NEW rank, Sound(h, rank), NEW x \in InUse(h)
  PROVE  Frees(h, Heap!Free(h, x), x)
<1> DEFINE e == Heap!combine_next(h, x)
<1>1. h \in Heaps /\ x \in DOMAIN h.mem /\ h.mem[x].free = 0 /\ x \notin Unused(h)
  BY DEF Sound, InUse, Unused
<1>2. Sound(e, rank) /\ Keeps(h, e)
  <2> HIDE DEF e
  <2> QED
    BY <1>1, Combined DEF e
<1>3. Heap!Free(h, x) = Heap!Release(e, x)
  BY <1>1 DEF Heap!Free
<1> HIDE DEF e
<1>4. x \in InUse(e) /\ e \in Heaps
  BY <1>2 DEF Keeps, Sound
<1>5. CASE Heap!get_index(e.mem[x].size) > FREE /\ Heap!End(e, x) >= e.brk
  <2> DEFINE g == Heap!give_back(e, x)
  <2>1. Heap!Release(e, x) = g
    BY <1>5 DEF Heap!Release
  <2>2. Sound(g, rank) /\ InUse(g) = InUse(e) \ {x} /\ SameSizes(e, g)
    BY <1>2, <1>4, <1>5, GivenBackInUse
  <2> HIDE DEF g
  <2> QED
    BY <1>1, <1>2, <1>3, <1>4, <2>1, <2>2, SameFrees
<1>6. CASE ~(Heap!get_index(e.mem[x].size) > FREE /\ Heap!End(e, x) >= e.brk)
  <2> DEFINE g == Heap!addblock(MarkUnused(e, x), x)
  <2>1. Heap!Release(e, x) = g
    BY <1>6 DEF Heap!Release, MarkUnused
  <2>2. /\ \E r : Sound(g, r)
        /\ InUse(g) = InUse(e) \ {x} /\ SameSizes(e, g)
    BY <1>2, <1>4, Freed
  <2> HIDE DEF g
  <2>3. PICK r : Sound(g, r)
    BY <2>2
  <2> QED
    BY <1>1, <1>2, <1>3, <1>4, <2>1, <2>2, <2>3, SameFrees
<1> QED
  BY <1>5, <1>6

(* What a call does that returns m in the place of the block old. *)
Serves(h, m, old, size) ==
  /\ \E r : Sound(m.h, r)
  /\ m.ptr = Nothing => Keeps(h, m.h)
  /\ m.ptr # Nothing =>
       /\ InUse(m.h) = (InUse(h) \ {old}) \cup {m.ptr} /\ m.h.mem[m.ptr].size >= size
       /\ \A b \in InUse(h) \ {old} : b # m.ptr /\ m.h.mem[b].size >= h.mem[b].size

LEMMA AllocatesServes ==
  ASSUME NEW h \in Heaps, NEW m, NEW size, Allocates(h, m, size)
  PROVE  Serves(h, m, Nothing, size)
<1>1. InUse(h) \ {Nothing} = InUse(h)
  BY HeapFields DEF InUse
<1> QED
  BY <1>1 DEF Allocates, Serves, Grows

(* The block stays where it is. *)
LEMMA StaysServes ==
  ASSUME NEW h \in Heaps, NEW e, NEW rank, Sound(e, rank), Keeps(h, e), NEW x \in InUse(h),
         NEW size, e.mem[x].size >= size, NEW m, m = [h |-> e, ptr |-> x]
  PROVE  Serves(h, m, x, size)
<1>1. m.h = e /\ m.ptr = x
  OBVIOUS
<1>2. x # Nothing
  BY HeapFields DEF InUse
<1>3. InUse(e) = (InUse(h) \ {x}) \cup {x}
  BY DEF Keeps
<1>4. \A b \in InUse(h) \ {x} : e.mem[b].size >= h.mem[b].size
  BY DEF Keeps
<1> QED
  BY <1>1, <1>2, <1>3, <1>4 DEF Serves

LEMMA ReallocServes ==
  ASSUME NEW h, NEW rank, Sound(h, rank), NEW x \in InUse(h), NEW size \in Nat, NEW d,
         Heap!Mallocs(h, x, size) => ~Heap!Outgrows(Heap!combine_next(h, x), size, d)
  PROVE  Serves(h, Heap!Realloc(h, x, size, d), x, size)
<1> DEFINE e == Heap!combine_next(h, x)
           m == Heap!Malloc(e, size, d)
<1>1. h \in Heaps /\ x \in DOMAIN h.mem /\ h.mem[x].free = 0 /\ x \notin Unused(h) /\ x # Nothing
  BY HeapFields DEF Sound, InUse, Unused
<1>2. CASE h.mem[x].size >= size
  <2>1. Heap!block_splitting(h, x, size) = h
    BY <1>1 DEF Heap!block_splitting
  <2>2. Heap!Realloc(h, x, size, d) = [h |-> h, ptr |-> x]
    BY <1>2, <2>1 DEF Heap!Realloc
  <2>3. Keeps(h, h)
    BY <1>1, KeepsReflexive
  <2> QED
    BY <1>1, <1>2, <2>2, <2>3, StaysServes
<1>3. ASSUME ~(h.mem[x].size >= size)
      PROVE  Heap!Realloc(h, x, size, d) = Heap!Grown(e, x, size, d)
  BY <1>3 DEF Heap!Realloc
<1>4. Sound(e, rank) /\ Keeps(h, e)
  <2> HIDE DEF e
  <2> QED
    BY <1>1, Combined DEF e
<1> HIDE DEF e
<1>5. e \in Heaps /\ x \in InUse(e)
  BY <1>4 DEF Sound, Keeps
<1>6. CASE ~(h.mem[x].size >= size) /\ e.mem[x].size >= size
  <2>1. Heap!Realloc(h, x, size, d) = [h |-> e, ptr |-> x]
    BY <1>3, <1>6 DEF Heap!Grown
  <2>2. e.mem[x].size >= size
    BY <1>6
  <2> QED
    BY <1>1, <1>4, <2>1, <2>2, StaysServes
<1>7. CASE ~(h.mem[x].size >= size) /\ ~(e.mem[x].size >= size)
  <2>1. Heap!Realloc(h, x, size, d) = Heap!Moved(m, x)
    BY <1>3, <1>7 DEF Heap!Grown
  <2>o. ~Heap!Outgrows(e, size, d)
    <3>1. e.mem[x].size < size
      <4>1. e.mem[x].size \in Nat
        BY <1>5, HeapFields DEF InUse
      <4> QED
        BY <1>7, <4>1
    <3> QED
      BY <3>1 DEF Heap!Mallocs, e
  <2>2. Allocates(e, m, size)
    BY <1>4, <2>o, MallocAllocates
  <2>3. Allocates(h, m, size)
    BY <1>1, <1>4, <1>5, <2>2, KeepsThenAllocates
  <2>d. DOMAIN m = {"h", "ptr"} /\ m = [h |-> m.h, ptr |-> m.ptr]
    BY DEF Heap!Malloc, Heap!Search, Heap!Obtain
  <2> HIDE DEF m
  <2>4. PICK r : Sound(m.h, r)
    BY <2>3 DEF Allocates
  <2>5. CASE m.ptr = Nothing
    <3>1. Heap!Moved(m, x) = m
      BY <2>5, <2>d DEF Heap!Moved
    <3>2. Keeps(h, m.h)
      BY <2>3, <2>5 DEF Allocates
    <3>3. Serves(h, m, x, size)
      BY <2>4, <2>5, <3>2 DEF Serves
    <3> QED
      BY <2>1, <3>1, <3>3
  <2>6. CASE m.ptr # Nothing
    <3> DEFINE f == Heap!Free(m.h, x)
               n == Heap!Moved(m, x)
               y == m.ptr
    <3>1. n.h = f /\ n.ptr = y
      BY <2>6, <2>d DEF Heap!Moved
    <3>2. /\ y \notin InUse(h) /\ InUse(m.h) = InUse(h) \cup {y}
          /\ m.h.mem[y].size >= size /\ Grows(h, m.h)
      BY <2>3, <2>6 DEF Allocates
    <3>3. x \in InUse(m.h) /\ y # x /\ m.h \in Heaps
      BY <2>4, <3>2 DEF Sound
    <3>4. Frees(m.h, f, x)
      BY <2>4, <3>3, FreeFrees
    <3>5. y # Nothing
      BY <2>6
    <3> HIDE DEF f, n, y
    <3>6. InUse(f) = (InUse(h) \ {x}) \cup {y}
      <4>1. InUse(f) = InUse(m.h) \ {x}
        BY <3>4 DEF Frees
      <4> QED
        BY <3>2, <3>3, <4>1
    <3>7. f \in Heaps
      BY <3>4 DEF Frees, Sound
    <3>8. f.mem[y].size >= size
      <4>1. f.mem[y].size >= m.h.mem[y].size /\ y \in InUse(f) /\ y \in InUse(m.h)
        BY <3>2, <3>3, <3>4, <3>6 DEF Frees
      <4>2. f.mem[y].size \in Nat
        BY <3>7, <4>1, HeapFields DEF InUse
      <4>3. m.h.mem[y].size \in Nat
        BY <3>3, <4>1, HeapFields DEF InUse
      <4> QED
        BY <3>2, <4>1, <4>2, <4>3
    <3>9. ASSUME NEW b \in InUse(h) \ {x} PROVE b # y /\ f.mem[b].size >= h.mem[b].size
      <4>1. m.h.mem[b].size >= h.mem[b].size /\ b \in InUse(m.h) /\ b # y
        BY <3>2 DEF Grows
      <4>2. f.mem[b].size >= m.h.mem[b].size /\ b \in InUse(f)
        BY <3>4, <4>1 DEF Frees
      <4>3. f.mem[b].size \in Nat
        BY <3>7, <4>2, HeapFields DEF InUse
      <4>4. m.h.mem[b].size \in Nat
        BY <3>3, <4>1, HeapFields DEF InUse
      <4>5. h.mem[b].size \in Nat
        BY <1>1, HeapFields DEF InUse
      <4> QED
        BY <4>1, <4>2, <4>3, <4>4, <4>5
    <3>10. \E q : Sound(f, q)
      BY <3>4 DEF Frees
    <3>11. Serves(h, n, x, size)
      BY <3>1, <3>5, <3>6, <3>8, <3>9, <3>10 DEF Serves
    <3> QED
      BY <2>1, <3>11 DEF n
  <2> QED
    BY <2>5, <2>6
<1> QED
  BY <1>2, <1>6, <1>7

(***************************************************************************)
(* The allocator.                                                          *)
(***************************************************************************)
(* The heap is sound, and the blocks in use are those callers hold, each as *)
(* large as it was asked for, unless calloc wrapped around.                *)
HeapInv ==
  /\ \E rank : Sound(heap, rank)
  /\ lent \in [InUse(heap) -> Nat]
  /\ \A p \in InUse(heap) \ wrapped : heap.mem[p].size >= lent[p]

(* A call that serves a caller keeps the invariant. *)
LEMMA ReturnsKeeps ==
  ASSUME HeapInv, NEW m, NEW old, NEW bytes \in Nat, NEW size \in Nat,
         Serves(heap, m, old, bytes), Heap!Returns(m, old, bytes, size)
  PROVE  HeapInv'
<1>1. heap' = m.h /\ heap \in Heaps
  BY DEF Heap!Returns, HeapInv, Sound
<1>2. PICK r : Sound(m.h, r)
  BY DEF Serves
<1>3. (\E rank : Sound(heap, rank))'
  BY <1>1, <1>2 DEF Sound
<1>4. m.h \in Heaps
  BY <1>2 DEF Sound
<1>5. CASE m.ptr = Nothing
  <2>1. lent' = lent /\ wrapped' = wrapped /\ Keeps(heap, m.h)
    BY <1>5 DEF Heap!Returns, Serves
  <2>2. InUse(heap') = InUse(heap)
    BY <1>1, <2>1 DEF Keeps
  <2>3. ASSUME NEW p \in InUse(heap) \ wrapped PROVE heap'.mem[p].size >= lent[p]
    <3>1. m.h.mem[p].size >= heap.mem[p].size /\ heap.mem[p].size >= lent[p]
      BY <2>1 DEF Keeps, HeapInv
    <3>2. m.h.mem[p].size \in Nat
      BY <1>1, <1>4, <2>2, HeapFields DEF InUse
    <3>3. heap.mem[p].size \in Nat /\ lent[p] \in Nat
      BY <1>1, HeapFields DEF InUse, HeapInv
    <3> QED
      BY <1>1, <3>1, <3>2, <3>3
  <2> QED
    BY <1>3, <2>1, <2>2, <2>3 DEF HeapInv, InUse
<1>6. CASE m.ptr # Nothing
  <2> DEFINE x == m.ptr
             U == InUse(heap) \ {old}
  <2>1. /\ InUse(m.h) = U \cup {x} /\ m.h.mem[x].size >= bytes
        /\ \A b \in U : b # x /\ m.h.mem[b].size >= heap.mem[b].size
    BY <1>6 DEF Serves
  <2>2. lent' = [b \in U \cup {x} |-> IF b = x THEN size ELSE lent[b]]
    <3>1. lent' = Heap!With(Heap!Without(lent, old), x, size)
      BY <1>6 DEF Heap!Returns
    <3>2. DOMAIN lent = InUse(heap)
      BY DEF HeapInv
    <3>3. Heap!Without(lent, old) = [b \in U |-> lent[b]]
      BY <3>2 DEF Heap!Without, Heap!Restrict
    <3> HIDE DEF U, x
    <3> QED
      BY <2>1, <3>1, <3>3 DEF Heap!With
  <2>3. \A b \in U : lent[b] \in Nat
    BY DEF HeapInv
  <2> HIDE DEF x
  <2>4. lent' \in [InUse(heap') -> Nat]
    BY <1>1, <2>1, <2>2, <2>3
  <2>w. wrapped' = (wrapped \ {old}) \cup (IF bytes # size THEN {x} ELSE {})
    BY <1>6 DEF Heap!Returns, x
  <2>5. ASSUME NEW p \in InUse(heap') \ wrapped' PROVE heap'.mem[p].size >= lent'[p]
    <3>1. CASE p = x
      <4>1. bytes = size
        BY <2>w, <2>5, <3>1
      <4> QED
        BY <1>1, <2>1, <2>2, <3>1, <4>1
    <3>2. CASE p # x
      <4>1. p \in U /\ lent'[p] = lent[p] /\ p \in InUse(heap) \ wrapped
        <5>1. p \in U /\ lent'[p] = lent[p]
          BY <1>1, <2>1, <2>2, <3>2
        <5> QED
          BY <2>w, <2>5, <5>1
      <4>2. m.h.mem[p].size >= heap.mem[p].size /\ heap.mem[p].size >= lent[p]
        BY <2>1, <4>1 DEF HeapInv
      <4>3. m.h.mem[p].size \in Nat
        BY <1>1, <1>4, HeapFields DEF InUse
      <4>4. heap.mem[p].size \in Nat /\ lent[p] \in Nat
        BY <1>1, <2>3, <4>1, HeapFields DEF InUse
      <4> QED
        BY <1>1, <4>1, <4>2, <4>3, <4>4
    <3> QED
      BY <3>1, <3>2
  <2> QED
    BY <1>3, <2>4, <2>5 DEF HeapInv, InUse
<1> QED
  BY <1>5, <1>6

LEMMA FreeKeeps ==
  ASSUME HeapInv, NEW x \in DOMAIN lent, Heap!free(x)
  PROVE  HeapInv'
<1> DEFINE g == Heap!Free(heap, x)
           U == InUse(heap) \ {x}
<1>1. PICK rank : Sound(heap, rank)
  BY DEF HeapInv
<1>2. /\ heap' = g /\ x \in InUse(heap) /\ heap \in Heaps
      /\ lent' = Heap!Without(lent, x) /\ DOMAIN lent = InUse(heap)
      /\ wrapped' = wrapped \ {x}
  BY <1>1 DEF Heap!free, HeapInv, Sound
<1>3. Frees(heap, g, x)
  BY <1>1, <1>2, FreeFrees
<1> HIDE DEF g
<1>4. PICK r : Sound(g, r)
  BY <1>3 DEF Frees
<1>5. InUse(g) = U /\ g \in Heaps
  BY <1>3, <1>4 DEF Frees, Sound
<1>6. lent' = [b \in U |-> lent[b]]
  BY <1>2 DEF Heap!Without, Heap!Restrict
<1>7. lent' \in [U -> Nat] /\ \A p \in U : lent'[p] = lent[p]
  BY <1>6 DEF HeapInv
<1>8. ASSUME NEW p \in U \ wrapped' PROVE g.mem[p].size >= lent'[p]
  <2>0. p \in InUse(heap) \ wrapped
    BY <1>2
  <2>1. g.mem[p].size >= heap.mem[p].size /\ heap.mem[p].size >= lent[p]
    BY <1>3, <2>0 DEF Frees, HeapInv
  <2>2. g.mem[p].size \in Nat
    BY <1>5, HeapFields DEF InUse
  <2>3. heap.mem[p].size \in Nat /\ lent[p] \in Nat
    BY <1>2, HeapFields DEF InUse, HeapInv
  <2> QED
    BY <1>7, <2>1, <2>2, <2>3
<1> QED
  BY <1>2, <1>4, <1>5, <1>7, <1>8 DEF HeapInv, InUse, Sound

LEMMA StartsSound ==
  ASSUME Heap!Init
  PROVE  HeapInv
<1> DEFINE f == [k \in 0..Heap!Over |-> Nothing]
           m == <<>>
           rank == [a \in Heap!Addresses |-> 0]
<1>1. heap = [mem |-> m, head |-> f, brk |-> 0] /\ lent = <<>>
  BY DEF Heap!Init
<1>2. DOMAIN m = {} /\ m \in [{} -> Heap!Header] /\ f \in [0..Heap!Over -> Pointers]
  BY DEF Pointers
<1>3. 0 \in Heap!Addresses
  BY HeapConstants DEF Heap!Addresses
<1> HIDE DEF m
<1>4. \A k \in 0..Heap!Over : f[k] = Nothing
  OBVIOUS
<1> HIDE DEF f
<1>5. heap \in Heaps
  BY <1>1, <1>2, <1>3, IsHeap
<1>6. DOMAIN heap.mem = {} /\ heap.brk = 0 /\ heap.head = f
  BY <1>1, <1>2
<1>7. Unused(heap) = {} /\ InUse(heap) = {}
  BY <1>6 DEF Unused, InUse
<1>8. Tiles(DOMAIN heap.mem, SizeOf(heap), heap.brk)
  BY <1>6 DEF Tiles
<1>9. Chained(Unused(heap), ClassOf(heap), NextOf(heap), PrevOf(heap), heap.head, rank)
  BY <1>4, <1>6, <1>7 DEF Chained
<1>10. rank \in [Heap!Addresses -> Int]
  OBVIOUS
<1> HIDE DEF rank
<1>11. Sound(heap, rank)
  BY <1>5, <1>8, <1>9, <1>10 DEF Sound
<1>12. lent \in [InUse(heap) -> Nat]
  BY <1>1, <1>7
<1> QED
  BY <1>7, <1>11, <1>12 DEF HeapInv

(* A call in which no block leaves its class *)
LEMMA CallsKeep ==
  ASSUME HeapInv, [Heap!Next]_Heap!vars, ~outgrown, ~outgrown'
  PROVE  HeapInv'
<1>0. PICK rank : Sound(heap, rank)
  BY DEF HeapInv
<1>h. heap \in Heaps
  BY <1>0 DEF Sound
<1>1. ASSUME NEW size \in Requests, Heap!malloc(size) PROVE HeapInv'
  <2> DEFINE m == Heap!Malloc(heap, size, defrag)
  <2>1. size \in Nat
    BY HeapConstants
  <2>2. Heap!Returns(m, Nothing, size, size) /\ ~Heap!Outgrows(heap, size, defrag)
    BY <1>1 DEF Heap!malloc
  <2>3. Allocates(heap, m, size)
    BY <1>0, <2>1, <2>2, MallocAllocates
  <2> HIDE DEF m
  <2>4. Serves(heap, m, Nothing, size)
    BY <1>h, <2>3, AllocatesServes
  <2> QED
    BY <2>1, <2>2, <2>4, ReturnsKeeps
<1>2. ASSUME NEW num \in Nums, NEW size \in Requests, Heap!calloc(num, size) PROVE HeapInv'
  <2> DEFINE bytes == (num * size) % SizeMod
             m == Heap!Malloc(heap, bytes, defrag)
  <2>1. bytes \in Nat /\ num * size \in Nat
    <3>1. num \in Nat /\ size \in Nat /\ SizeMod \in Nat \ {0}
      BY HeapConstants
    <3>2. num * size \in Nat
      BY <3>1
    <3> DEFINE product == num * size
    <3> HIDE DEF product
    <3>3. product % SizeMod \in Nat
      BY <3>1, <3>2 DEF product
    <3> QED
      BY <3>2, <3>3 DEF product
  <2>2. Heap!Returns(m, Nothing, bytes, num * size) /\ ~Heap!Outgrows(heap, bytes, defrag)
    BY <1>2 DEF Heap!calloc
  <2> DEFINE asked == num * size
  <2> HIDE DEF bytes, asked
  <2>3. Heap!Returns(m, Nothing, bytes, asked) /\ asked \in Nat
    BY <2>1, <2>2 DEF asked
  <2>4. Allocates(heap, m, bytes)
    BY <1>0, <2>1, <2>2, MallocAllocates
  <2> HIDE DEF m
  <2>5. Serves(heap, m, Nothing, bytes)
    BY <1>h, <2>4, AllocatesServes
  <2> QED
    BY <2>1, <2>3, <2>5, ReturnsKeeps
<1>3. ASSUME NEW x \in DOMAIN lent, Heap!free(x) PROVE HeapInv'
  BY <1>3, FreeKeeps
<1>4. ASSUME NEW x \in DOMAIN lent, NEW size \in Requests, Heap!realloc(x, size) PROVE HeapInv'
  <2> DEFINE m == Heap!Realloc(heap, x, size, defrag)
  <2>1. size \in Nat /\ x \in InUse(heap)
    BY HeapConstants DEF HeapInv
  <2>2. /\ Heap!Returns(m, x, size, size)
        /\ Heap!Mallocs(heap, x, size) =>
             ~Heap!Outgrows(Heap!combine_next(heap, x), size, defrag)
    BY <1>4 DEF Heap!realloc
  <2>3. Serves(heap, m, x, size)
    BY <1>0, <2>1, <2>2, ReallocServes
  <2> HIDE DEF m
  <2> QED
    BY <2>1, <2>2, <2>3, ReturnsKeeps
<1>5. CASE UNCHANGED Heap!vars
  BY <1>5 DEF Heap!vars, HeapInv, Sound, InUse, Unused, SizeOf, ClassOf, NextOf, PrevOf
<1>6. CASE Heap!Next
  BY <1>1, <1>2, <1>3, <1>4, <1>6 DEF Heap!Next
<1> QED
  BY <1>5, <1>6

(* The invariant, as long as every listed block has kept its class *)
CallsInv == ~outgrown => HeapInv

LEMMA CallsKeepOn == CallsInv /\ [Heap!Next]_Heap!vars => CallsInv'
<1> SUFFICES ASSUME CallsInv, [Heap!Next]_Heap!vars, ~outgrown' PROVE HeapInv'
  BY DEF CallsInv
<1>1. ~outgrown
  BY DEF Heap!Next, Heap!vars
<1> QED
  BY <1>1, CallsKeep DEF CallsInv

LEMMA SoundIsSafe ==
  ASSUME HeapInv
  PROVE  HeldSafe
<1> DEFINE D == DOMAIN heap.mem
<1>1. PICK rank : Sound(heap, rank)
  BY DEF HeapInv
<1>2. /\ heap \in Heaps /\ Tiles(D, SizeOf(heap), heap.brk)
      /\ lent \in [InUse(heap) -> Nat]
      /\ \A p \in InUse(heap) \ wrapped : heap.mem[p].size >= lent[p]
  BY <1>1 DEF Sound, HeapInv
<1>3. \A b \in D : b \in Nat /\ heap.mem[b].size \in Nat /\ SizeOf(heap)[b] = heap.mem[b].size
  BY <1>2, HeapFields DEF SizeOf
<1>4. Heap!Blocks = D /\ \A b \in D : Heap!End(heap, b) = b + META + SizeOf(heap)[b]
  BY <1>3 DEF Heap!Blocks, Heap!End
<1>5. Heap!Tiled
  <2> DEFINE size == SizeOf(heap)
             end == heap.brk
  <2>1. /\ D # {} => 0 \in D
        /\ end = 0 <=> D = {}
        /\ \A b \in D : b + META + size[b] \in D \cup {end}
        /\ \A b, c \in D : b < c => b + META + size[b] <= c
    BY <1>2 DEF Tiles
  <2>2. \A b \in D : b + META + size[b] \notin 0..b
    <3> TAKE b \in D
    <3>1. b \in Nat /\ size[b] \in Nat /\ META \in Nat \ {0}
      BY <1>3, HeapConstants
    <3> QED
      BY <3>1
  <2> HIDE DEF D, size, end
  <2>3. \A b \in D : Heap!End(heap, b) \in (D \cup {end}) \ 0..b
    BY <1>4, <2>1, <2>2 DEF size
  <2>4. \A b, c \in D : b < c => Heap!End(heap, b) <= c
    BY <1>4, <2>1 DEF size
  <2> QED
    BY <1>4, <2>1, <2>3, <2>4 DEF Heap!Tiled, end
<1>6. /\ \A p \in DOMAIN lent : p \in Heap!Blocks /\ heap.mem[p].free = 0
      /\ \A p \in DOMAIN lent \ wrapped : heap.mem[p].size >= lent[p]
  BY <1>2, <1>4 DEF InUse
<1> QED
  BY <1>5, <1>6 DEF HeldSafe, Heap!HeldSafe

(* What the callers of malloc, calloc, realloc and free hold (alloc.c) is   *)
(* always one block of the heap, in use, at least as large as was asked for  *)
(* unless calloc's product wrapped around, and the blocks tile the heap:     *)
(* whatever was split, merged, given back and moved, no two callers share    *)
(* memory, for as long as block_coalescing has let no listed block leave its *)
(* class.                                                                    *)
THEOREM HeldStaysSafe == Heap!Spec => []HeldSafe
<1>1. Heap!Init => CallsInv
  BY StartsSound DEF CallsInv
<1>2. CallsInv /\ [Heap!Next]_Heap!vars => CallsInv'
  BY CallsKeepOn
<1>3. CallsInv => HeldSafe
  <2>1. CASE outgrown
    BY <2>1 DEF HeldSafe, Heap!HeldSafe
  <2>2. CASE ~outgrown
    BY <2>2, SoundIsSafe DEF CallsInv
  <2> QED
    BY <2>1, <2>2
<1> QED
  BY <1>1, <1>2, <1>3, PTL DEF Heap!Spec

(***************************************************************************)
(* The lists.                                                              *)
(***************************************************************************)
OfClass(h, k) == {b \in Unused(h) : ClassOf(h)[b] = k}
Passed(s) == {s.seq[i] : i \in 1..Len(s.seq)}

(* What going along a list has passed is of its class, without a block      *)
(* twice, and goes on at the present block.                                *)
Walking(h, rank, k) ==
  {s \in [seq : Seq(OfClass(h, k)), cur : OfClass(h, k) \cup {Nothing}] :
     /\ IsFiniteSet(Passed(s)) /\ Cardinality(Passed(s)) = Len(s.seq)
     /\ h.head[k] \in Passed(s) \cup {s.cur}
     /\ \A b \in Passed(s) : NextOf(h)[b] \in Passed(s) \cup {s.cur}
     /\ s.cur # Nothing => \A b \in Passed(s) : rank[s.cur] < rank[b]}

LEMMA WalkingStarts ==
  ASSUME NEW h, NEW rank, Sound(h, rank), NEW k \in 0..Heap!Over
  PROVE  ListStart(h, k) \in Walking(h, rank, k)
<1> DEFINE y == h.head[k]
           s == ListStart(h, k)
<1>1. y # Nothing => y \in OfClass(h, k)
  BY DEF Sound, Chained, OfClass
<1>2. s = [seq |-> <<>>, cur |-> y]
  BY DEF ListStart
<1> HIDE DEF s
<1>3. s.seq = <<>> /\ s.cur = y /\ Passed(s) = {}
  BY <1>2 DEF Passed
<1>4. <<>> \in Seq(OfClass(h, k)) /\ Len(<<>>) = 0
  OBVIOUS
<1>5. IsFiniteSet({}) /\ Cardinality({}) = 0
  BY FS_EmptySet
<1> HIDE DEF y
<1>6. s \in [seq : Seq(OfClass(h, k)), cur : OfClass(h, k) \cup {Nothing}]
  BY <1>1, <1>2, <1>4
<1>7. s \in Walking(h, rank, k)
  BY <1>3, <1>4, <1>5, <1>6 DEF Walking, y
<1> QED
  BY <1>7 DEF s

LEMMA WalkingGoesOn ==
  ASSUME NEW h, NEW rank, Sound(h, rank), NEW k \in 0..Heap!Over,
         NEW s \in Walking(h, rank, k)
  PROVE  ListStep(h, s) \in Walking(h, rank, k)
<1> DEFINE L == OfClass(h, k)
           P == Passed(s)
           x == s.cur
           y == NextOf(h)[x]
           q == Append(s.seq, x)
           t == [seq |-> q, cur |-> y]
<1>1. /\ s.seq \in Seq(L) /\ x \in L \cup {Nothing}
      /\ IsFiniteSet(P) /\ Cardinality(P) = Len(s.seq)
      /\ h.head[k] \in P \cup {x}
      /\ \A b \in P : NextOf(h)[b] \in P \cup {x}
      /\ x # Nothing => \A b \in P : rank[x] < rank[b]
  BY DEF Walking
<1>2. L \subseteq DOMAIN h.mem /\ Nothing \notin DOMAIN h.mem /\ h \in Heaps
  BY HeapFields, HeapConstants DEF OfClass, Unused, Sound
<1>3. CASE x \notin DOMAIN h.mem
  BY <1>3 DEF ListStep
<1>4. CASE x \in DOMAIN h.mem
  <2>1. x \in L /\ x # Nothing
    BY <1>1, <1>2, <1>4
  <2>2. ListStep(h, s) = t
    BY <1>4 DEF ListStep, NextOf
  <2>3. y # Nothing => y \in L /\ rank[y] < rank[x]
    BY <2>1 DEF Sound, Chained, OfClass
  <2>4. \A b \in L : rank[b] \in Int
    BY <1>2, HeapFields DEF Sound
  <2>5. P \subseteq L
    BY <1>1 DEF Passed
  <2>6. x \notin P
    <3>1. ~(rank[x] < rank[x])
      BY <2>1, <2>4
    <3> QED
      BY <1>1, <2>1, <3>1
  <2> HIDE DEF L, x, y
  <2>7. q \in Seq(L) /\ Len(q) = Len(s.seq) + 1 /\ q[Len(s.seq) + 1] = x
        /\ \A i \in 1..Len(s.seq) : q[i] = s.seq[i]
    BY <1>1, <2>1
  <2>8. Len(s.seq) \in Nat
    BY <1>1
  <2> HIDE DEF q
  <2>9. t.seq = q /\ t.cur = y
    OBVIOUS
  <2>10. Passed(t) = P \cup {x}
    <3>1. 1..(Len(s.seq) + 1) = 1..Len(s.seq) \cup {Len(s.seq) + 1}
      BY <2>8
    <3>2. Passed(t) = {q[i] : i \in 1..(Len(s.seq) + 1)}
      BY <2>7, <2>9 DEF Passed
    <3>3. \A i \in 1..Len(s.seq) : q[i] = s.seq[i]
      BY <2>7
    <3>4. {q[i] : i \in 1..Len(s.seq)} = P
      BY <3>3 DEF Passed
    <3>5. q[Len(s.seq) + 1] = x
      BY <2>7
    <3> DEFINE l == Len(s.seq)
    <3> HIDE DEF t, l
    <3>6. {q[i] : i \in 1..l \cup {l + 1}} = {q[i] : i \in 1..l} \cup {q[l + 1]}
      OBVIOUS
    <3> HIDE DEF P
    <3> QED
      BY <3>1, <3>2, <3>4, <3>5, <3>6 DEF l
  <2> HIDE DEF P
  <2>11. IsFiniteSet(P \cup {x}) /\ Cardinality(P \cup {x}) = Len(q)
    <3>1. IsFiniteSet(P)
      BY <1>1
    <3>2. IsFiniteSet(P \cup {x}) /\ Cardinality(P \cup {x}) = Cardinality(P) + 1
      BY <2>6, <3>1, FS_AddElement
    <3>3. Cardinality(P) = Len(s.seq) /\ Len(q) = Len(s.seq) + 1
      BY <1>1, <2>7
    <3> QED
      BY <3>2, <3>3
  <2>12. \A b \in P \cup {x} : NextOf(h)[b] \in (P \cup {x}) \cup {y}
    BY <1>1 DEF y
  <2>13. y # Nothing => \A b \in P \cup {x} : rank[y] < rank[b]
    <3>1. \A b \in P : b \in L /\ rank[x] < rank[b]
      BY <1>1, <2>1, <2>5
    <3> QED
      BY <2>1, <2>3, <2>4, <3>1
  <2>14. t \in [seq : Seq(L), cur : L \cup {Nothing}]
    BY <2>3, <2>7
  <2>15. h.head[k] \in (P \cup {x}) \cup {y}
    BY <1>1
  <2> HIDE DEF t
  <2>16. t \in Walking(h, rank, k)
    BY <2>9, <2>10, <2>11, <2>12, <2>13, <2>14, <2>15 DEF Walking, L
  <2> QED
    BY <2>2, <2>16
<1> QED
  BY <1>3, <1>4

(* There are as many rounds as blocks: going along a list comes to its end. *)
LEMMA WalkEnds ==
  ASSUME NEW h, NEW rank, Sound(h, rank), NEW k \in 0..Heap!Over,
         NEW w, Walks(h, k, Walking(h, rank, k), w), NEW N, N = Cardinality(DOMAIN h.mem)
  PROVE  w[N] \in Walking(h, rank, k) /\ w[N].cur = Nothing /\ Heap!List(h, k) = w[N].seq
<1> DEFINE D == Walking(h, rank, k)
<1>1. /\ w \in [0..N -> D] /\ w[0] = ListStart(h, k)
      /\ \A i \in 1..N : w[i] = ListStep(h, w[i - 1])
      /\ Heap!List(h, k) = w[N].seq
  BY DEF Walks
<1>2. h \in Heaps
  BY DEF Sound
<1>3. N \in Nat /\ IsFiniteSet(DOMAIN h.mem)
  BY <1>2, RoundsOf
<1>4. \A s \in D : /\ s.cur \in OfClass(h, k) \cup {Nothing} /\ s.seq \in Seq(OfClass(h, k))
                   /\ IsFiniteSet(Passed(s)) /\ Cardinality(Passed(s)) = Len(s.seq)
                   /\ s.cur # Nothing => \A b \in Passed(s) : rank[s.cur] < rank[b]
  BY DEF Walking
<1>5. OfClass(h, k) \subseteq DOMAIN h.mem /\ Nothing \notin DOMAIN h.mem
  BY <1>2, HeapFields, HeapConstants DEF OfClass, Unused
<1> HIDE DEF D
<1> DEFINE C == {i \in 0..N : w[i].cur # Nothing /\ Len(w[i].seq) # i}
<1>6. C = {}
  <2> SUFFICES ASSUME C # {} PROVE FALSE
    OBVIOUS
  <2> DEFINE m == Min(C)
  <2>1. C \subseteq Nat
    BY <1>3
  <2>2. m \in C /\ \A i \in C : m <= i
    <3> HIDE DEF C
    <3> QED
      BY <2>1, MinOfSet
  <2> HIDE DEF m
  <2>3. m \in 0..N /\ w[m].cur # Nothing /\ Len(w[m].seq) # m
    BY <2>2
  <2>4. m # 0
    <3>1. w[0].seq = <<>>
      BY <1>1 DEF ListStart
    <3>2. Len(<<>>) = 0
      OBVIOUS
    <3> QED
      BY <2>3, <3>1, <3>2
  <2> DEFINE v == w[m - 1]
  <2>5. m - 1 \in 0..N /\ m \in 1..N /\ m \in Nat /\ m - 1 \notin C
    <3>1. m - 1 \in 0..N /\ m \in 1..N /\ m \in Nat
      BY <1>3, <2>3, <2>4
    <3> HIDE DEF C
    <3> QED
      BY <2>2, <3>1
  <2>6. w[m] = ListStep(h, v) /\ v \in D
    BY <1>1, <2>5
  <2>7. v.cur # Nothing => Len(v.seq) = m - 1
    BY <2>5
  <2> HIDE DEF v, C
  <2>8. v.cur \in DOMAIN h.mem
    BY <1>4, <1>5, <2>3, <2>6 DEF ListStep
  <2>9. w[m] = [seq |-> Append(v.seq, v.cur), cur |-> h.mem[v.cur].next]
    BY <2>6, <2>8 DEF ListStep
  <2>10. w[m].seq = Append(v.seq, v.cur)
    BY <2>9
  <2>11. v.cur \in OfClass(h, k) /\ v.seq \in Seq(OfClass(h, k)) /\ v.cur # Nothing
    BY <1>4, <1>5, <2>6, <2>8
  <2>12. Len(Append(v.seq, v.cur)) = Len(v.seq) + 1
    BY <2>11
  <2> QED
    BY <2>3, <2>5, <2>7, <2>10, <2>11, <2>12
<1> DEFINE s == w[N]
<1>7. s \in D /\ (s.cur # Nothing => Len(s.seq) = N)
  BY <1>1, <1>3, <1>6
<1> HIDE DEF s, C
<1>8. ASSUME s.cur # Nothing PROVE FALSE
  <2> DEFINE P == Passed(s)
             x == s.cur
  <2>1. /\ x \in OfClass(h, k) /\ IsFiniteSet(P) /\ Cardinality(P) = N
        /\ \A b \in P : rank[x] < rank[b]
    BY <1>4, <1>7, <1>8
  <2>2. P \subseteq OfClass(h, k)
    <3>1. s.seq \in Seq(OfClass(h, k))
      BY <1>4, <1>7
    <3> QED
      BY <3>1 DEF Passed
  <2>3. x \notin P
    <3>1. rank[x] \in Int
      BY <1>2, <1>5, <2>1, HeapFields DEF Sound
    <3> QED
      BY <2>1, <3>1
  <2> HIDE DEF P, x
  <2>4. Cardinality(P \cup {x}) = Cardinality(P) + 1
    BY <2>1, <2>3, FS_AddElement
  <2>5. P \cup {x} \subseteq DOMAIN h.mem
    BY <1>5, <2>1, <2>2
  <2>6. Cardinality(P \cup {x}) <= Cardinality(DOMAIN h.mem)
    BY <1>3, <2>5, FS_Subset
  <2>7. N + 1 <= N
    BY <2>1, <2>4, <2>6
  <2> QED
    BY <1>3, <2>7
<1> QED
  BY <1>1, <1>7, <1>8 DEF s, D

(* A list has the free blocks of its class, all of them. *)
LEMMA ListHasClass ==
  ASSUME NEW h, NEW rank, Sound(h, rank), NEW k \in 0..Heap!Over
  PROVE  Heap!ToSet(Heap!List(h, k)) = OfClass(h, k)
<1> DEFINE N == Cardinality(DOMAIN h.mem)
           L == OfClass(h, k)
<1>1. h \in Heaps
  BY DEF Sound
<1>2. PICK w : Walks(h, k, Walking(h, rank, k), w)
  BY <1>1, WalkingStarts, WalkingGoesOn, Walk
<1> DEFINE s == w[N]
           P == Passed(s)
<1>3. s \in Walking(h, rank, k) /\ s.cur = Nothing /\ Heap!List(h, k) = s.seq
  BY <1>2, WalkEnds
<1> HIDE DEF s, N
<1>4. /\ s.seq \in Seq(L)
      /\ h.head[k] \in P \cup {Nothing}
      /\ \A b \in P : NextOf(h)[b] \in P \cup {Nothing}
  BY <1>3 DEF Walking
<1>5. Heap!ToSet(Heap!List(h, k)) = P
  BY <1>3, <1>4 DEF Heap!ToSet, Passed
<1>6. P \subseteq L
  BY <1>4 DEF Passed
<1>7. L \subseteq DOMAIN h.mem /\ Nothing \notin DOMAIN h.mem /\ IsFiniteSet(L)
  <2>1. L \subseteq DOMAIN h.mem /\ Nothing \notin DOMAIN h.mem
    BY <1>1, HeapFields, HeapConstants DEF OfClass, Unused
  <2>2. IsFiniteSet(DOMAIN h.mem)
    BY <1>1, RoundsOf
  <2> HIDE DEF L
  <2> QED
    BY <2>1, <2>2, FS_Subset
<1> HIDE DEF P
<1>8. ASSUME L \ P # {} PROVE FALSE
  <2> DEFINE Rest == L \ P
  <2>1. \A b \in Rest : rank[b] \in Int
    BY <1>1, <1>7, HeapFields DEF Sound
  <2>2. IsFiniteSet(Rest)
    <3>1. Rest \subseteq L
      OBVIOUS
    <3> HIDE DEF L, Rest
    <3> QED
      BY <1>7, <3>1, FS_Subset
  <2>3. PICK x \in Rest : \A b \in Rest : rank[b] <= rank[x]
    <3> HIDE DEF L
    <3>1. Rest # {}
      BY <1>8
    <3> HIDE DEF Rest
    <3> QED
      BY <2>1, <2>2, <3>1, Greatest
  <2> DEFINE a == PrevOf(h)[x]
  <2>4. x \in Unused(h) /\ ClassOf(h)[x] = k /\ x # Nothing /\ x \notin P
    BY <1>7, <2>3 DEF OfClass
  <2>5. IF a = Nothing THEN h.head[k] = x ELSE a \in Unused(h) /\ NextOf(h)[a] = x
    BY <2>4 DEF Sound, Chained
  <2>6. CASE a = Nothing
    BY <1>4, <2>4, <2>5, <2>6
  <2>7. CASE a # Nothing
    <3>1. a \in Unused(h) /\ NextOf(h)[a] = x
      BY <2>5, <2>7
    <3>2. ClassOf(h)[x] = ClassOf(h)[a] /\ rank[x] < rank[a]
      <4> HIDE DEF a
      <4> QED
        BY <2>4, <3>1 DEF Sound, Chained
    <3>3. a \in L
      BY <2>4, <3>1, <3>2 DEF OfClass
    <3>4. a \in P
      <4>1. rank[a] \in Int /\ rank[x] \in Int
        BY <1>1, <1>7, <2>3, <3>3, HeapFields DEF Sound
      <4>2. ~(rank[a] <= rank[x])
        BY <3>2, <4>1
      <4> QED
        BY <2>3, <3>3, <4>2
    <3> QED
      BY <1>4, <2>4, <3>1, <3>4
  <2> QED
    BY <2>6, <2>7
<1> QED
  BY <1>5, <1>6, <1>8

LEMMA SoundListsSound ==
  ASSUME HeapInv
  PROVE  ListsSound
<1> DEFINE D == DOMAIN heap.mem
<1>1. PICK rank : Sound(heap, rank)
  BY DEF HeapInv
<1>2. /\ heap \in Heaps /\ DOMAIN lent = InUse(heap)
      /\ Chained(Unused(heap), ClassOf(heap), NextOf(heap), PrevOf(heap), heap.head, rank)
  BY <1>1 DEF Sound, HeapInv
<1>3. \A k \in 0..Heap!Over : Heap!ToSet(Heap!List(heap, k)) = OfClass(heap, k)
  BY <1>1, ListHasClass
<1>4. \A b \in D : ClassOf(heap)[b] = Heap!get_index(heap.mem[b].size)
                   /\ NextOf(heap)[b] = heap.mem[b].next /\ PrevOf(heap)[b] = heap.mem[b].prev
  BY DEF ClassOf, NextOf, PrevOf
<1>5. \A b \in Unused(heap) : b \in D /\ heap.mem[b].free = 1
  BY DEF Unused
<1>6. ASSUME NEW k \in 0..Heap!Over, heap.head[k] # Nothing
      PROVE  heap.head[k] \in Heap!Blocks /\ heap.mem[heap.head[k]].prev = Nothing
  BY <1>2, <1>4, <1>5, <1>6 DEF Chained, Heap!Blocks
<1>7. ASSUME NEW k \in 0..Heap!Over, NEW b \in Heap!ToSet(Heap!List(heap, k))
      PROVE  /\ heap.mem[b].free = 1 /\ Heap!Class(heap, b) = k
             /\ heap.mem[b].next # Nothing =>
                  heap.mem[b].next \in Heap!Blocks /\ heap.mem[heap.mem[b].next].prev = b
  <2>1. b \in Unused(heap) /\ ClassOf(heap)[b] = k
    BY <1>3 DEF OfClass
  <2> QED
    BY <1>2, <1>4, <1>5, <2>1 DEF Chained, Heap!Blocks, Heap!Class
<1>8. Heap!Blocks \ DOMAIN lent \subseteq Heap!Listed
  <2>1. ASSUME NEW b \in Unused(heap)
        PROVE  \E k \in 0..Heap!Over : b \in Heap!ToSet(Heap!List(heap, k))
    <3>1. heap.mem[b].size \in Nat
      BY <1>2, <1>5, HeapFields
    <3>2. ClassOf(heap)[b] \in 0..Heap!Over
      BY <1>4, <1>5, <3>1, Classes
    <3> QED
      BY <1>3, <3>2 DEF OfClass
  <2>2. D \ InUse(heap) \subseteq Unused(heap)
    BY <1>2, HeapFields
  <2> QED
    BY <1>2, <2>1, <2>2 DEF Heap!Blocks, Heap!Listed
<1> QED
  BY <1>6, <1>7, <1>8 DEF ListsSound, Heap!ListsSound

(* Every free list of alloc.c has all the free blocks of its size class and *)
(* no others, linked both ways, and no block is lost: one that no caller    *)
(* holds is on a list; for as long as block_coalescing has let no listed    *)
(* block leave its class.  The proof finds a rank that falls along the      *)
(* lists, so that none comes back to itself.                                *)
THEOREM ListsStaySound == Heap!Spec => []ListsSound
<1>1. Heap!Init => CallsInv
  BY StartsSound DEF CallsInv
<1>2. CallsInv /\ [Heap!Next]_Heap!vars => CallsInv'
  BY CallsKeepOn
<1>3. CallsInv => ListsSound
  <2>1. CASE outgrown
    BY <2>1 DEF ListsSound, Heap!ListsSound
  <2>2. CASE ~outgrown
    BY <2>2, SoundListsSound DEF CallsInv
  <2> QED
    BY <2>1, <2>2
<1> QED
  BY <1>1, <1>2, <1>3, PTL DEF Heap!Spec
=============================================================================
