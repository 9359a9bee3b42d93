------------------------------ MODULE Exchange ------------------------------
(***************************************************************************)
(* One HTTP exchange from connect() to close(): client.c at one end, at    *)
(* the other a worker of the server in requestHandle (request.c), and the  *)
(* CGI program it may fork (output.c).  The two talk through a connection  *)
(* whose ends are Rio readers; short writes, short reads, failing calls,   *)
(* a client that is killed and a file that changes while it is served are  *)
(* all in.  Which thread runs requestHandle, and when, is Server's.        *)
(*                                                                         *)
(* A wrapper of segel.c whose call fails ends its process (unix_error).    *)
(* Texts are a few bytes: what matters of them is where lines end, which   *)
(* line is blank, and that the answer comes whole.                         *)
(***************************************************************************)
EXTENDS Rio, Request

CONSTANTS
  Asked,        \* the requests that are sent, as bytes
  Files,        \* what the URI may name, at first and later
  MaxChanges    \* bound: how often that changes

(* What stat() shows of a file (File), and what the server's process can   *)
(* do with it: whether open() and execve() of it succeed.  stat() does not *)
(* tell: the bits the code looks at are the owner's, and what makes a      *)
(* program is in the file.  A file that is not regular is a directory.     *)
ServedFile ==
  {f \in [exists : BOOLEAN, isreg : BOOLEAN, rusr : BOOLEAN, xusr : BOOLEAN,
          empty : BOOLEAN, readable : BOOLEAN, runs : BOOLEAN] :
     /\ f.readable => f.exists
     /\ f.runs => f.exists /\ f.isreg /\ ~f.empty}

NoFile == [exists |-> FALSE, isreg |-> FALSE, rusr |-> FALSE, xusr |-> FALSE,
           empty |-> FALSE, readable |-> FALSE, runs |-> FALSE]

(* The bytes told apart: G begins the method GET and P another one, h is a *)
(* header, and a letter each stands for what the answers consist of.  A    *)
(* first line that begins with its own end does not have its three words.  *)
CR    == "cr"
Bytes == {CR, LF, "G", "P", "h", "e", "m", "s", "f", "d", "p"}

ASSUME ExchangeAssumption ==
  /\ Readers = {"server", "client"} /\ MaxChanges \in Nat
  /\ Asked \subseteq Seq(Bytes)
  /\ Files \subseteq ServedFile

(* A blank line fits in a buffer, and a request ends with its only one.    *)
ASSUME RequestsAssumption ==
  /\ MAXLINE > 2
  /\ \A a \in Asked : \A i \in 1..(Len(a) - 1) :
       (/\ a[i] = CR /\ a[i + 1] = LF
        /\ i = 1 \/ a[i - 1] = LF) => i + 1 = Len(a)

VARIABLES
  spc, cpc, gpc,    \* where the worker, the client and the CGI process are
  out,              \* process -> what is left to write of its Rio_writen
  asked,            \* what the client sends
  file,             \* what the URI names now
  changes,          \* how often that has changed
  st_size,          \* sbuf.st_size: whether stat() saw a file with bytes
  srcfd,            \* the file that is open
  result,           \* what requestHandle will return
  exit,             \* the call whose failure ended the server, or "no"
  header, body      \* what clientPrint has printed

procVars == <<spc, cpc, gpc, out, asked>>
fileVars == <<file, changes, st_size, srcfd>>
endVars  == <<result, exit, header, body>>
vars == <<rioVars, procVars, fileVars, endVars>>

Blank == <<CR, LF>>

(* The answers: a status line and the like, a blank line, a body.  The     *)
(* server leaves the blank line of a dynamic answer to the program.        *)
ErrorText   == <<"e", LF>> \o Blank \o <<"m">>
StaticHead  == <<"s", LF>> \o Blank
StaticBody  == <<"f", "f">>
DynamicHead == <<"d", LF>>
ProgramText == Blank \o <<"p", LF>>

(* What an array on the stack may hold before it is written: nothing of    *)
(* interest, or what an earlier call of the same function left there.      *)
Garbage == {<<>>, <<"G", LF>>, Blank}

(* Whose stream a process writes to, and which one it would read from      *)
Peer(p) == IF p = "client" THEN "server" ELSE "client"
Own(p)  == IF p = "client" THEN "client" ELSE "server"

Init ==
  /\ RioInit
  /\ spc = "start" /\ cpc = "start" /\ gpc = "none"
  /\ out = [p \in {"server", "client", "program"} |-> <<>>]
  /\ asked \in Asked
  /\ file = NoFile /\ changes = 0 /\ st_size = 0 /\ srcfd = NoFile
  /\ result = ERR501 /\ exit = "no"
  /\ header = <<>> /\ body = <<>>

-----------------------------------------------------------------------------
(* segel.c                                                                 *)

(* The client's stream ends when the server's process and the child of it  *)
(* have both let go of the connection.  Bytes the server has not read turn *)
(* the end into a reset.                                                   *)
LetGo(held) ==
  IF held \/ ended["client"] # "no" THEN UNCHANGED rioVars
  ELSE EndStream("client", IF Unread("server") > 0 THEN "reset" ELSE "eof")

ChildHolds == gpc \notin {"none", "zombie"}

(* The server's process ends, all its threads and descriptors with it. *)
unix_error(msg) ==
  /\ exit' = msg /\ spc' = "dead"
  /\ LetGo(ChildHolds)

MutRio_writen(p) ==
  /\ out[p] # <<>>
  /\ \E k \in 1..Len(out[p]) : write(Peer(p), SubSeq(out[p], 1, k))
  /\ out' = [out EXCEPT ![p] = <<>>]

(* One turn of the loop of rio_writen: write() takes k bytes. *)
rio_writen(p) ==
  /\ out[p] # <<>>
  /\ \E k \in 1..Len(out[p]) :
       /\ write(Peer(p), SubSeq(out[p], 1, k))
       /\ out' = [out EXCEPT ![p] = SubSeq(@, k + 1, Len(@))]

(* write() to a connection the other side has closed may fail.  SIGPIPE or *)
(* the wrapper ends the process.                                           *)
WriteFails(p) == out[p] # <<>> /\ ended[Own(p)] # "no"

-----------------------------------------------------------------------------
(* The server                                                              *)

(* main() opens the listening socket; any of the four calls may fail. *)
Open_listenfd ==
  /\ spc = "start"
  /\ \/ spc' = "accept" /\ UNCHANGED <<rioVars, exit>>
     \/ unix_error("Open_listenfd")
  /\ UNCHANGED <<cpc, gpc, out, asked, fileVars, result, header, body>>

Connected == cpc \notin {"start", "refused"}

(* The connection has been accepted and dispatched: Rio_readinitb and the  *)
(* first Rio_readlineb of requestHandle.                                   *)
HandleBegins ==
  /\ spc = "accept" /\ Connected
  /\ \E buf \in Garbage : FirstLine("server", buf)
  /\ spc' = "line"
  /\ UNCHANGED <<cpc, gpc, out, asked, fileVars, endVars>>

ServerReads ==
  /\ spc \in {"line", "hdrs"}
  /\ rio_read("server")
  /\ UNCHANGED <<procVars, fileVars, endVars>>

ServerReadFails ==
  /\ spc \in {"line", "hdrs"}
  /\ ReadFails("server")
  /\ unix_error("Rio_readlineb")
  /\ UNCHANGED <<cpc, gpc, out, asked, fileVars, result, header, body>>

(* What sscanf() may leave in method: the first word of the line, if there *)
(* is one.  A line that is cut may end within the word, and without one    *)
(* the method is what the stack held.                                      *)
Method(buf) ==
  CASE Len(buf) > 0 /\ buf[1] = "G" /\ buf[Len(buf)] = LF -> {"GET"}
    [] Len(buf) > 0 /\ buf[1] = "P"                       -> {"other"}
    [] OTHER                                              -> {"GET", "other"}

(* requestError: everything it writes *)
requestError(errnum) ==
  /\ result' = errnum
  /\ spc' = "error"
  /\ out' = [out EXCEPT !["server"] = ErrorText]

(* The request line is there: 501, or the headers. *)
RequestLine ==
  /\ spc = "line" /\ ~InCall("server")
  /\ \/ /\ "GET" \in Method(usrbuf["server"])
        /\ spc' = "hdrs"
        /\ \E buf \in Garbage : NextLine("server", buf)
        /\ UNCHANGED <<out, result>>
     \/ /\ "other" \in Method(usrbuf["server"])
        /\ requestError(ERR501) /\ UNCHANGED rioVars
  /\ UNCHANGED <<cpc, gpc, asked, fileVars, exit, header, body>>

MutrequestReadhdrs ==
  /\ spc = "hdrs" /\ ~InCall("server")
  /\ spc' = "stat"
  /\ UNCHANGED <<rioVars, cpc, gpc, out, asked, fileVars, endVars>>

(* requestReadhdrs compares the buffer and does not look at what           *)
(* Rio_readlineb returned.                                                 *)
requestReadhdrs ==
  /\ spc = "hdrs" /\ ~InCall("server")
  /\ IF usrbuf["server"] = Blank
     THEN spc' = "stat" /\ UNCHANGED rioVars
     ELSE NextLine("server", usrbuf["server"]) /\ UNCHANGED spc
  /\ UNCHANGED <<cpc, gpc, out, asked, fileVars, endVars>>

(* requestHandle from stat() on: what it decides when stat() finds f, and  *)
(* the URI has "cgi" or not                                                *)
MutDecision(f, cgi) ==
  IF ~f.exists THEN ERR404 ELSE IF cgi THEN DYNAMIC ELSE STATIC

Decision(f, cgi) ==
  requestHandle([method |-> "GET", dotdot |-> FALSE, cgi |-> cgi, file |-> f],
                [requests_count |-> 0, static_requests_count |-> 0,
                 dynamic_requests_count |-> 0]).result

(* The URI, and what it names, is chosen here, where it is first looked    *)
(* at: it is the client's, or, of a line without three words, whatever the *)
(* stack held.                                                             *)
Stat ==
  /\ spc = "stat"
  /\ file' \in Files
  /\ st_size' = IF file'.empty THEN 0 ELSE 1
  /\ \E cgi \in BOOLEAN :
       \/ Decision(file', cgi) < 0 /\ requestError(Decision(file', cgi))
       \/ /\ Decision(file', cgi) = STATIC /\ result' = STATIC /\ spc' = "open"
          /\ UNCHANGED out
       \/ /\ Decision(file', cgi) = DYNAMIC /\ result' = DYNAMIC /\ spc' = "dynamic"
          /\ out' = [out EXCEPT !["server"] = DynamicHead]
  /\ UNCHANGED <<rioVars, cpc, gpc, asked, changes, srcfd, exit, header, body>>

(* requestServeStatic: Open, *)
OpenFile ==
  /\ spc = "open"
  /\ IF file.readable
     THEN spc' = "mmap" /\ srcfd' = file /\ UNCHANGED <<rioVars, exit>>
     ELSE unix_error("Open") /\ UNCHANGED srcfd
  /\ UNCHANGED <<cpc, gpc, out, asked, file, changes, st_size, result, header, body>>

(* ... Mmap of as many bytes as stat() saw, Close, and the header.  There  *)
(* is no mapping of length 0, and none of a directory, which can be opened *)
(* for reading.                                                            *)
MapFile ==
  /\ spc = "mmap"
  /\ IF st_size > 0 /\ srcfd.isreg
     THEN /\ spc' = "static" /\ UNCHANGED <<rioVars, exit>>
          /\ out' = [out EXCEPT !["server"] = StaticHead] /\ srcfd' = NoFile
     ELSE unix_error("Mmap") /\ UNCHANGED <<out, srcfd>>
  /\ UNCHANGED <<cpc, gpc, asked, file, changes, st_size, result, header, body>>

requestServeStatic ==
  /\ spc = "static" /\ out["server"] = <<>>
  /\ spc' = "body"
  /\ out' = [out EXCEPT !["server"] = StaticBody]
  /\ UNCHANGED <<rioVars, cpc, gpc, asked, fileVars, endVars>>

(* A mapped page behind the end of a file that has shrunk cannot be sent.  *)
(* (A file that was replaced, not cut, is still there behind its map.)     *)
Unmapped == spc = "body" /\ file.exists /\ file.empty

ServerWrites ==
  /\ rio_writen("server")
  /\ UNCHANGED <<spc, cpc, gpc, asked, fileVars, endVars>>

ServerWriteFails ==
  /\ out["server"] # <<>>
  /\ WriteFails("server") \/ Unmapped
  /\ unix_error("Rio_writen")
  /\ out' = [out EXCEPT !["server"] = <<>>]
  /\ UNCHANGED <<cpc, gpc, asked, fileVars, result, header, body>>

(* requestServeDynamic, the header written: Fork *)
Fork ==
  /\ spc = "dynamic" /\ out["server"] = <<>>
  /\ \/ spc' = "wait" /\ gpc' = "forked" /\ UNCHANGED <<rioVars, exit>>
     \/ unix_error("Fork") /\ UNCHANGED gpc
  /\ UNCHANGED <<cpc, out, asked, fileVars, result, header, body>>

WaitPid ==
  /\ spc = "wait" /\ gpc = "zombie"
  /\ spc' = "close" /\ gpc' = "none"
  /\ UNCHANGED <<rioVars, cpc, out, asked, fileVars, endVars>>

Answered ==
  /\ spc \in {"error", "body"} /\ out["server"] = <<>>
  /\ spc' = "close"
  /\ UNCHANGED <<rioVars, cpc, gpc, out, asked, fileVars, endVars>>

MutClose ==
  /\ spc = "close"
  /\ spc' = "done"
  /\ UNCHANGED <<rioVars, cpc, gpc, out, asked, fileVars, endVars>>

(* The worker's Close(connfd) *)
Close ==
  /\ spc = "close"
  /\ LetGo(ChildHolds)
  /\ spc' = "done"
  /\ UNCHANGED <<cpc, gpc, out, asked, fileVars, endVars>>

-----------------------------------------------------------------------------
(* The child: standard output is the connection.  When execve() fails the  *)
(* child ends, as if nothing had happened.                                 *)

Execve ==
  /\ gpc = "forked"
  /\ \/ /\ file.runs
        /\ gpc' = "program" /\ out' = [out EXCEPT !["program"] = ProgramText]
        /\ UNCHANGED rioVars
     \/ /\ ~file.runs
        /\ gpc' = "zombie" /\ UNCHANGED out
        /\ LetGo(spc \notin {"done", "dead"})
  /\ UNCHANGED <<spc, cpc, asked, fileVars, endVars>>

ProgramWrites ==
  /\ rio_writen("program")
  /\ UNCHANGED <<spc, cpc, gpc, asked, fileVars, endVars>>

(* exit(0) of output.c, or SIGPIPE *)
ProgramEnds ==
  /\ gpc = "program"
  /\ out["program"] = <<>> \/ ended["server"] # "no"
  /\ gpc' = "zombie" /\ out' = [out EXCEPT !["program"] = <<>>]
  /\ LetGo(spc \notin {"done", "dead"})
  /\ UNCHANGED <<spc, cpc, asked, fileVars, endVars>>

-----------------------------------------------------------------------------
(* The client                                                              *)

(* Open_clientfd: no socket, no such host, or nobody listens *)
Open_clientfd ==
  /\ cpc = "start"
  /\ \/ cpc' = "refused" /\ UNCHANGED out
     \/ /\ spc = "accept"
        /\ cpc' = "send" /\ out' = [out EXCEPT !["client"] = asked]
  /\ UNCHANGED <<rioVars, spc, gpc, asked, fileVars, endVars>>

ClientWrites ==
  /\ cpc = "send" /\ ended["client"] = "no"
  /\ rio_writen("client")
  /\ UNCHANGED <<spc, cpc, gpc, asked, fileVars, endVars>>

(* The server has closed already: what is written now is answered by a     *)
(* reset.                                                                  *)
ClientWritesLate ==
  /\ cpc = "send" /\ WriteFails("client")
  /\ EndStream("client", "reset")
  /\ out' = [out EXCEPT !["client"] = <<>>]
  /\ UNCHANGED <<spc, cpc, gpc, asked, fileVars, endVars>>

(* clientSend is done; clientPrint makes its reader. *)
clientSend ==
  /\ cpc = "send" /\ out["client"] = <<>>
  /\ \E buf \in Garbage : FirstLine("client", buf)
  /\ cpc' = "header"
  /\ UNCHANGED <<spc, gpc, out, asked, fileVars, endVars>>

ClientReads ==
  /\ cpc \in {"header", "body"}
  /\ rio_read("client")
  /\ UNCHANGED <<procVars, fileVars, endVars>>

(* clientPrint: lines up to a blank one or the end are printed as header, *)
PrintHeader ==
  /\ cpc = "header" /\ ~InCall("client")
  /\ IF usrbuf["client"] # Blank /\ rc["client"] > 0
     THEN header' = header \o usrbuf["client"] /\ UNCHANGED cpc
     ELSE cpc' = "body" /\ UNCHANGED header
  /\ NextLine("client", usrbuf["client"])
  /\ UNCHANGED <<spc, gpc, out, asked, fileVars, result, exit, body>>

(* ... the rest as body. *)
PrintBody ==
  /\ cpc = "body" /\ ~InCall("client") /\ rc["client"] > 0
  /\ body' = body \o usrbuf["client"]
  /\ NextLine("client", usrbuf["client"])
  /\ UNCHANGED <<procVars, fileVars, result, exit, header>>

(* The client's process ends, and its end of the connection is closed. *)
ClientLeaves(how, end) ==
  /\ cpc' = how
  /\ out' = [out EXCEPT !["client"] = <<>>]
  /\ EndStream("server", IF Unread("client") > 0 THEN "reset" ELSE end)
  /\ UNCHANGED <<spc, gpc, asked, fileVars, endVars>>

ClientDone ==
  /\ cpc = "body" /\ ~InCall("client") /\ rc["client"] = 0
  /\ ClientLeaves("done", "eof")

ClientFails ==
  /\ \/ cpc = "send" /\ WriteFails("client")
     \/ cpc \in {"header", "body"} /\ ReadFails("client")
  /\ ClientLeaves("failed", "eof")

-----------------------------------------------------------------------------
(* The world: the client is interrupted, or its host goes down; somebody   *)
(* edits, replaces or removes the file.                                    *)

ClientKilled ==
  /\ cpc \in {"send", "header", "body"}
  /\ \E end \in {"eof", "reset"} : ClientLeaves("killed", end)

(* A change is of interest from stat() to the last use of the file.        *)
FileChanges ==
  /\ changes < MaxChanges
  /\ spc \in {"open", "mmap", "static", "body"} \/ (spc \in {"dynamic", "wait"} /\ gpc \in {"none", "forked"})
  /\ file' \in Files \ {file} /\ changes' = changes + 1
  /\ UNCHANGED <<rioVars, procVars, st_size, srcfd, endVars>>

-----------------------------------------------------------------------------
Server ==
  \/ Open_listenfd \/ HandleBegins \/ ServerReads \/ ServerReadFails
  \/ RequestLine \/ requestReadhdrs \/ Stat \/ OpenFile \/ MapFile \/ requestServeStatic
  \/ ServerWrites \/ ServerWriteFails \/ Fork \/ WaitPid \/ Answered \/ Close

Program == Execve \/ ProgramWrites \/ ProgramEnds

Client ==
  \/ Open_clientfd \/ ClientWrites \/ ClientWritesLate \/ clientSend \/ ClientReads
  \/ PrintHeader \/ PrintBody \/ ClientDone \/ ClientFails

ClientGone == cpc \in {"refused", "done", "failed", "killed"}

Finished ==
  /\ ClientGone /\ gpc \in {"none", "zombie"}
  /\ spc \in {"done", "dead"} \/ (spc = "accept" /\ cpc = "refused")
  /\ UNCHANGED vars

Next == Server \/ Program \/ Client \/ ClientKilled \/ FileChanges \/ Finished

Spec == Init /\ [][Next]_vars

(* A runnable process runs.  Nobody has to kill the client or to change    *)
(* the file, and a read() cannot be interrupted for ever: a second         *)
(* interruption changes nothing.                                           *)
FairSpec == Spec /\ WF_vars(Server) /\ WF_vars(Program) /\ WF_vars(Client)

-----------------------------------------------------------------------------
(* Properties                                                              *)

(* The lines of the request all fit in the callers' buffers. *)
LinesFit ==
  \A i, j \in 1..Len(asked) :
    (i <= j /\ \A k \in i..j : asked[k] # LF) => j - i + 2 < MAXLINE

(* requestReadhdrs stops at the blank line that ends the request and not   *)
(* at something that looks like it: when the file is looked up, all that   *)
(* was asked has been read.  Two things can make it stop early: a client   *)
(* that left before the end, so that an old buffer is compared, and a line *)
(* too long for the buffer, whose tail may look blank.                     *)
WholeRequestRead ==
  spc = "stat" /\ LinesFit /\ cpc # "killed" => got["server"] = asked

(* The answer requestHandle decided on *)
Answer ==
  CASE result < 0       -> ErrorText
    [] result = STATIC  -> StaticHead \o StaticBody
    [] result = DYNAMIC -> DynamicHead \o ProgramText

(* The program could not be started. *)
NotRun == result = DYNAMIC /\ ~file.runs

(* A client that reads to the end of the stream, from a server that lives, *)
(* has printed the whole answer, header and body, in spite of short writes *)
(* and reads at both ends and of two processes writing to the connection   *)
(* one after the other.  One answer is cut, and always at the same place:  *)
(* that of a program that execve() refuses consists of what the server     *)
(* wrote before it forked.  (The bytes of a page that is rewritten while   *)
(* it is served are not said to be of one version.)                        *)
AnswerComplete ==
  cpc = "done" /\ exit = "no" /\ (result = STATIC => changes = 0) =>
    IF NotRun THEN header = DynamicHead /\ body = <<>>
    ELSE header \o Blank \o body = Answer

(* One request ends the whole server, with every connection it serves,     *)
(* only if the client is gone before its answer is written, the file has   *)
(* no bytes, is one that its owner may read and the server may not, or has *)
(* changed between stat() and its use (and, at Mmap, into a directory), or *)
(* the system refuses a process (or, before the first request, the port).  *)
(* Nothing that a program does, or that makes it fail to start, is among   *)
(* these.                                                                  *)
ServerOutlivesRequest ==
  exit # "no" =>
    \/ exit \in {"Open_listenfd", "Fork"}
    \/ exit \in {"Rio_readlineb", "Rio_writen"} /\ cpc = "killed"
    \/ exit = "Open" /\ ~file.readable /\ (file.rusr \/ changes > 0)
    \/ exit = "Mmap" /\ (st_size = 0 \/ (~srcfd.isreg /\ changes > 0))
    \/ exit = "Rio_writen" /\ result = STATIC /\ changes > 0

(* The client left before all of its request was written: requestReadhdrs  *)
(* then waits for a blank line that never comes.                           *)
HungUp == spc = "hdrs" /\ cpc = "killed" /\ sent["server"] # asked

(* Every client that gets a connection comes to an end, and so does the    *)
(* worker that serves it, but for the hang-up above.                       *)
ExchangeEnds ==
  /\ (cpc = "send") ~> ClientGone
  /\ (spc = "line") ~> (spc \in {"done", "dead"} \/ HungUp)
=============================================================================
