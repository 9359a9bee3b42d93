------------------------------- MODULE Request -------------------------------
(***************************************************************************)
(* request.c, the part that decides what a request gets: which file a URI  *)
(* names, which status is sent, which value requestHandle returns to the   *)
(* worker, and which thread counters buf_stats prints.  Bytes on the wire  *)
(* are left out.  A request is                                             *)
(*   method  the first word of the request line                            *)
(*   dotdot  the URI contains ".."                                         *)
(*   cgi     the URI contains "cgi"                                        *)
(*   file    what stat() finds for ./public/<uri>                          *)
(* and a file is described by the bits of its stat record the code tests.  *)
(***************************************************************************)
EXTENDS Integers

(* enum request_result *)
ERR501  == -501
ERR404  == -404
ERR403  == -403
DYNAMIC == 0
STATIC  == 1

request_result == {ERR501, ERR404, ERR403, DYNAMIC, STATIC}

File == [exists : BOOLEAN, isreg : BOOLEAN, rusr : BOOLEAN, xusr : BOOLEAN,
         empty : BOOLEAN]

HttpRequest == [method : {"GET", "other"}, dotdot : BOOLEAN, cgi : BOOLEAN,
                file : File]

(* ./public/home.html, which the Makefile installs beside the server *)
HomeFile == [exists |-> TRUE, isreg |-> TRUE, rusr |-> TRUE, xusr |-> FALSE,
             empty |-> FALSE]

(* A URI with ".." is turned into the home page whatever else it holds.    *)
requestParseURI(req) ==
  [is_static |-> IF req.dotdot \/ ~req.cgi THEN 1 ELSE 0,
   file      |-> IF req.dotdot THEN HomeFile ELSE req.file]

(* S_ISREG and the owner's read bit (static) or execute bit (dynamic) *)
Usable(is_static, file) ==
  file.isreg /\ (IF is_static = 1 THEN file.rusr ELSE file.xusr)

(* buf_stats: the three thread counters of the response header.  The       *)
(* current request is added to the stamp; is_static is -1 in requestError. *)
buf_stats(stats, is_static) ==
  [requests_count         |-> stats.requests_count + 1,
   static_requests_count  |-> stats.static_requests_count
                                + (IF is_static = 1 THEN 1 ELSE 0),
   dynamic_requests_count |-> stats.dynamic_requests_count
                                + (IF is_static = 0 THEN 1 ELSE 0)]

(* What the worker is told (result), what the client is told (header), and *)
(* whether the file to map has no byte (sbuf.st_size = 0).                 *)
requestHandle(req, stats) ==
  LET uri    == requestParseURI(req)
      result == IF req.method # "GET" THEN ERR501
                ELSE IF ~uri.file.exists THEN ERR404
                ELSE IF ~Usable(uri.is_static, uri.file) THEN ERR403
                ELSE uri.is_static
  IN  [result |-> result,
       header |-> buf_stats(stats, IF result < 0 THEN -1 ELSE uri.is_static),
       empty  |-> uri.file.empty]
==============================================================================
