-------------------------------- MODULE Rio ---------------------------------
(***************************************************************************)
(* The Rio package of segel.c as the server and its client use it: one     *)
(* buffered reader per end of a connection (rio_t), which rio_readlineb    *)
(* asks for one byte at a time while read() returns as few bytes as it     *)
(* likes, is interrupted, meets the end of the stream or fails.            *)
(*                                                                         *)
(* The bytes of a stream are never removed from sent; taken is how far     *)
(* read() has come.  rio_readn and rio_readnb have no caller.              *)
(***************************************************************************)
EXTENDS Integers, Sequences

CONSTANTS
  Readers,       \* the ends that read
  RIO_BUFSIZE,   \* sizeof(rio_buf)
  MAXLINE        \* the length of the callers' buffers

ASSUME RioAssumption == RIO_BUFSIZE \in Nat \ {0} /\ MAXLINE \in Nat /\ MAXLINE > 1

VARIABLES
  sent,          \* reader -> the bytes written to its stream
  ended,         \* reader -> what follows them: "no" (more may come), "eof", "reset"
  taken,         \* reader -> how many of them read() has returned
  rio_cnt, rio_bufptr, rio_buf,   \* reader -> the fields of its rio_t
  n,             \* reader -> the loop variable of rio_readlineb, 0 outside
  usrbuf,        \* reader -> the string in the caller's buffer
  rc,            \* reader -> what the last call returned
  got            \* reader -> all that was stored for the callers (not in the code)

rio_t   == <<rio_cnt, rio_bufptr, rio_buf>>
rioVars == <<sent, ended, taken, rio_t, n, usrbuf, rc, got>>

LF == "lf"

InCall(r) == n[r] # 0

(* read() is called when the buffer holds nothing. *)
Reading(r) == InCall(r) /\ rio_cnt[r] <= 0

Unread(r) == Len(sent[r]) - taken[r]

RioInit ==
  /\ sent = [r \in Readers |-> <<>>] /\ ended = [r \in Readers |-> "no"]
  /\ taken = [r \in Readers |-> 0]
  /\ rio_cnt = [r \in Readers |-> 0] /\ rio_bufptr = [r \in Readers |-> 0]
  /\ rio_buf = [r \in Readers |-> [i \in 0..(RIO_BUFSIZE - 1) |-> LF]]
  /\ n = [r \in Readers |-> 0] /\ usrbuf = [r \in Readers |-> <<>>]
  /\ rc = [r \in Readers |-> 0] /\ got = [r \in Readers |-> <<>>]

-----------------------------------------------------------------------------
(* The stream: one write() of some bytes, and its end                      *)

write(r, bytes) ==
  /\ sent' = [sent EXCEPT ![r] = @ \o bytes]
  /\ UNCHANGED <<ended, taken, rio_t, n, usrbuf, rc, got>>

EndStream(r, how) ==
  /\ ended' = [ended EXCEPT ![r] = how]
  /\ UNCHANGED <<sent, taken, rio_t, n, usrbuf, rc, got>>

-----------------------------------------------------------------------------
(* Calls                                                                   *)

rio_readinitb(r) ==
  /\ rio_cnt' = [rio_cnt EXCEPT ![r] = 0]
  /\ rio_bufptr' = [rio_bufptr EXCEPT ![r] = 0]
  /\ rio_buf' = rio_buf

(* rio_readlineb(rp, buffer, MAXLINE) begins; buffer is what the caller's  *)
(* array holds, and still holds if no byte comes.                          *)
rio_readlineb(r, buffer) ==
  /\ n' = [n EXCEPT ![r] = 1]
  /\ usrbuf' = [usrbuf EXCEPT ![r] = buffer]
  /\ UNCHANGED <<sent, ended, taken, rc, got>>

(* The first line of a new reader; the next line *)
FirstLine(r, buffer) == rio_readinitb(r) /\ rio_readlineb(r, buffer)
NextLine(r, buffer)  == UNCHANGED rio_t /\ rio_readlineb(r, buffer)

-----------------------------------------------------------------------------
(* rio_read                                                                *)

MutRefill(r, k) ==
  /\ Reading(r)
  /\ k \in 1..RIO_BUFSIZE /\ k <= Unread(r)
  /\ rio_buf' = [rio_buf EXCEPT ![r] =
       [i \in 0..(RIO_BUFSIZE - 1) |-> IF i < k THEN sent[r][taken[r] + i + 1] ELSE @[i]]]
  /\ rio_bufptr' = [rio_bufptr EXCEPT ![r] = @ % RIO_BUFSIZE]
  /\ rio_cnt' = [rio_cnt EXCEPT ![r] = k]
  /\ taken' = [taken EXCEPT ![r] = @ + k]
  /\ UNCHANGED <<sent, ended, n, usrbuf, rc, got>>

(* read() returns k bytes, and the pointer goes back to the start. *)
Refill(r, k) ==
  /\ Reading(r)
  /\ k \in 1..RIO_BUFSIZE /\ k <= Unread(r)
  /\ rio_buf' = [rio_buf EXCEPT ![r] =
       [i \in 0..(RIO_BUFSIZE - 1) |-> IF i < k THEN sent[r][taken[r] + i + 1] ELSE @[i]]]
  /\ rio_bufptr' = [rio_bufptr EXCEPT ![r] = 0]
  /\ rio_cnt' = [rio_cnt EXCEPT ![r] = k]
  /\ taken' = [taken EXCEPT ![r] = @ + k]
  /\ UNCHANGED <<sent, ended, n, usrbuf, rc, got>>

(* EINTR: rio_cnt is -1 until the next turn of the loop. *)
Interrupted(r) ==
  /\ Reading(r)
  /\ rio_cnt' = [rio_cnt EXCEPT ![r] = -1]
  /\ UNCHANGED <<sent, ended, taken, rio_bufptr, rio_buf, n, usrbuf, rc, got>>

(* End of file.  With no byte read the caller's buffer is left as it was;  *)
(* with some the call returns one more than it stored.                     *)
EndOfFile(r) ==
  /\ Reading(r)
  /\ Unread(r) = 0 /\ ended[r] = "eof"
  /\ rio_cnt' = [rio_cnt EXCEPT ![r] = 0]
  /\ rc' = [rc EXCEPT ![r] = IF n[r] = 1 THEN 0 ELSE n[r]]
  /\ n' = [n EXCEPT ![r] = 0]
  /\ UNCHANGED <<sent, ended, taken, rio_bufptr, rio_buf, usrbuf, got>>

(* read() fails: the call returns -1, and its wrapper ends the process. *)
ReadFails(r) == Reading(r) /\ Unread(r) = 0 /\ ended[r] = "reset"

(* One byte goes from the buffer to the caller.  A line feed ends the      *)
(* call, and so does a full buffer.                                        *)
TakeByte(r) ==
  LET c    == rio_buf[r][rio_bufptr[r]]
      last == c = LF \/ n[r] + 1 = MAXLINE
  IN  /\ InCall(r) /\ rio_cnt[r] > 0
      /\ usrbuf' = [usrbuf EXCEPT ![r] = IF n[r] = 1 THEN <<c>> ELSE Append(@, c)]
      /\ got' = [got EXCEPT ![r] = Append(@, c)]
      /\ rio_bufptr' = [rio_bufptr EXCEPT ![r] = @ + 1]
      /\ rio_cnt' = [rio_cnt EXCEPT ![r] = @ - 1]
      /\ n' = [n EXCEPT ![r] = IF last THEN 0 ELSE @ + 1]
      /\ rc' = IF last THEN [rc EXCEPT ![r] = IF c = LF THEN n[r] ELSE n[r] + 1] ELSE rc
      /\ UNCHANGED <<sent, ended, taken, rio_buf>>

rio_read(r) ==
  (\E k \in 1..RIO_BUFSIZE : Refill(r, k)) \/ Interrupted(r) \/ EndOfFile(r) \/ TakeByte(r)

-----------------------------------------------------------------------------
(* Properties                                                              *)

(* What the callers got is the beginning of what was sent, and what        *)
(* follows it is in the buffer, at the pointer.                            *)
InOrder(r) ==
  LET held == IF rio_cnt[r] > 0 THEN rio_cnt[r] ELSE 0
  IN  /\ Len(got[r]) + held = taken[r] /\ taken[r] <= Len(sent[r])
      /\ \A i \in 1..Len(got[r]) : got[r][i] = sent[r][i]
      /\ \A i \in 1..held : rio_buf[r][rio_bufptr[r] + i - 1] = sent[r][Len(got[r]) + i]

(* Nothing is lost, repeated or reordered between the peer's writes and    *)
(* the lines the callers of rio_readlineb get, however read() cuts the     *)
(* stream.                                                                 *)
StreamInOrder == \A r \in Readers : InOrder(r)
=============================================================================
