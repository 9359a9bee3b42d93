--------------------------- MODULE ExchangeProofs ---------------------------
(***************************************************************************)
(* Proofs about one exchange, for every request, buffer size and file.     *)
(* First that nothing is lost between write() and the lines of             *)
(* rio_readlineb: what one step does to a reader, whoever uses it, and     *)
(* that every step of an exchange is such a step.  Then, on top of that,   *)
(* why the server ends if it does, that it reads the whole request, and    *)
(* that the client prints the whole answer.                                *)
(***************************************************************************)
EXTENDS Exchange, SequenceTheorems, TLAPS

StreamTypes ==
  /\ sent \in [Readers -> Seq(Bytes)]
  /\ taken \in [Readers -> Nat]
  /\ rio_cnt \in [Readers -> Int] /\ rio_bufptr \in [Readers -> Nat]
  /\ rio_buf \in [Readers -> [0..(RIO_BUFSIZE - 1) -> Bytes]]
  /\ got \in [Readers -> Seq(Bytes)]

(* What the buffer holds lies in it. *)
InBuffer == \A r \in Readers : rio_cnt[r] > 0 => rio_bufptr[r] + rio_cnt[r] <= RIO_BUFSIZE

RioInv == StreamTypes /\ InBuffer /\ StreamInOrder

Processes == {"server", "client", "program"}

(* A reader that has not been made has read nothing. *)
Fresh ==
  /\ spc \in {"start", "accept"} => taken["server"] = 0
  /\ cpc \in {"start", "send"} => taken["client"] = 0

IInv ==
  /\ RioInv /\ Fresh
  /\ out \in [Processes -> Seq(Bytes)]
  /\ asked \in Asked

(* What a step of an exchange can do to the two readers *)
RioStep ==
  \/ UNCHANGED rioVars
  \/ \E r \in Readers, bytes \in Seq(Bytes) : write(r, bytes)
  \/ \E r \in Readers, how \in {"eof", "reset"} : EndStream(r, how)
  \/ \E r \in Readers, buf \in Garbage : taken[r] = 0 /\ FirstLine(r, buf)
  \/ \E r \in Readers : NextLine(r, usrbuf[r])
  \/ \E r \in Readers, buf \in Garbage : NextLine(r, buf)
  \/ \E r \in Readers : rio_read(r)

-----------------------------------------------------------------------------
(* One step of a reader                                                    *)

(* A reader nothing happens to stays in order. *)
LEMMA Elsewhere ==
  ASSUME NEW q, InOrder(q), sent'[q] = sent[q], taken'[q] = taken[q], got'[q] = got[q],
         rio_cnt'[q] = rio_cnt[q], rio_bufptr'[q] = rio_bufptr[q], rio_buf'[q] = rio_buf[q]
  PROVE  InOrder(q)'
PROOF
  BY DEF InOrder

(* write() adds to the end of a stream: what was read of it is still its   *)
(* beginning.                                                              *)
LEMMA WriteKeeps ==
  ASSUME RioInv, NEW r \in Readers, NEW bytes \in Seq(Bytes), write(r, bytes)
  PROVE  RioInv'
PROOF
<1>1. /\ sent[r] \o bytes \in Seq(Bytes)
      /\ Len(sent[r] \o bytes) >= Len(sent[r])
      /\ \A i \in 1..Len(sent[r]) : (sent[r] \o bytes)[i] = sent[r][i]
  BY DEF RioInv, StreamTypes
<1>2. StreamTypes'
  BY <1>1 DEF RioInv, StreamTypes, write, rio_t
<1>3. InBuffer'
  BY DEF RioInv, InBuffer, write, rio_t
<1>4. ASSUME NEW q \in Readers
      PROVE  /\ Len(sent'[q]) >= Len(sent[q])
             /\ \A i \in 1..Len(sent[q]) : sent'[q][i] = sent[q][i]
  BY <1>1 DEF RioInv, StreamTypes, write
<1>5. UNCHANGED <<taken, rio_cnt, rio_bufptr, rio_buf, got>>
  BY DEF write, rio_t
<1>6. StreamInOrder'
  <2> SUFFICES ASSUME NEW q \in Readers PROVE InOrder(q)'
    BY DEF StreamInOrder
  <2> DEFINE held == IF rio_cnt[q] > 0 THEN rio_cnt[q] ELSE 0
             l == Len(got[q])
             m == Len(sent[q])
  <2>1. l \in Nat /\ held \in Nat /\ m \in Nat /\ Len(sent'[q]) \in Nat /\ taken[q] \in Nat
    <3>1. /\ sent[q] \in Seq(Bytes) /\ sent'[q] \in Seq(Bytes) /\ got[q] \in Seq(Bytes)
          /\ rio_cnt[q] \in Int /\ taken[q] \in Nat
      BY <1>2 DEF RioInv, StreamTypes
    <3> QED BY <3>1
  <2>2. /\ l + held = taken[q] /\ taken[q] <= m
        /\ \A i \in 1..l : got[q][i] = sent[q][i]
        /\ \A i \in 1..held : rio_buf[q][rio_bufptr[q] + i - 1] = sent[q][l + i]
    BY DEF RioInv, StreamInOrder, InOrder
  <2>3. m <= Len(sent'[q]) /\ \A i \in 1..m : sent'[q][i] = sent[q][i]
    BY <1>4
  <2> HIDE DEF held, l, m
  <2>4. l + held = taken[q] /\ taken[q] <= Len(sent'[q])
    BY <2>1, <2>2, <2>3
  <2>5. \A i \in 1..l : got[q][i] = sent'[q][i]
    BY <2>1, <2>2, <2>3
  <2>6. \A i \in 1..held : rio_buf[q][rio_bufptr[q] + i - 1] = sent'[q][l + i]
    <3>1. \A i \in 1..held : l + i \in 1..m
      BY <2>1, <2>2
    <3> QED BY <3>1, <2>2, <2>3
  <2>7. LET h == IF rio_cnt'[q] > 0 THEN rio_cnt'[q] ELSE 0
        IN  /\ Len(got'[q]) + h = taken'[q] /\ taken'[q] <= Len(sent'[q])
            /\ \A i \in 1..Len(got'[q]) : got'[q][i] = sent'[q][i]
            /\ \A i \in 1..h : rio_buf'[q][rio_bufptr'[q] + i - 1] = sent'[q][Len(got'[q]) + i]
    BY <2>4, <2>5, <2>6, <1>5 DEF held, l
  <2> QED BY <2>7 DEF InOrder
<1> QED BY <1>2, <1>3, <1>6 DEF RioInv

(* A stream that ends keeps its bytes. *)
LEMMA EndKeeps ==
  ASSUME RioInv, NEW r \in Readers, NEW how, EndStream(r, how)
  PROVE  RioInv'
PROOF
  BY DEF RioInv, StreamTypes, InBuffer, StreamInOrder, InOrder, EndStream, rio_t

(* A reader may be made as long as nothing was read. *)
LEMMA FirstKeeps ==
  ASSUME RioAssumption, RioInv, NEW r \in Readers, NEW buf, taken[r] = 0, FirstLine(r, buf)
  PROVE  RioInv'
PROOF
<1> USE DEF FirstLine, rio_readinitb, rio_readlineb
<1>1. StreamTypes'
  BY DEF RioInv, StreamTypes
<1>2. InBuffer'
  BY <1>1 DEF RioInv, InBuffer, StreamTypes
<1>3. rio_cnt'[r] = 0 /\ got[r] = <<>> /\ \A q \in Readers \ {r} : rio_cnt'[q] = rio_cnt[q]
  BY DEF RioInv, StreamTypes, StreamInOrder, InOrder
<1>4. \A q \in Readers \ {r} : rio_bufptr'[q] = rio_bufptr[q] /\ rio_buf'[q] = rio_buf[q]
  BY DEF RioInv, StreamTypes
<1>5. UNCHANGED <<sent, taken, got>>
  OBVIOUS
<1>6. StreamInOrder'
  <2> SUFFICES ASSUME NEW q \in Readers PROVE InOrder(q)'
    BY DEF StreamInOrder
  <2>1. CASE q = r
    BY <2>1, <1>3, <1>5 DEF RioInv, StreamTypes, InOrder
  <2>2. CASE q # r
    BY <2>2, <1>3, <1>4, <1>5, Elsewhere DEF RioInv, StreamInOrder
  <2> QED BY <2>1, <2>2
<1> QED BY <1>1, <1>2, <1>6 DEF RioInv

(* The next call goes on with the buffer. *)
LEMMA NextKeeps ==
  ASSUME RioInv, NEW r \in Readers, NEW buf, NextLine(r, buf)
  PROVE  RioInv'
PROOF
  BY DEF RioInv, StreamTypes, InBuffer, StreamInOrder, InOrder, NextLine, rio_readlineb, rio_t

(* A refill puts the next bytes of the stream at the start of the buffer.  *)
LEMMA RefillKeeps ==
  ASSUME RioAssumption, RioInv, NEW r \in Readers, NEW k \in 1..RIO_BUFSIZE, Refill(r, k)
  PROVE  RioInv'
PROOF
<1> USE DEF Refill, Reading, Unread
<1>1. /\ rio_cnt[r] <= 0 /\ Len(got[r]) = taken[r] /\ taken[r] + k <= Len(sent[r])
  BY DEF RioInv, StreamTypes, StreamInOrder, InOrder
<1>2. \A i \in 0..(k - 1) : sent[r][taken[r] + i + 1] \in Bytes
  BY <1>1 DEF RioInv, StreamTypes
<1>3. rio_buf'[r] \in [0..(RIO_BUFSIZE - 1) -> Bytes]
  BY <1>2 DEF RioInv, StreamTypes
<1>4. StreamTypes'
  BY <1>3 DEF RioInv, StreamTypes
<1>5. InBuffer'
  BY <1>4 DEF RioInv, StreamTypes, InBuffer
<1>6. \A i \in 1..k : rio_buf'[r][rio_bufptr'[r] + i - 1] = sent[r][Len(got[r]) + i]
  BY <1>1, RioAssumption DEF RioInv, StreamTypes, RioAssumption
<1>7. StreamInOrder'
  <2> SUFFICES ASSUME NEW q \in Readers PROVE InOrder(q)'
    BY DEF StreamInOrder
  <2>1. CASE q = r
    <3>1. rio_cnt'[q] = k /\ taken'[q] = taken[q] + k /\ UNCHANGED <<sent, got>>
      BY <2>1 DEF RioInv, StreamTypes
    <3>2. \A i \in 1..Len(got[q]) : got[q][i] = sent[q][i]
      BY DEF RioInv, StreamInOrder, InOrder
    <3>3. (IF k > 0 THEN k ELSE 0) = k /\ Len(got[q]) + k = taken'[q]
      BY <2>1, <1>1, <3>1
    <3>4. taken'[q] <= Len(sent[q])
      BY <2>1, <1>1, <3>1
    <3> QED BY <2>1, <1>6, <3>1, <3>2, <3>3, <3>4 DEF InOrder
  <2>2. CASE q # r
    <3>1. /\ taken'[q] = taken[q] /\ rio_cnt'[q] = rio_cnt[q]
          /\ rio_bufptr'[q] = rio_bufptr[q] /\ rio_buf'[q] = rio_buf[q]
      BY <2>2 DEF RioInv, StreamTypes
    <3> QED BY <3>1, Elsewhere DEF RioInv, StreamInOrder
  <2> QED BY <2>1, <2>2
<1> QED BY <1>4, <1>5, <1>7 DEF RioInv

(* An interrupted read() leaves the buffer empty, and so does the end of   *)
(* the stream.                                                             *)
LEMMA EmptyKeeps ==
  ASSUME RioInv, NEW r \in Readers, rio_cnt[r] <= 0, NEW k \in {-1, 0},
         rio_cnt' = [rio_cnt EXCEPT ![r] = k],
         UNCHANGED <<sent, taken, rio_bufptr, rio_buf, got>>
  PROVE  RioInv'
PROOF
<1>1. StreamTypes'
  BY DEF RioInv, StreamTypes
<1>2. rio_cnt'[r] = k /\ \A q \in Readers \ {r} : rio_cnt'[q] = rio_cnt[q]
  BY DEF RioInv, StreamTypes
<1>3. InBuffer'
  BY <1>2 DEF RioInv, InBuffer
<1>4. InOrder(r)'
  <2>1. InOrder(r) /\ ~(rio_cnt[r] > 0) /\ ~(rio_cnt'[r] > 0)
    BY <1>2 DEF RioInv, StreamTypes, StreamInOrder
  <2> QED BY <2>1 DEF InOrder
<1>5. StreamInOrder'
  BY <1>2, <1>4, Elsewhere DEF RioInv, StreamInOrder
<1> QED BY <1>1, <1>3, <1>5 DEF RioInv

LEMMA InterruptedKeeps ==
  ASSUME RioInv, NEW r \in Readers, Interrupted(r)
  PROVE  RioInv'
PROOF
  BY EmptyKeeps DEF Interrupted, Reading

LEMMA EndOfFileKeeps ==
  ASSUME RioInv, NEW r \in Readers, EndOfFile(r)
  PROVE  RioInv'
PROOF
  BY EmptyKeeps DEF EndOfFile, Reading

(* The byte that is taken is the next one of the stream. *)
LEMMA TakeKeeps ==
  ASSUME RioAssumption, RioInv, NEW r \in Readers, TakeByte(r)
  PROVE  RioInv'
PROOF
<1> DEFINE c == rio_buf[r][rio_bufptr[r]]
<1>1. rio_cnt[r] > 0 /\ rio_bufptr[r] \in 0..(RIO_BUFSIZE - 1)
  BY RioAssumption DEF TakeByte, RioInv, StreamTypes, InBuffer, RioAssumption
<1>2. c \in Bytes
  BY <1>1 DEF RioInv, StreamTypes
<1>3. c = sent[r][Len(got[r]) + 1]
  <2>1. \A i \in 1..rio_cnt[r] : rio_buf[r][rio_bufptr[r] + i - 1] = sent[r][Len(got[r]) + i]
    BY <1>1 DEF RioInv, StreamInOrder, InOrder
  <2>2. 1 \in 1..rio_cnt[r] /\ rio_bufptr[r] + 1 - 1 = rio_bufptr[r]
    BY <1>1 DEF RioInv, StreamTypes
  <2> QED BY <2>1, <2>2
<1>4. /\ got' = [got EXCEPT ![r] = Append(@, c)]
      /\ rio_bufptr' = [rio_bufptr EXCEPT ![r] = @ + 1]
      /\ rio_cnt' = [rio_cnt EXCEPT ![r] = @ - 1]
      /\ UNCHANGED <<sent, taken, rio_buf>>
  BY DEF TakeByte
<1>5. StreamTypes'
  BY <1>1, <1>2, <1>4 DEF RioInv, StreamTypes
<1>6. InBuffer'
  BY <1>1, <1>4 DEF RioInv, StreamTypes, InBuffer
<1>7. StreamInOrder'
  <2> SUFFICES ASSUME NEW q \in Readers PROVE InOrder(q)'
    BY DEF StreamInOrder
  <2>1. CASE q = r
    <3>1. /\ got'[q] = Append(got[q], c) /\ rio_bufptr'[q] = rio_bufptr[q] + 1
          /\ rio_cnt'[q] = rio_cnt[q] - 1
      BY <2>1, <1>4 DEF RioInv, StreamTypes
    <3> DEFINE l == Len(got[q])
    <3>2. l \in Nat /\ rio_bufptr[q] \in Nat /\ rio_cnt[q] \in Nat
      BY <2>1, <1>1 DEF RioInv, StreamTypes
    <3>3. /\ Len(got'[q]) = l + 1 /\ got'[q][l + 1] = c
          /\ \A i \in 1..l : got'[q][i] = got[q][i]
      BY <3>1, <3>2, <1>2 DEF RioInv, StreamTypes
    <3>4. /\ l + rio_cnt[q] = taken[q] /\ taken[q] <= Len(sent[q])
          /\ \A i \in 1..l : got[q][i] = sent[q][i]
          /\ \A i \in 1..rio_cnt[q] : rio_buf[q][rio_bufptr[q] + i - 1] = sent[q][l + i]
      BY <2>1, <1>1 DEF RioInv, StreamInOrder, InOrder
    <3>5. c = sent[q][l + 1]
      BY <2>1, <1>3
    <3> HIDE DEF c, l
    <3>6. \A i \in 1..(l + 1) : got'[q][i] = sent[q][i]
      <4>1. \A i \in 1..(l + 1) : i \in 1..l \/ i = l + 1
        BY <3>2
      <4> QED BY <4>1, <3>3, <3>4, <3>5
    <3>7. \A i \in 1..(rio_cnt[q] - 1) :
            rio_buf[q][rio_bufptr[q] + 1 + i - 1] = sent[q][l + 1 + i]
      <4>1. \A i \in 1..(rio_cnt[q] - 1) :
              /\ i + 1 \in 1..rio_cnt[q] /\ l + (i + 1) = l + 1 + i
              /\ rio_bufptr[q] + (i + 1) - 1 = rio_bufptr[q] + 1 + i - 1
        BY <3>2
      <4> QED BY <4>1, <3>4
    <3>8. /\ l + 1 + (rio_cnt[q] - 1) = taken[q]
          /\ (IF rio_cnt[q] - 1 > 0 THEN rio_cnt[q] - 1 ELSE 0) = rio_cnt[q] - 1
      <4>1. rio_cnt[q] > 0
        BY <2>1, <1>1
      <4> QED BY <3>2, <3>4, <4>1
    <3>9. UNCHANGED <<sent, taken, rio_buf>>
      BY <1>4
    <3> QED BY <3>1, <3>3, <3>4, <3>6, <3>7, <3>8, <3>9 DEF InOrder
  <2>2. CASE q # r
    <3>1. /\ got'[q] = got[q] /\ rio_cnt'[q] = rio_cnt[q] /\ rio_bufptr'[q] = rio_bufptr[q]
      BY <2>2, <1>4 DEF RioInv, StreamTypes
    <3> QED BY <3>1, <1>4, Elsewhere DEF RioInv, StreamInOrder
  <2> QED BY <2>1, <2>2
<1> QED BY <1>5, <1>6, <1>7 DEF RioInv

(* Together: whatever is done with a reader keeps its stream in order.     *)
LEMMA RioKeeps ==
  ASSUME RioAssumption, RioInv, RioStep
  PROVE  RioInv'
PROOF
<1>1. CASE UNCHANGED rioVars
  BY <1>1 DEF RioInv, StreamTypes, InBuffer, StreamInOrder, InOrder, rioVars, rio_t
<1>2. ASSUME NEW r \in Readers, rio_read(r) PROVE RioInv'
  BY <1>2, RioAssumption, RefillKeeps, InterruptedKeeps, EndOfFileKeeps, TakeKeeps DEF rio_read
<1> QED
  BY <1>1, <1>2, RioAssumption, WriteKeeps, EndKeeps, FirstKeeps, NextKeeps DEF RioStep

-----------------------------------------------------------------------------
(* One step of an exchange                                                 *)

Kept ==
  /\ RioStep
  /\ Fresh'
  /\ out' \in [Processes -> Seq(Bytes)]
  /\ asked' \in Asked

LEMMA Texts ==
  /\ ErrorText \in Seq(Bytes) /\ StaticHead \in Seq(Bytes) /\ StaticBody \in Seq(Bytes)
  /\ DynamicHead \in Seq(Bytes) /\ ProgramText \in Seq(Bytes)
PROOF
<1>1. \A a, b \in Bytes : <<a>> \in Seq(Bytes) /\ <<a, b>> \in Seq(Bytes)
  OBVIOUS
<1>2. /\ LF \in Bytes /\ CR \in Bytes /\ "e" \in Bytes /\ "m" \in Bytes /\ "s" \in Bytes
      /\ "f" \in Bytes /\ "d" \in Bytes /\ "p" \in Bytes
  BY DEF LF, CR, Bytes
<1>3. \A s, u \in Seq(Bytes) : s \o u \in Seq(Bytes)
  OBVIOUS
<1>4. DynamicHead \in Seq(Bytes) /\ StaticBody \in Seq(Bytes) /\ Blank \in Seq(Bytes)
  BY <1>1, <1>2 DEF DynamicHead, StaticBody, Blank
<1>5. StaticHead \in Seq(Bytes) /\ ProgramText \in Seq(Bytes)
  BY <1>1, <1>2, <1>3, <1>4 DEF StaticHead, ProgramText
<1>6. ErrorText \in Seq(Bytes)
  BY <1>1, <1>2, <1>3, <1>4 DEF ErrorText
<1> QED BY <1>4, <1>5, <1>6

(* A call on one reader moves no other. *)
LEMMA ReadMoves ==
  ASSUME StreamTypes, NEW r \in Readers, rio_read(r)
  PROVE  \A q \in Readers \ {r} : taken'[q] = taken[q]
PROOF
  BY DEF rio_read, Refill, Interrupted, EndOfFile, TakeByte, StreamTypes

(* The end of a process that holds the connection or not *)
LEMMA LetGoIsRio ==
  ASSUME ExchangeAssumption, NEW held, LetGo(held)
  PROVE  RioStep /\ taken' = taken
PROOF
<1>1. CASE UNCHANGED rioVars
  BY <1>1 DEF RioStep, rioVars
<1>2. CASE ~ UNCHANGED rioVars
  <2>1. EndStream("client", IF Unread("server") > 0 THEN "reset" ELSE "eof")
    BY <1>2 DEF LetGo
  <2>2. (IF Unread("server") > 0 THEN "reset" ELSE "eof") \in {"eof", "reset"}
    OBVIOUS
  <2>3. "client" \in Readers /\ taken' = taken
    BY <2>1, ExchangeAssumption DEF EndStream, ExchangeAssumption
  <2>4. PICK how \in {"eof", "reset"} : EndStream("client", how)
    BY <2>1, <2>2
  <2> QED BY <2>3, <2>4 DEF RioStep
<1> QED BY <1>1, <1>2

(* rio_writen takes some bytes off what a process has to write. *)
LEMMA WritenIsRio ==
  ASSUME ExchangeAssumption, out \in [Processes -> Seq(Bytes)], NEW p \in Processes,
         rio_writen(p)
  PROVE  RioStep /\ taken' = taken /\ out' \in [Processes -> Seq(Bytes)]
PROOF
<1>1. PICK k \in 1..Len(out[p]) : /\ write(Peer(p), SubSeq(out[p], 1, k))
                                   /\ out' = [out EXCEPT ![p] = SubSeq(@, k + 1, Len(@))]
  BY DEF rio_writen
<1>2. Peer(p) \in Readers
  BY ExchangeAssumption DEF Peer, ExchangeAssumption
<1>3. SubSeq(out[p], 1, k) \in Seq(Bytes) /\ SubSeq(out[p], k + 1, Len(out[p])) \in Seq(Bytes)
  OBVIOUS
<1> QED BY <1>1, <1>2, <1>3 DEF RioStep, write
(* A wrapper that fails ends the server. *)
LEMMA ErrorIsRio ==
  ASSUME ExchangeAssumption, NEW msg, unix_error(msg)
  PROVE  RioStep /\ taken' = taken /\ spc' = "dead"
PROOF
  BY LetGoIsRio DEF unix_error

(* A step that reads nothing and does not go back to the beginning *)
LEMMA QuietKept ==
  ASSUME IInv, RioStep, taken' = taken, asked' = asked,
         out' \in [Processes -> Seq(Bytes)],
         spc' \in {"start", "accept"} => spc \in {"start", "accept"},
         cpc' \in {"start", "send"} => cpc \in {"start", "send"}
  PROVE  Kept
PROOF
  BY DEF IInv, Kept, Fresh

(* A step that leaves the readers and what is written alone *)
LEMMA StillKept ==
  ASSUME IInv, UNCHANGED <<rioVars, out, asked>>,
         spc' \in {"start", "accept"} => spc \in {"start", "accept"},
         cpc' \in {"start", "send"} => cpc \in {"start", "send"}
  PROVE  Kept
PROOF
<1>1. RioStep /\ taken' = taken
  BY DEF RioStep, rioVars
<1> QED BY <1>1, QuietKept DEF IInv

LEMMA ServerKept ==
  ASSUME RioAssumption, ExchangeAssumption, IInv, Server
  PROVE  Kept
PROOF
<1> USE DEF fileVars, endVars
<1>0. "server" \in Readers /\ "client" \in Readers /\ out \in [Processes -> Seq(Bytes)]
  BY ExchangeAssumption DEF ExchangeAssumption, IInv
<1>e. ASSUME NEW msg, unix_error(msg), cpc' = cpc, asked' = asked,
             out' \in [Processes -> Seq(Bytes)]
      PROVE  Kept
  BY <1>e, ErrorIsRio, QuietKept, ExchangeAssumption
<1>1. CASE Open_listenfd
  BY <1>1, <1>0, <1>e, StillKept DEF Open_listenfd
<1>2. CASE HandleBegins
  <2>1. PICK buf \in Garbage : FirstLine("server", buf)
    BY <1>2 DEF HandleBegins
  <2>2. taken["server"] = 0 /\ taken' = taken /\ spc' = "line" /\ cpc' = cpc
        /\ UNCHANGED <<out, asked>>
    BY <1>2, <2>1 DEF HandleBegins, IInv, Fresh, FirstLine, rio_readlineb
  <2>3. RioStep
    BY <2>1, <2>2, <1>0 DEF RioStep
  <2> QED BY <2>2, <2>3, <1>0, QuietKept
<1>3. CASE ServerReads
  <2>1. rio_read("server") /\ spc \in {"line", "hdrs"} /\ UNCHANGED procVars
    BY <1>3 DEF ServerReads
  <2>2. taken'["client"] = taken["client"]
    BY <2>1, <1>0, ReadMoves DEF IInv, RioInv
  <2>3. RioStep
    BY <2>1, <1>0 DEF RioStep
  <2> QED BY <2>1, <2>2, <2>3, <1>0 DEF IInv, Kept, Fresh, procVars
<1>4. CASE ServerReadFails
  BY <1>4, <1>0, <1>e DEF ServerReadFails
<1>5. CASE RequestLine
  <2>1. CASE spc' = "hdrs"
    <3>1. /\ \E buf \in Garbage : NextLine("server", buf)
          /\ spc = "line" /\ UNCHANGED <<cpc, out, asked>>
      BY <1>5, <2>1 DEF RequestLine, requestError
    <3>2. RioStep /\ taken' = taken
      BY <3>1, <1>0 DEF RioStep, NextLine, rio_readlineb
    <3> QED BY <3>1, <3>2, <2>1, <1>0, QuietKept
  <2>2. CASE spc' # "hdrs"
    <3>1. /\ UNCHANGED <<rioVars, cpc, asked>> /\ spc' = "error"
          /\ out' = [out EXCEPT !["server"] = ErrorText]
      BY <1>5, <2>2 DEF RequestLine, requestError
    <3>2. RioStep /\ taken' = taken
      BY <3>1 DEF RioStep, rioVars
    <3> QED BY <3>1, <3>2, <1>0, Texts, QuietKept
  <2> QED BY <2>1, <2>2
<1>6. CASE requestReadhdrs
  <2>1. CASE usrbuf["server"] = Blank
    BY <1>6, <2>1, <1>0, StillKept DEF requestReadhdrs
  <2>2. CASE usrbuf["server"] # Blank
    <3>1. NextLine("server", usrbuf["server"]) /\ UNCHANGED <<spc, cpc, out, asked>>
      BY <1>6, <2>2 DEF requestReadhdrs
    <3>2. RioStep /\ taken' = taken
      BY <3>1, <1>0 DEF RioStep, NextLine, rio_readlineb
    <3> QED BY <3>1, <3>2, <1>0, QuietKept
  <2> QED BY <2>1, <2>2
<1>7. CASE Stat
  <2>1. /\ UNCHANGED <<rioVars, cpc, asked>> /\ spc' \in {"error", "open", "dynamic"}
        /\ \/ out' = out
           \/ \E text \in {ErrorText, DynamicHead} : out' = [out EXCEPT !["server"] = text]
    BY <1>7 DEF Stat, requestError
  <2>2. RioStep /\ taken' = taken
    BY <2>1 DEF RioStep, rioVars
  <2> QED BY <2>1, <2>2, <1>0, Texts, QuietKept
<1>8. CASE OpenFile
  BY <1>8, <1>0, <1>e, StillKept DEF OpenFile
<1>9. CASE MapFile
  <2>1. CASE st_size > 0 /\ srcfd.isreg
    <3>1. /\ UNCHANGED <<rioVars, cpc, asked>> /\ spc' = "static"
          /\ out' = [out EXCEPT !["server"] = StaticHead]
      BY <1>9, <2>1 DEF MapFile
    <3>2. RioStep /\ taken' = taken
      BY <3>1 DEF RioStep, rioVars
    <3> QED BY <3>1, <3>2, <1>0, Texts, QuietKept
  <2>2. CASE ~(st_size > 0 /\ srcfd.isreg)
    BY <1>9, <2>2, <1>0, <1>e DEF MapFile
  <2> QED BY <2>1, <2>2
<1>10. CASE requestServeStatic
  <2>1. /\ UNCHANGED <<rioVars, cpc, asked>> /\ spc' = "body"
        /\ out' = [out EXCEPT !["server"] = StaticBody]
    BY <1>10 DEF requestServeStatic
  <2>2. RioStep /\ taken' = taken
    BY <2>1 DEF RioStep, rioVars
  <2> QED BY <2>1, <2>2, <1>0, Texts, QuietKept
<1>11. CASE ServerWrites
  BY <1>11, <1>0, WritenIsRio, QuietKept, ExchangeAssumption DEF ServerWrites, Processes
<1>12. CASE ServerWriteFails
  <2>1. <<>> \in Seq(Bytes) /\ out' = [out EXCEPT !["server"] = <<>>]
    BY <1>12 DEF ServerWriteFails
  <2> QED BY <1>12, <2>1, <1>0, <1>e DEF ServerWriteFails
<1>13. CASE Fork
  BY <1>13, <1>0, <1>e, StillKept DEF Fork
<1>14. CASE WaitPid
  BY <1>14, <1>0, StillKept DEF WaitPid
<1>15. CASE Answered
  BY <1>15, <1>0, StillKept DEF Answered
<1>16. CASE Close
  <2>1. LetGo(ChildHolds) /\ spc' = "done" /\ UNCHANGED <<cpc, out, asked>>
    BY <1>16 DEF Close
  <2> QED BY <2>1, <1>0, LetGoIsRio, QuietKept, ExchangeAssumption
<1> QED
  BY <1>1, <1>2, <1>3, <1>4, <1>5, <1>6, <1>7, <1>8, <1>9, <1>10, <1>11, <1>12, <1>13,
     <1>14, <1>15, <1>16 DEF Server

LEMMA ProgramKept ==
  ASSUME RioAssumption, ExchangeAssumption, IInv, Program
  PROVE  Kept
PROOF
<1> USE DEF fileVars, endVars
<1>0. out \in [Processes -> Seq(Bytes)] /\ <<>> \in Seq(Bytes)
  BY DEF IInv
<1>1. CASE Execve
  <2>1. /\ UNCHANGED <<spc, cpc, asked>>
        /\ \/ UNCHANGED rioVars /\ out' = [out EXCEPT !["program"] = ProgramText]
           \/ LetGo(spc \notin {"done", "dead"}) /\ out' = out
    BY <1>1 DEF Execve
  <2>2. CASE UNCHANGED rioVars
    <3>1. RioStep /\ taken' = taken
      BY <2>2 DEF RioStep, rioVars
    <3> QED BY <2>1, <3>1, <1>0, Texts, QuietKept
  <2>3. CASE LetGo(spc \notin {"done", "dead"}) /\ out' = out
    BY <2>1, <2>3, <1>0, LetGoIsRio, QuietKept, ExchangeAssumption
  <2> QED BY <2>1, <2>2, <2>3
<1>2. CASE ProgramWrites
  BY <1>2, <1>0, WritenIsRio, QuietKept, ExchangeAssumption DEF ProgramWrites, Processes
<1>3. CASE ProgramEnds
  <2>1. /\ LetGo(spc \notin {"done", "dead"}) /\ UNCHANGED <<spc, cpc, asked>>
        /\ out' = [out EXCEPT !["program"] = <<>>]
    BY <1>3 DEF ProgramEnds
  <2> QED BY <2>1, <1>0, LetGoIsRio, QuietKept, ExchangeAssumption
<1> QED BY <1>1, <1>2, <1>3 DEF Program

(* However it ends, the client's process leaves the readers as they are.   *)
LEMMA LeavesKept ==
  ASSUME ExchangeAssumption, IInv, NEW how \in {"done", "failed", "killed"},
         NEW end \in {"eof", "reset"}, ClientLeaves(how, end)
  PROVE  Kept
PROOF
<1>1. /\ cpc' = how /\ UNCHANGED <<spc, asked>> /\ out' = [out EXCEPT !["client"] = <<>>]
      /\ EndStream("server", IF Unread("client") > 0 THEN "reset" ELSE end)
  BY DEF ClientLeaves
<1>2. (IF Unread("client") > 0 THEN "reset" ELSE end) \in {"eof", "reset"}
  OBVIOUS
<1>3. PICK e \in {"eof", "reset"} : EndStream("server", e)
  BY <1>1, <1>2
<1>4. RioStep /\ taken' = taken
  BY <1>3, ExchangeAssumption DEF RioStep, EndStream, ExchangeAssumption
<1>5. <<>> \in Seq(Bytes)
  OBVIOUS
<1>6. out' \in [Processes -> Seq(Bytes)]
  BY <1>1, <1>5 DEF IInv
<1> QED BY <1>1, <1>4, <1>6, QuietKept

LEMMA ClientKept ==
  ASSUME RioAssumption, ExchangeAssumption, IInv, Client
  PROVE  Kept
PROOF
<1> USE DEF fileVars, endVars
<1>0. /\ "server" \in Readers /\ "client" \in Readers
      /\ out \in [Processes -> Seq(Bytes)] /\ <<>> \in Seq(Bytes)
  BY ExchangeAssumption DEF ExchangeAssumption, IInv
<1>1. CASE Open_clientfd
  <2>1. asked \in Seq(Bytes)
    BY ExchangeAssumption DEF ExchangeAssumption, IInv
  <2>2. /\ cpc = "start" /\ UNCHANGED <<rioVars, spc, asked>>
        /\ out' = out \/ out' = [out EXCEPT !["client"] = asked]
    BY <1>1 DEF Open_clientfd
  <2>3. RioStep /\ taken' = taken
    BY <2>2 DEF RioStep, rioVars
  <2> QED BY <2>1, <2>2, <2>3, <1>0, QuietKept
<1>2. CASE ClientWrites
  BY <1>2, <1>0, WritenIsRio, QuietKept, ExchangeAssumption DEF ClientWrites, Processes
<1>3. CASE ClientWritesLate
  <2>1. /\ EndStream("client", "reset") /\ UNCHANGED <<spc, cpc, asked>>
        /\ out' = [out EXCEPT !["client"] = <<>>]
    BY <1>3 DEF ClientWritesLate
  <2>2. RioStep /\ taken' = taken
    BY <2>1, <1>0 DEF RioStep, EndStream
  <2> QED BY <2>1, <2>2, <1>0, QuietKept
<1>4. CASE clientSend
  <2>1. PICK buf \in Garbage : FirstLine("client", buf)
    BY <1>4 DEF clientSend
  <2>2. taken["client"] = 0 /\ taken' = taken /\ cpc' = "header"
        /\ UNCHANGED <<spc, out, asked>>
    BY <1>4, <2>1 DEF clientSend, IInv, Fresh, FirstLine, rio_readlineb
  <2>3. RioStep
    BY <2>1, <2>2, <1>0 DEF RioStep
  <2> QED BY <2>2, <2>3, <1>0, QuietKept
<1>5. CASE ClientReads
  <2>1. rio_read("client") /\ cpc \in {"header", "body"} /\ UNCHANGED procVars
    BY <1>5 DEF ClientReads
  <2>2. taken'["server"] = taken["server"]
    BY <2>1, <1>0, ReadMoves DEF IInv, RioInv
  <2>3. RioStep
    BY <2>1, <1>0 DEF RioStep
  <2> QED BY <2>1, <2>2, <2>3, <1>0 DEF IInv, Kept, Fresh, procVars
<1>6. ASSUME NEW buf, NextLine("client", buf), buf = usrbuf["client"],
             UNCHANGED <<spc, out, asked>>, cpc' \in {cpc, "body"}
      PROVE  Kept
  <2>1. RioStep /\ taken' = taken
    BY <1>6, <1>0 DEF RioStep, NextLine, rio_readlineb
  <2> QED BY <1>6, <2>1, <1>0, QuietKept
<1>7. CASE PrintHeader
  BY <1>6, <1>7 DEF PrintHeader
<1>8. CASE PrintBody
  BY <1>6, <1>8 DEF PrintBody, procVars
<1>9. CASE ClientDone
  BY <1>9, LeavesKept, ExchangeAssumption DEF ClientDone
<1>10. CASE ClientFails
  BY <1>10, LeavesKept, ExchangeAssumption DEF ClientFails
<1> QED
  BY <1>1, <1>2, <1>3, <1>4, <1>5, <1>7, <1>8, <1>9, <1>10 DEF Client

(* Whatever happens in an exchange, it is a step of RioStep. *)
LEMMA NextKept ==
  ASSUME RioAssumption, ExchangeAssumption, IInv, Next
  PROVE  Kept
PROOF
<1>1. CASE ClientKilled
  BY <1>1, LeavesKept, ExchangeAssumption DEF ClientKilled
<1>2. CASE FileChanges
  BY <1>2, StillKept DEF FileChanges, procVars
<1>3. CASE Finished
  BY <1>3, StillKept DEF Finished, vars, procVars
<1> QED
  BY <1>1, <1>2, <1>3, ServerKept, ProgramKept, ClientKept, RioAssumption, ExchangeAssumption
     DEF Next

-----------------------------------------------------------------------------
LEMMA IInvInit ==
  ASSUME RioAssumption, ExchangeAssumption, Init
  PROVE  IInv
PROOF
<1>1. StreamTypes
  <2>1. <<>> \in Seq(Bytes) /\ LF \in Bytes
    BY DEF Bytes
  <2> QED BY <2>1 DEF Init, RioInit, StreamTypes
<1>2. InBuffer /\ StreamInOrder
  BY DEF Init, RioInit, InBuffer, StreamInOrder, InOrder
<1>3. Fresh /\ out \in [Processes -> Seq(Bytes)] /\ asked \in Asked
  BY ExchangeAssumption DEF Init, RioInit, Fresh, Processes, ExchangeAssumption
<1> QED BY <1>1, <1>2, <1>3 DEF IInv, RioInv

LEMMA IInvNext ==
  ASSUME RioAssumption, ExchangeAssumption, IInv, [Next]_vars
  PROVE  IInv'
PROOF
<1>1. Kept
  <2>1. CASE Next
    BY <2>1, NextKept, RioAssumption, ExchangeAssumption
  <2>2. CASE UNCHANGED vars
    BY <2>2, StillKept DEF vars, procVars
  <2> QED BY <2>1, <2>2
<1>2. RioInv'
  BY <1>1, RioKeeps, RioAssumption DEF IInv, Kept
<1> QED BY <1>1, <1>2 DEF IInv, Kept

(* Between the writes at one end and the lines at the other nothing is     *)
(* lost, repeated or reordered, whatever sizes the buffers have and        *)
(* however write() and read() cut the stream.                              *)
THEOREM StreamStaysInOrder == Spec => []StreamInOrder
PROOF
<1>1. Init => IInv
  BY IInvInit, RioAssumption, ExchangeAssumption
<1>2. IInv /\ [Next]_vars => IInv'
  BY IInvNext, RioAssumption, ExchangeAssumption
<1>3. IInv => StreamInOrder
  BY DEF IInv, RioInv
<1> QED BY <1>1, <1>2, <1>3, PTL DEF Spec

-----------------------------------------------------------------------------
(* Where the processes are, and why the server ends                        *)

StageTypes ==
  /\ spc \in {"start", "accept", "line", "hdrs", "stat", "error", "open", "mmap", "static",
              "body", "dynamic", "wait", "close", "done", "dead"}
  /\ cpc \in {"start", "refused", "send", "header", "body", "done", "failed", "killed"}
  /\ gpc \in {"none", "forked", "program", "zombie"}
  /\ file \in ServedFile /\ srcfd \in ServedFile /\ changes \in Nat /\ st_size \in {0, 1}
  /\ result \in request_result
  /\ n \in [Readers -> Nat] /\ rc \in [Readers -> Nat]
  /\ ended \in [Readers -> {"no", "eof", "reset"}]

Places ==
  /\ exit # "no" <=> spc = "dead"
  /\ gpc # "none" <=> spc = "wait"
  /\ out["server"] # <<>> => spc \in {"error", "static", "body", "dynamic"}
  /\ out["program"] # <<>> => gpc = "program"
  /\ out["client"] # <<>> => cpc = "send"

Ends ==
  /\ ended["client"] # "no" => spc \in {"done", "dead"}
  /\ ended["server"] # "no" => cpc \in {"done", "failed", "killed"}
  /\ cpc \in {"done", "failed"} => ended["client"] # "no"
  /\ cpc \in {"header", "body"} /\ ~InCall("client") /\ rc["client"] = 0 => ended["client"] # "no"

FileSeen ==
  /\ spc \in {"open", "mmap", "static", "body"} => result = STATIC
  /\ spc \in {"open", "mmap", "static", "body"} /\ changes = 0
       => file.isreg /\ file.rusr /\ (file.empty => st_size = 0)
  /\ spc = "mmap" /\ changes = 0 => srcfd.isreg
  /\ spc \in {"static", "body"} => st_size # 0
  /\ gpc = "program" => file.runs

Stages == StageTypes /\ Places /\ Ends /\ FileSeen /\ ServerOutlivesRequest

(* All that letting go of the connection does *)
MayEnd ==
  /\ ended' \in [Readers -> {"no", "eof", "reset"}]
  /\ ended'["server"] = ended["server"]
  /\ ended["client"] # "no" => ended' = ended
  /\ UNCHANGED <<sent, taken, rio_cnt, rio_bufptr, rio_buf, n, usrbuf, rc, got>>

(* Letting go of the connection ends the client's stream or does nothing.  *)
LEMMA LetGoEnds ==
  ASSUME ExchangeAssumption, StageTypes, NEW held, LetGo(held)
  PROVE  MayEnd
PROOF
<1> USE DEF MayEnd
<1>1. CASE held \/ ended["client"] # "no"
  BY <1>1 DEF LetGo, rioVars, rio_t, StageTypes
<1>2. CASE ~(held \/ ended["client"] # "no")
  <2>1. PICK how \in {"eof", "reset"} : EndStream("client", how)
    BY <1>2 DEF LetGo
  <2> QED BY <1>2, <2>1, ExchangeAssumption DEF EndStream, StageTypes, ExchangeAssumption, rio_t
<1> QED BY <1>1, <1>2

(* Why unix_error may be called *)
Excuse(msg) ==
  \/ msg \in {"Open_listenfd", "Fork"}
  \/ msg \in {"Rio_readlineb", "Rio_writen"} /\ cpc = "killed"
  \/ msg = "Open" /\ ~file.readable /\ (file.rusr \/ changes > 0)
  \/ msg = "Mmap" /\ (st_size = 0 \/ (~srcfd.isreg /\ changes > 0))
  \/ msg = "Rio_writen" /\ result = STATIC /\ changes > 0

(* A server that ends for one of the reasons ServerOutlivesRequest names   *)
LEMMA ErrorStages ==
  ASSUME ExchangeAssumption, Stages, NEW msg, unix_error(msg), msg # "no", Excuse(msg),
         spc # "wait", out \in [Processes -> Seq(Bytes)],
         out' \in {out, [out EXCEPT !["server"] = <<>>]},
         out'["server"] = <<>>, UNCHANGED <<cpc, gpc, fileVars, result>>
  PROVE  Stages'
PROOF
<1>1. LetGo(ChildHolds) /\ exit' = msg /\ spc' = "dead" /\ gpc = "none"
  BY DEF unix_error, Stages, Places
<1>2. MayEnd
  BY <1>1, LetGoEnds, ExchangeAssumption DEF Stages
<1>3. UNCHANGED <<file, changes, st_size, srcfd>>
  BY DEF fileVars
<1>4. StageTypes' /\ Places' /\ FileSeen'
  BY <1>1, <1>2, <1>3 DEF MayEnd, Stages, StageTypes, Places, FileSeen, Processes
<1>5. Ends' /\ ServerOutlivesRequest'
  BY <1>1, <1>2, <1>3 DEF MayEnd, Stages, Ends, ServerOutlivesRequest, InCall, Excuse
<1> QED BY <1>4, <1>5 DEF Stages

(* What requestHandle decides of a file, and what it has seen of it by then *)
LEMMA Decisions ==
  ASSUME NEW f \in ServedFile, NEW cgi \in BOOLEAN
  PROVE  /\ Decision(f, cgi) \in request_result
         /\ Decision(f, cgi) = STATIC => f.isreg /\ f.rusr
PROOF
  BY DEF Decision, requestHandle, requestParseURI, Usable, ServedFile, HomeFile, request_result,
         ERR501, ERR404, ERR403, DYNAMIC, STATIC

(* Where a worker is tells what it has looked at: each of its steps.       *)
LEMMA ServerStages ==
  ASSUME RioAssumption, ExchangeAssumption, IInv, Stages, Server
  PROVE  Stages'
PROOF
<1> USE ExchangeAssumption DEF ExchangeAssumption, fileVars, endVars, rioVars, rio_t, Stages
<1>0. "server" \in Readers /\ "client" \in Readers /\ out \in [Processes -> Seq(Bytes)]
  BY DEF IInv
<1>1. CASE Open_listenfd
  <2>1. CASE unix_error("Open_listenfd")
    BY <1>1, <2>1, <1>0, ErrorStages DEF Open_listenfd, Excuse, Places
  <2>2. CASE ~unix_error("Open_listenfd")
    BY <1>1, <2>2, <1>0 DEF Open_listenfd, StageTypes, Places, Ends, FileSeen, InCall,
       ServerOutlivesRequest
  <2> QED BY <2>1, <2>2
<1>2. CASE HandleBegins
  BY <1>2, <1>0 DEF HandleBegins, FirstLine, rio_readinitb, rio_readlineb, Connected,
     StageTypes, Places, Ends, FileSeen, InCall, ServerOutlivesRequest
<1>3. CASE ServerReads
  BY <1>3, <1>0 DEF ServerReads, rio_read, Refill, Interrupted, EndOfFile, TakeByte, procVars,
     StageTypes, Places, Ends, FileSeen, InCall, ServerOutlivesRequest
<1>4. CASE ServerReadFails
  <2>1. unix_error("Rio_readlineb") /\ spc \in {"line", "hdrs"} /\ out["server"] = <<>>
        /\ out' = out /\ UNCHANGED <<cpc, gpc, fileVars, result>>
    BY <1>4 DEF ServerReadFails, Places
  <2>2. Excuse("Rio_readlineb")
    BY <1>4, <2>1 DEF ServerReadFails, ReadFails, Ends, Excuse
  <2> QED BY <2>1, <2>2, <1>0, ErrorStages
<1>5. CASE RequestLine
  <2>1. CASE spc' = "hdrs"
    BY <1>5, <2>1, <1>0 DEF RequestLine, requestError, NextLine, rio_readlineb, StageTypes,
       Places, Ends, FileSeen, InCall, ServerOutlivesRequest
  <2>2. CASE spc' # "hdrs"
    <3>1. /\ UNCHANGED <<rioVars, cpc, gpc, fileVars, exit>> /\ spc = "line" /\ spc' = "error"
          /\ out' = [out EXCEPT !["server"] = ErrorText] /\ result' = ERR501
      BY <1>5, <2>2 DEF RequestLine, requestError
    <3> QED BY <3>1, <1>0 DEF StageTypes, Places, Ends, FileSeen, InCall,
       ServerOutlivesRequest, Processes, request_result
  <2> QED BY <2>1, <2>2
<1>6. CASE requestReadhdrs
  BY <1>6, <1>0 DEF requestReadhdrs, NextLine, rio_readlineb, StageTypes, Places, Ends,
     FileSeen, InCall, ServerOutlivesRequest, request_result
<1>7. CASE Stat
  <2>1. /\ file' \in ServedFile /\ st_size' = IF file'.empty THEN 0 ELSE 1
        /\ spc = "stat" /\ UNCHANGED <<rioVars, cpc, gpc, changes, srcfd, exit>>
    BY <1>7 DEF Stat
  <2>2. PICK cgi \in BOOLEAN :
          \/ Decision(file', cgi) < 0 /\ requestError(Decision(file', cgi))
          \/ Decision(file', cgi) = STATIC /\ result' = STATIC /\ spc' = "open" /\ UNCHANGED out
          \/ /\ Decision(file', cgi) = DYNAMIC /\ result' = DYNAMIC /\ spc' = "dynamic"
             /\ out' = [out EXCEPT !["server"] = DynamicHead]
    BY <1>7 DEF Stat
  <2>3. /\ Decision(file', cgi) \in request_result
        /\ Decision(file', cgi) = STATIC => file'.isreg /\ file'.rusr
    BY <2>1, Decisions
  <2>4. CASE Decision(file', cgi) < 0 /\ requestError(Decision(file', cgi))
    BY <2>1, <2>3, <2>4, <1>0 DEF requestError, StageTypes, Places, Ends, FileSeen,
       InCall, ServerOutlivesRequest, Processes
  <2>5. CASE Decision(file', cgi) = STATIC /\ result' = STATIC /\ spc' = "open" /\ UNCHANGED out
    BY <2>1, <2>3, <2>5, <1>0 DEF StageTypes, Places, Ends, FileSeen, InCall,
       ServerOutlivesRequest, request_result
  <2>6. CASE /\ Decision(file', cgi) = DYNAMIC /\ result' = DYNAMIC /\ spc' = "dynamic"
             /\ out' = [out EXCEPT !["server"] = DynamicHead]
    BY <2>1, <2>6, <1>0 DEF StageTypes, Places, Ends, FileSeen, InCall,
       ServerOutlivesRequest, request_result, Processes
  <2> QED BY <2>2, <2>4, <2>5, <2>6
<1>8. CASE OpenFile
  <2>1. CASE file.readable
    BY <1>8, <2>1, <1>0 DEF OpenFile, StageTypes, Places, Ends, FileSeen, InCall,
       ServerOutlivesRequest
  <2>2. CASE ~file.readable
    <3>1. unix_error("Open") /\ Excuse("Open") /\ out["server"] = <<>>
      BY <1>8, <2>2 DEF OpenFile, Excuse, Places, FileSeen, StageTypes
    <3>2. spc = "open" /\ out' = out /\ UNCHANGED <<cpc, gpc, fileVars, result>>
      BY <1>8, <2>2 DEF OpenFile
    <3> QED BY <3>1, <3>2, <1>0, ErrorStages
  <2> QED BY <2>1, <2>2
<1>9. CASE MapFile
  <2>1. CASE st_size > 0 /\ srcfd.isreg
    <3>1. /\ spc = "mmap" /\ spc' = "static" /\ srcfd' = NoFile
          /\ UNCHANGED <<rioVars, exit, cpc, gpc, file, changes, st_size, result>>
          /\ out' = [out EXCEPT !["server"] = StaticHead]
      BY <1>9, <2>1 DEF MapFile
    <3>2. NoFile \in ServedFile
      BY DEF NoFile, ServedFile
    <3> QED BY <2>1, <3>1, <3>2, <1>0 DEF StageTypes, Places, Ends, FileSeen, InCall,
       ServerOutlivesRequest, Processes
  <2>2. CASE ~(st_size > 0 /\ srcfd.isreg)
    <3>1. unix_error("Mmap") /\ Excuse("Mmap") /\ out["server"] = <<>>
      BY <1>9, <2>2 DEF MapFile, Excuse, Places, FileSeen, StageTypes
    <3> QED BY <1>9, <2>2, <3>1, <1>0, ErrorStages DEF MapFile
  <2> QED BY <2>1, <2>2
<1>10. CASE requestServeStatic
  BY <1>10, <1>0 DEF requestServeStatic, StageTypes, Places, Ends, FileSeen, InCall,
     ServerOutlivesRequest
<1>11. CASE ServerWrites
  BY <1>11, <1>0 DEF ServerWrites, rio_writen, write, StageTypes, Places, Ends, FileSeen,
     InCall, ServerOutlivesRequest
<1>12. CASE ServerWriteFails
  <2>1. out["server"] # <<>> /\ spc \notin {"done", "dead", "wait"} /\ unix_error("Rio_writen")
        /\ out' = [out EXCEPT !["server"] = <<>>] /\ out'["server"] = <<>>
    BY <1>12, <1>0 DEF ServerWriteFails, Places, Processes
  <2>2. Excuse("Rio_writen")
    <3>1. CASE ended["server"] # "no"
      BY <2>1, <3>1 DEF Ends, Excuse
    <3>2. CASE Unmapped
      BY <2>1, <3>2 DEF Unmapped, FileSeen, Excuse, StageTypes
    <3> QED BY <1>12, <3>1, <3>2 DEF ServerWriteFails, WriteFails, Own
  <2> QED BY <1>12, <2>1, <2>2, <1>0, ErrorStages DEF ServerWriteFails
<1>13. CASE Fork
  <2>1. CASE unix_error("Fork")
    <3>1. Excuse("Fork") /\ spc # "wait" /\ out' = out /\ UNCHANGED <<cpc, gpc, fileVars, result>>
          /\ out["server"] = <<>>
      BY <1>13, <2>1 DEF Fork, Excuse, unix_error
    <3> QED BY <2>1, <3>1, <1>0, ErrorStages
  <2>2. CASE ~unix_error("Fork")
    BY <1>13, <2>2, <1>0 DEF Fork, StageTypes, Places, Ends, FileSeen, InCall,
       ServerOutlivesRequest
  <2> QED BY <2>1, <2>2
<1>14. CASE WaitPid
  BY <1>14, <1>0 DEF WaitPid, StageTypes, Places, Ends, FileSeen, InCall, ServerOutlivesRequest
<1>15. CASE Answered
  BY <1>15, <1>0 DEF Answered, StageTypes, Places, Ends, FileSeen, InCall, ServerOutlivesRequest
<1>16. CASE Close
  <2>1. spc = "close" /\ spc' = "done" /\ LetGo(ChildHolds) /\ gpc = "none"
        /\ UNCHANGED <<cpc, gpc, out, asked, file, changes, st_size, srcfd, result, exit>>
    BY <1>16 DEF Close, Places
  <2>2. MayEnd
    BY <2>1, LetGoEnds
  <2> QED BY <2>1, <2>2, <1>0 DEF MayEnd, StageTypes, Places, Ends, FileSeen, InCall,
     ServerOutlivesRequest
<1> QED
  BY <1>1, <1>2, <1>3, <1>4, <1>5, <1>6, <1>7, <1>8, <1>9, <1>10, <1>11, <1>12, <1>13,
     <1>14, <1>15, <1>16 DEF Server

(* The CGI program runs only while the worker waits for it.                *)
LEMMA ProgramStages ==
  ASSUME RioAssumption, ExchangeAssumption, IInv, Stages, Program
  PROVE  Stages'
PROOF
<1> USE ExchangeAssumption DEF ExchangeAssumption, fileVars, endVars, rioVars, rio_t, Stages
<1>0. "server" \in Readers /\ "client" \in Readers /\ out \in [Processes -> Seq(Bytes)]
  BY DEF IInv
<1>1. ASSUME LetGo(spc \notin {"done", "dead"}), spc \notin {"done", "dead"} PROVE UNCHANGED rioVars
  BY <1>1 DEF LetGo
<1>2. CASE Execve
  <2>1. spc = "wait"
    BY <1>2 DEF Execve, Places, StageTypes
  <2>2. /\ gpc = "forked" /\ UNCHANGED <<rioVars, spc, cpc, fileVars, endVars>>
        /\ \/ gpc' = "program" /\ out' = [out EXCEPT !["program"] = ProgramText] /\ file.runs
           \/ gpc' = "zombie" /\ out' = out
    BY <1>1, <1>2, <2>1 DEF Execve
  <2> QED BY <2>1, <2>2, <1>0 DEF Processes, StageTypes, Places, Ends, FileSeen, InCall,
     ServerOutlivesRequest
<1>3. CASE ProgramWrites
  BY <1>3, <1>0 DEF ProgramWrites, rio_writen, write, Processes, StageTypes, Places, Ends,
     FileSeen, InCall, ServerOutlivesRequest
<1>4. CASE ProgramEnds
  <2>1. spc = "wait"
    BY <1>4 DEF ProgramEnds, Places, StageTypes
  <2>2. /\ gpc = "program" /\ UNCHANGED <<rioVars, spc, cpc, fileVars, endVars>>
        /\ gpc' = "zombie" /\ out' = [out EXCEPT !["program"] = <<>>]
    BY <1>1, <1>4, <2>1 DEF ProgramEnds
  <2> QED BY <2>1, <2>2, <1>0 DEF Processes, StageTypes, Places, Ends, FileSeen, InCall,
     ServerOutlivesRequest
<1> QED BY <1>2, <1>3, <1>4 DEF Program

(* However it ends, the client has let go of its end. *)
LEMMA LeavesStages ==
  ASSUME ExchangeAssumption, IInv, Stages, NEW how, NEW end \in {"eof", "reset"},
         ClientLeaves(how, end), how \in {"done", "failed", "killed"},
         cpc \in {"send", "header", "body"}, how = "killed" \/ ended["client"] # "no"
  PROVE  Stages'
PROOF
<1>1. /\ cpc' = how /\ out' = [out EXCEPT !["client"] = <<>>]
      /\ UNCHANGED <<spc, gpc, file, changes, st_size, srcfd, result, exit>>
      /\ EndStream("server", IF Unread("client") > 0 THEN "reset" ELSE end)
  BY DEF ClientLeaves, fileVars, endVars
<1>2. PICK e \in {"eof", "reset"} : EndStream("server", e)
  BY <1>1
<1>3. UNCHANGED <<n, rc>> /\ ended' = [ended EXCEPT !["server"] = e]
  BY <1>2 DEF EndStream
<1> QED
  BY <1>1, <1>2, <1>3, ExchangeAssumption
     DEF ExchangeAssumption, IInv, Processes, Stages, StageTypes, Places, Ends, FileSeen,
     InCall, ServerOutlivesRequest

(* The steps of the client                                                 *)
LEMMA ClientStages ==
  ASSUME RioAssumption, ExchangeAssumption, IInv, Stages, Client
  PROVE  Stages'
PROOF
<1> USE ExchangeAssumption DEF ExchangeAssumption, fileVars, endVars, rioVars, rio_t, Stages
<1>0. "server" \in Readers /\ "client" \in Readers /\ out \in [Processes -> Seq(Bytes)]
  BY DEF IInv
<1>1. CASE Open_clientfd
  BY <1>1, <1>0 DEF Open_clientfd, Processes, StageTypes, Places, Ends, FileSeen, InCall,
     ServerOutlivesRequest
<1>2. CASE ClientWrites
  BY <1>2, <1>0 DEF ClientWrites, rio_writen, write, Processes, StageTypes, Places, Ends,
     FileSeen, InCall, ServerOutlivesRequest
<1>3. CASE ClientWritesLate
  BY <1>3, <1>0 DEF ClientWritesLate, WriteFails, Own, EndStream, Processes, StageTypes,
     Places, Ends, FileSeen, InCall, ServerOutlivesRequest
<1>4. CASE clientSend
  BY <1>4, <1>0 DEF clientSend, FirstLine, rio_readinitb, rio_readlineb, StageTypes, Places,
     Ends, FileSeen, InCall, ServerOutlivesRequest
<1>5. CASE ClientReads
  BY <1>5, <1>0 DEF ClientReads, rio_read, Refill, Interrupted, EndOfFile, TakeByte, procVars,
     StageTypes, Places, Ends, FileSeen, InCall, ServerOutlivesRequest
<1>6. CASE PrintHeader
  BY <1>6, <1>0 DEF PrintHeader, NextLine, rio_readlineb, StageTypes, Places, Ends, FileSeen,
     InCall, ServerOutlivesRequest
<1>7. CASE PrintBody
  BY <1>7, <1>0 DEF PrintBody, NextLine, rio_readlineb, procVars, StageTypes, Places, Ends,
     FileSeen, InCall, ServerOutlivesRequest
<1>8. CASE ClientDone
  BY <1>8, <1>0, LeavesStages DEF ClientDone, Ends
<1>9. CASE ClientFails
  BY <1>9, <1>0, LeavesStages DEF ClientFails, WriteFails, ReadFails, Own
<1> QED
  BY <1>1, <1>2, <1>3, <1>4, <1>5, <1>6, <1>7, <1>8, <1>9 DEF Client

(* Every step keeps the stages, and with them ServerOutlivesRequest.       *)
LEMMA StagesNext ==
  ASSUME RioAssumption, ExchangeAssumption, IInv, Stages, [Next]_vars
  PROVE  Stages'
PROOF
<1>1. CASE ClientKilled
  BY <1>1, LeavesStages, ExchangeAssumption DEF ClientKilled
<1>2. CASE FileChanges
  BY <1>2, ExchangeAssumption DEF FileChanges, ExchangeAssumption, rioVars, procVars, endVars,
     Stages, StageTypes, Places, Ends, FileSeen, InCall, ServerOutlivesRequest
<1>3. CASE UNCHANGED vars
  BY <1>3 DEF vars, rioVars, procVars, fileVars, endVars, Stages, StageTypes, Places, Ends,
     FileSeen, InCall, ServerOutlivesRequest
<1> QED
  BY <1>1, <1>2, <1>3, ServerStages, ProgramStages, ClientStages, RioAssumption,
     ExchangeAssumption
     DEF Next, Finished

-----------------------------------------------------------------------------
(* What a step leaves alone                                                *)

(* Nothing of a reader that its caller sees moves. *)
Untouched(r) ==
  got'[r] = got[r] /\ n'[r] = n[r] /\ usrbuf'[r] = usrbuf[r] /\ rc'[r] = rc[r]

BufTypes == usrbuf \in [Readers -> Seq(Bytes)] /\ header \in Seq(Bytes) /\ body \in Seq(Bytes)

(* What the server's steps leave alone                                     *)
LEMMA ServerFrame ==
  ASSUME ExchangeAssumption, IInv, Stages, BufTypes, Server
  PROVE  /\ Untouched("client") /\ sent'["server"] = sent["server"]
         /\ out'["client"] = out["client"] /\ out'["program"] = out["program"]
         /\ UNCHANGED <<cpc, asked, changes, header, body>>
PROOF
<1> USE ExchangeAssumption DEF ExchangeAssumption, fileVars, endVars, procVars, rioVars, rio_t, Untouched
<1>0. /\ "server" \in Readers /\ "client" \in Readers /\ out \in [Processes -> Seq(Bytes)]
      /\ n \in [Readers -> Nat] /\ rc \in [Readers -> Nat] /\ usrbuf \in [Readers -> Seq(Bytes)]
      /\ sent \in [Readers -> Seq(Bytes)] /\ got \in [Readers -> Seq(Bytes)]
  BY DEF IInv, RioInv, StreamTypes, Stages, StageTypes, BufTypes
<1>l. ASSUME NEW held, LetGo(held) PROVE UNCHANGED <<sent, n, usrbuf, rc, got>>
  BY <1>l, LetGoEnds DEF MayEnd, Stages
<1>e. ASSUME NEW msg, unix_error(msg) PROVE UNCHANGED <<sent, n, usrbuf, rc, got>>
  BY <1>e, <1>l DEF unix_error
<1>1. CASE Open_listenfd \/ ServerReadFails \/ OpenFile \/ Fork
  BY <1>1, <1>e DEF Open_listenfd, ServerReadFails, OpenFile, Fork
<1>2. CASE HandleBegins
  BY <1>2, <1>0 DEF HandleBegins, FirstLine, rio_readinitb, rio_readlineb
<1>3. CASE ServerReads
  BY <1>3, <1>0 DEF ServerReads, rio_read, Refill, Interrupted, EndOfFile, TakeByte
<1>4. CASE RequestLine \/ requestReadhdrs
  BY <1>4, <1>0 DEF RequestLine, requestReadhdrs, requestError, NextLine, rio_readlineb, Processes
<1>5. CASE Stat
  BY <1>5, <1>0 DEF Stat, requestError, Processes
<1>6. CASE MapFile \/ ServerWriteFails
  BY <1>6, <1>0, <1>e DEF MapFile, ServerWriteFails, Processes
<1>7. CASE requestServeStatic \/ WaitPid \/ Answered
  BY <1>7, <1>0 DEF requestServeStatic, WaitPid, Answered, Processes
<1>8. CASE ServerWrites
  BY <1>8, <1>0 DEF ServerWrites, rio_writen, write, Peer, Processes
<1>9. CASE Close
  BY <1>9, <1>l DEF Close
<1> QED
  BY <1>1, <1>2, <1>3, <1>4, <1>5, <1>6, <1>7, <1>8, <1>9 DEF Server

(* What the steps of the CGI process leave alone                           *)
LEMMA ProgramFrame ==
  ASSUME ExchangeAssumption, IInv, Stages, BufTypes, Program
  PROVE  /\ Untouched("server") /\ Untouched("client") /\ sent'["server"] = sent["server"]
         /\ out'["server"] = out["server"] /\ out'["client"] = out["client"]
         /\ UNCHANGED <<spc, cpc, asked, fileVars, endVars>>
PROOF
<1> USE ExchangeAssumption DEF ExchangeAssumption, rioVars, rio_t, Untouched
<1>0. /\ out \in [Processes -> Seq(Bytes)] /\ sent \in [Readers -> Seq(Bytes)]
  BY DEF IInv, RioInv, StreamTypes
<1>l. ASSUME NEW held, LetGo(held) PROVE UNCHANGED <<sent, n, usrbuf, rc, got>>
  BY <1>l, LetGoEnds DEF MayEnd, Stages
<1>1. CASE Execve
  BY <1>1, <1>0, <1>l DEF Execve, Processes
<1>2. CASE ProgramWrites
  BY <1>2, <1>0 DEF ProgramWrites, rio_writen, write, Peer, Processes
<1>3. CASE ProgramEnds
  BY <1>3, <1>0, <1>l DEF ProgramEnds, Processes
<1> QED BY <1>1, <1>2, <1>3 DEF Program

(* What the client's steps leave alone                                     *)
LEMMA ClientFrame ==
  ASSUME ExchangeAssumption, IInv, Stages, BufTypes, Client \/ ClientKilled
  PROVE  /\ Untouched("server") /\ sent'["client"] = sent["client"]
         /\ out'["server"] = out["server"] /\ out'["program"] = out["program"]
         /\ UNCHANGED <<spc, gpc, asked, fileVars, result, exit>>
PROOF
<1> USE ExchangeAssumption DEF ExchangeAssumption, procVars, endVars, rioVars, rio_t, Untouched
<1>0. /\ "server" \in Readers /\ "client" \in Readers /\ out \in [Processes -> Seq(Bytes)]
      /\ n \in [Readers -> Nat] /\ rc \in [Readers -> Nat] /\ usrbuf \in [Readers -> Seq(Bytes)]
      /\ sent \in [Readers -> Seq(Bytes)] /\ got \in [Readers -> Seq(Bytes)]
  BY DEF IInv, RioInv, StreamTypes, Stages, StageTypes, BufTypes
<1>1. CASE Open_clientfd \/ ClientWritesLate
  BY <1>1, <1>0 DEF Open_clientfd, ClientWritesLate, EndStream, Processes
<1>2. CASE ClientWrites
  BY <1>2, <1>0 DEF ClientWrites, rio_writen, write, Peer, Processes
<1>3. CASE clientSend
  BY <1>3, <1>0 DEF clientSend, FirstLine, rio_readinitb, rio_readlineb
<1>4. CASE ClientReads
  BY <1>4, <1>0 DEF ClientReads, rio_read, Refill, Interrupted, EndOfFile, TakeByte
<1>5. CASE PrintHeader \/ PrintBody
  BY <1>5, <1>0 DEF PrintHeader, PrintBody, NextLine, rio_readlineb
<1>6. CASE ClientDone \/ ClientFails \/ ClientKilled
  BY <1>6, <1>0 DEF ClientDone, ClientFails, ClientKilled, ClientLeaves, EndStream, Processes
<1> QED
  BY <1>1, <1>2, <1>3, <1>4, <1>5, <1>6 DEF Client

(* The byte that is taken comes from the buffer, and is the next one of the *)
(* stream.                                                                 *)
LEMMA TakesNextByte ==
  ASSUME RioAssumption, RioInv, NEW r \in Readers, TakeByte(r)
  PROVE  /\ rio_buf[r][rio_bufptr[r]] \in Bytes
         /\ rio_buf[r][rio_bufptr[r]] = sent[r][Len(got[r]) + 1]
         /\ Len(got[r]) < Len(sent[r])
PROOF
<1>1. rio_cnt[r] > 0 /\ rio_bufptr[r] \in 0..(RIO_BUFSIZE - 1)
  BY RioAssumption DEF TakeByte, RioInv, StreamTypes, InBuffer, RioAssumption
<1>2. rio_buf[r][rio_bufptr[r]] \in Bytes
  BY <1>1 DEF RioInv, StreamTypes
<1>3. \A i \in 1..rio_cnt[r] : rio_buf[r][rio_bufptr[r] + i - 1] = sent[r][Len(got[r]) + i]
  BY <1>1 DEF RioInv, StreamInOrder, InOrder
<1>4. 1 \in 1..rio_cnt[r] /\ rio_bufptr[r] + 1 - 1 = rio_bufptr[r]
  BY <1>1 DEF RioInv, StreamTypes
<1>5. Len(got[r]) < Len(sent[r])
  BY <1>1 DEF RioInv, StreamTypes, StreamInOrder, InOrder
<1> QED BY <1>2, <1>3, <1>4, <1>5

(* Buffers and output hold bytes.                                          *)
LEMMA BufTypesNext ==
  ASSUME RioAssumption, ExchangeAssumption, IInv, Stages, BufTypes, Next
  PROVE  BufTypes'
PROOF
<1> USE ExchangeAssumption DEF ExchangeAssumption, procVars, endVars, fileVars, rioVars, rio_t
<1>0. Garbage \subseteq Seq(Bytes)
  <2>1. <<>> \in Seq(Bytes) /\ \A a, b \in Bytes : <<a, b>> \in Seq(Bytes)
    OBVIOUS
  <2> QED BY <2>1 DEF Garbage, Blank, Bytes, CR, LF
<1>1. ASSUME NEW r \in Readers, rio_read(r) PROVE usrbuf' \in [Readers -> Seq(Bytes)]
  <2>1. CASE TakeByte(r)
    <3>2. rio_buf[r][rio_bufptr[r]] \in Bytes
      BY <2>1, TakesNextByte, RioAssumption DEF IInv
    <3>3. \A c \in Bytes : <<c>> \in Seq(Bytes) /\ Append(usrbuf[r], c) \in Seq(Bytes)
      BY <1>1 DEF BufTypes
    <3> QED BY <2>1, <3>2, <3>3 DEF TakeByte, BufTypes
  <2>2. CASE ~TakeByte(r)
    BY <1>1, <2>2 DEF rio_read, Refill, Interrupted, EndOfFile, BufTypes
  <2> QED BY <2>1, <2>2
<1>2. CASE Server
  <2>1. UNCHANGED <<header, body>>
    BY <1>2, ServerFrame
  <2>2. CASE HandleBegins
    BY <2>2, <1>0 DEF HandleBegins, FirstLine, rio_readlineb, BufTypes
  <2>3. CASE ServerReads
    BY <2>1, <2>3, <1>1 DEF ServerReads, BufTypes
  <2>4. CASE RequestLine \/ requestReadhdrs
    BY <2>4, <2>1, <1>0 DEF RequestLine, requestReadhdrs, requestError, NextLine,
       rio_readlineb, BufTypes
  <2>l. ASSUME NEW held, LetGo(held) PROVE UNCHANGED usrbuf
    BY <2>l, LetGoEnds DEF MayEnd, Stages
  <2>e. ASSUME NEW msg, unix_error(msg) PROVE UNCHANGED usrbuf
    BY <2>e, <2>l DEF unix_error
  <2>5. CASE ~(HandleBegins \/ ServerReads \/ RequestLine \/ requestReadhdrs)
    <3>1. UNCHANGED usrbuf
      BY <1>2, <2>5, <2>l, <2>e
         DEF Server, Open_listenfd, ServerReadFails, Stat, requestError, OpenFile, MapFile,
             requestServeStatic, ServerWrites, rio_writen, write, ServerWriteFails, Fork,
             WaitPid, Answered, Close
    <3> QED BY <2>1, <3>1 DEF BufTypes
  <2> QED BY <2>2, <2>3, <2>4, <2>5
<1>3. CASE Program
  <2>l. ASSUME NEW held, LetGo(held) PROVE UNCHANGED usrbuf
    BY <2>l, LetGoEnds DEF MayEnd, Stages
  <2> QED
    BY <1>3, <2>l DEF Program, Execve, ProgramWrites, ProgramEnds, rio_writen, write, BufTypes
<1>4. CASE Client
  <2>1. CASE clientSend
    BY <2>1, <1>0 DEF clientSend, FirstLine, rio_readlineb, BufTypes
  <2>2. CASE ClientReads
    BY <2>2, <1>1 DEF ClientReads, BufTypes
  <2>3. CASE PrintHeader \/ PrintBody
    <3>1. usrbuf["client"] \in Seq(Bytes)
      BY DEF BufTypes
    <3>2. header \o usrbuf["client"] \in Seq(Bytes) /\ body \o usrbuf["client"] \in Seq(Bytes)
      BY <3>1 DEF BufTypes
    <3>3. /\ header' \in {header, header \o usrbuf["client"]} /\ body' \in {body, body \o usrbuf["client"]}
          /\ usrbuf' = [usrbuf EXCEPT !["client"] = usrbuf["client"]]
      BY <2>3 DEF PrintHeader, PrintBody, NextLine, rio_readlineb
    <3> QED BY <3>1, <3>2, <3>3 DEF BufTypes
  <2>4. CASE ~(clientSend \/ ClientReads \/ PrintHeader \/ PrintBody)
    BY <1>4, <2>4 DEF Client, Open_clientfd, ClientWrites, rio_writen, write, ClientWritesLate,
       EndStream,
       ClientDone, ClientFails, ClientLeaves, BufTypes
  <2> QED BY <2>1, <2>2, <2>3, <2>4
<1>5. CASE ClientKilled \/ FileChanges \/ Finished
  BY <1>5 DEF ClientKilled, ClientLeaves, EndStream, FileChanges, Finished, vars, BufTypes
<1> QED BY <1>2, <1>3, <1>4, <1>5 DEF Next

-----------------------------------------------------------------------------
(* The request: what is sent, and the line the server is reading           *)

(* What a call has stored of its line *)
Partial(r) == IF n[r] = 1 \/ (n[r] = 0 /\ rc[r] = 0) THEN <<>> ELSE usrbuf[r]

RequestSent ==
  /\ cpc \in {"start", "refused"} => sent["server"] = <<>>
  /\ spc \in {"line", "hdrs", "stat"} => cpc \notin {"start", "refused"}
  /\ cpc \notin {"start", "refused", "killed"} /\ spc \notin {"done", "dead"} =>
       sent["server"] \o out["client"] = asked

LastLine ==
  LET g == got["server"]
      p == Partial("server")
  IN  /\ Len(p) <= Len(g) /\ \A i \in 1..Len(p) : p[i] = g[Len(g) - Len(p) + i]
      /\ Len(p) = Len(g) \/ g[Len(g) - Len(p)] = LF
      /\ IF InCall("server") THEN Len(p) = n["server"] - 1 /\ \A i \in 1..Len(p) : p[i] # LF
         ELSE Len(p) > 0 /\ p[Len(p)] = LF

RequestLines ==
  spc \in {"line", "hdrs", "stat"} /\ LinesFit /\ cpc # "killed" =>
    /\ LastLine
    /\ spc = "stat" => ~InCall("server") /\ usrbuf["server"] = Blank

Requests == BufTypes /\ RequestSent /\ RequestLines

(* A sequence that is cut in two, the first part behind what went before   *)
LEMMA CutAndJoin ==
  ASSUME NEW S, NEW s \in Seq(S), NEW u \in Seq(S), NEW k \in 1..Len(u)
  PROVE  (s \o SubSeq(u, 1, k)) \o SubSeq(u, k + 1, Len(u)) = s \o u
PROOF
<1> DEFINE a == SubSeq(u, 1, k)
           b == SubSeq(u, k + 1, Len(u))
<1>1. k \in Nat /\ k <= Len(u) /\ Len(u) \in Nat /\ \A i \in 1..Len(u) : u[i] \in S
  OBVIOUS
<1>2. a \in Seq(S) /\ b \in Seq(S)
  <2>1. (\A i \in 1..k : u[i] \in S) /\ \A i \in (k + 1)..Len(u) : u[i] \in S
    BY <1>1
  <2> QED BY <1>1, <2>1, SubSeqProperties
<1>3. a \o b = u
  <2>1. 1 \in 1..(Len(u) + 1) /\ k \in (1 - 1)..Len(u) /\ Len(u) \in k..Len(u)
    BY <1>1
  <2> QED BY <2>1, ConcatAdjacentSubSeq, SubSeqFull
<1> HIDE DEF a, b
<1>4. (s \o a) \o b = s \o (a \o b)
  <2>1. s \in Seq(S) /\ a \in Seq(S) /\ b \in Seq(S)
    BY <1>2
  <2> QED BY <2>1
<1>5. (s \o a) \o b = s \o u
  BY <1>3, <1>4
<1> QED BY <1>5 DEF a, b

(* The first of two sequences begins what they are together.               *)
LEMMA JoinPrefix ==
  ASSUME NEW S, NEW s \in Seq(S), NEW u \in Seq(S)
  PROVE  /\ Len(s) <= Len(s \o u) /\ Len(s \o u) \in Nat /\ Len(s) \in Nat
         /\ \A i \in 1..Len(s) : s[i] = (s \o u)[i]
PROOF
  OBVIOUS

(* What the server has of the request is the beginning of it. *)
LEMMA RequestPrefix ==
  ASSUME ExchangeAssumption, IInv, Requests, spc \in {"line", "hdrs", "stat"}, cpc # "killed"
  PROVE  /\ asked \in Seq(Bytes) /\ got["server"] \in Seq(Bytes)
         /\ Len(sent["server"]) <= Len(asked)
         /\ \A i \in 1..Len(sent["server"]) : sent["server"][i] = asked[i]
         /\ Len(got["server"]) <= Len(sent["server"])
         /\ \A i \in 1..Len(got["server"]) : got["server"][i] = asked[i]
PROOF
<1>1. /\ sent["server"] \in Seq(Bytes) /\ out["client"] \in Seq(Bytes) /\ asked \in Seq(Bytes)
      /\ got["server"] \in Seq(Bytes) /\ "server" \in Readers
  BY ExchangeAssumption DEF ExchangeAssumption, IInv, RioInv, StreamTypes, Processes
<1>2. sent["server"] \o out["client"] = asked
  BY DEF Requests, RequestSent
<1>3. /\ Len(sent["server"]) <= Len(asked)
      /\ \A i \in 1..Len(sent["server"]) : sent["server"][i] = asked[i]
  <2>1. /\ Len(sent["server"]) <= Len(sent["server"] \o out["client"])
        /\ \A i \in 1..Len(sent["server"]) : sent["server"][i] = (sent["server"] \o out["client"])[i]
    BY <1>1, JoinPrefix
  <2> QED BY <2>1, <1>2
<1>4. /\ Len(got["server"]) <= Len(sent["server"])
      /\ \A i \in 1..Len(got["server"]) : got["server"][i] = sent["server"][i]
  <2>1. InOrder("server") /\ rio_cnt["server"] \in Int /\ taken["server"] \in Nat
    BY <1>1 DEF IInv, RioInv, StreamInOrder, StreamTypes
  <2> DEFINE held == IF rio_cnt["server"] > 0 THEN rio_cnt["server"] ELSE 0
  <2>2. /\ Len(got["server"]) + held = taken["server"] /\ taken["server"] <= Len(sent["server"])
        /\ \A i \in 1..Len(got["server"]) : got["server"][i] = sent["server"][i]
    BY <2>1 DEF InOrder
  <2>3. held \in Nat /\ Len(got["server"]) \in Nat /\ Len(sent["server"]) \in Nat
    BY <1>1, <2>1
  <2> HIDE DEF held
  <2> QED BY <2>1, <2>2, <2>3
<1>5. \A i \in 1..Len(got["server"]) : i \in 1..Len(sent["server"])
  BY <1>1, <1>4
<1>6. \A i \in 1..Len(got["server"]) : got["server"][i] = asked[i]
  BY <1>3, <1>4, <1>5
<1> QED BY <1>1, <1>3, <1>4, <1>6

(* What is sent and what is left to send are the request, until one end ends. *)
LEMMA RequestSentNext ==
  ASSUME ExchangeAssumption, IInv, Stages, Requests, Next
  PROVE  RequestSent'
PROOF
<1>0. /\ sent["server"] \in Seq(Bytes) /\ out["client"] \in Seq(Bytes) /\ BufTypes
      /\ sent \in [Readers -> Seq(Bytes)] /\ out \in [Processes -> Seq(Bytes)]
      /\ "server" \in Readers /\ "client" \in Processes /\ asked \in Seq(Bytes)
  BY ExchangeAssumption DEF ExchangeAssumption, IInv, RioInv, StreamTypes, Processes, Requests
<1>1. ASSUME sent'["server"] = sent["server"], out'["client"] = out["client"],
             UNCHANGED <<cpc, asked>>, spc \in {"done", "dead"} => spc' \in {"done", "dead"},
             spc' \in {"line", "hdrs", "stat"} => spc \in {"line", "hdrs", "stat"} \/ Connected
      PROVE  RequestSent'
  BY <1>1 DEF Requests, RequestSent, Connected
<1>2. CASE Server
  <2>1. /\ spc \in {"done", "dead"} => spc' \in {"done", "dead"}
        /\ spc' \in {"line", "hdrs", "stat"} => spc \in {"line", "hdrs", "stat"} \/ Connected
    BY <1>2 DEF Server, Open_listenfd, unix_error, HandleBegins, ServerReads, procVars,
       ServerReadFails,
         RequestLine, requestError, requestReadhdrs, Stat, OpenFile, MapFile,
         requestServeStatic, ServerWrites, ServerWriteFails, Fork, WaitPid, Answered, Close,
         Stages, Places
  <2> QED BY <1>0, <1>1, <1>2, <2>1, ServerFrame, ExchangeAssumption
<1>3. CASE Program
  BY <1>0, <1>1, <1>3, ProgramFrame, ExchangeAssumption
<1>4. CASE FileChanges \/ Finished
  BY <1>1, <1>4 DEF FileChanges, Finished, vars, procVars, rioVars
<1>5. CASE Client \/ ClientKilled
  <2>1. UNCHANGED <<spc, asked>>
    BY <1>0, <1>5, ClientFrame, ExchangeAssumption
  <2>2. CASE Open_clientfd
    <3>1. /\ cpc = "start" /\ spc' = spc /\ sent' = sent /\ out["client"] = <<>> /\ sent["server"] = <<>>
          /\ \/ cpc' = "refused" /\ out' = out
             \/ spc = "accept" /\ cpc' = "send" /\ out'["client"] = asked
      BY <1>0, <2>2 DEF Open_clientfd, Stages, Places, Requests, RequestSent, rioVars
    <3>2. \A s \in Seq(Bytes) : <<>> \o s = s
      OBVIOUS
    <3> QED BY <1>0, <2>1, <3>1, <3>2 DEF Requests, RequestSent
  <2>3. CASE ClientWrites
    <3>1. PICK k \in 1..Len(out["client"]) :
            /\ sent' = [sent EXCEPT !["server"] = @ \o SubSeq(out["client"], 1, k)]
            /\ out' = [out EXCEPT !["client"] = SubSeq(@, k + 1, Len(@))]
      BY <2>3 DEF ClientWrites, rio_writen, write, Peer
    <3>2. sent'["server"] \o out'["client"] = sent["server"] \o out["client"]
      BY <1>0, <3>1, CutAndJoin
    <3>3. cpc = "send" /\ cpc' = "send"
      BY <2>3 DEF ClientWrites
    <3> QED BY <2>1, <3>2, <3>3 DEF Requests, RequestSent
  <2>4. CASE ClientWritesLate \/ ClientDone \/ ClientFails
    <3>1. /\ ended["client"] # "no" \/ spc \in {"done", "dead"}
          /\ cpc' \notin {"start", "refused"}
      BY <2>4 DEF ClientWritesLate, ClientDone, ClientFails, ClientLeaves, WriteFails,
         ReadFails, Own,
                  Stages, Ends
    <3>2. spc' \in {"done", "dead"}
      BY <2>1, <3>1 DEF Stages, Ends
    <3> QED BY <3>1, <3>2 DEF RequestSent
  <2>5. CASE clientSend \/ ClientReads \/ PrintHeader \/ PrintBody
    <3>1. /\ cpc \in {"send", "header", "body"} /\ cpc' \in {"header", "body"}
          /\ UNCHANGED <<sent, out>>
      BY <2>5 DEF clientSend, FirstLine, ClientReads, rio_read, Refill, Interrupted, EndOfFile,
         TakeByte,
                  PrintHeader, PrintBody, NextLine, rio_readlineb, procVars
    <3> QED BY <2>1, <3>1 DEF Requests, RequestSent
  <2>6. CASE ClientKilled
    <3>1. cpc' = "killed" /\ cpc \in {"send", "header", "body"}
      BY <2>6 DEF ClientKilled, ClientLeaves
    <3> QED BY <2>1, <3>1 DEF Requests, RequestSent
  <2> QED BY <1>5, <2>2, <2>3, <2>4, <2>5, <2>6 DEF Client
<1> QED BY <1>2, <1>3, <1>4, <1>5 DEF Next

(* One more byte at the end                                                *)
LEMMA AppendMore ==
  ASSUME NEW S, NEW s \in Seq(S), NEW c \in S
  PROVE  /\ Len(Append(s, c)) = Len(s) + 1 /\ Append(s, c)[Len(s) + 1] = c /\ Len(s) \in Nat
         /\ \A i \in 1..Len(s) : Append(s, c)[i] = s[i]
PROOF
  OBVIOUS

(* A byte more of a line: the line goes on until its line feed, since it   *)
(* fits in the buffer.                                                     *)
LEMMA ByteOfLine ==
  ASSUME RioAssumption, ExchangeAssumption, IInv, Stages, Requests, LinesFit,
         spc \in {"line", "hdrs"}, cpc # "killed", TakeByte("server")
  PROVE  LastLine'
PROOF
<1> DEFINE c == rio_buf["server"][rio_bufptr["server"]]
           g == got["server"]
           p == Partial("server")
           t == asked
<1>0. "server" \in Readers
  BY ExchangeAssumption DEF ExchangeAssumption
<1>1. c \in Bytes /\ c = sent["server"][Len(g) + 1] /\ Len(g) < Len(sent["server"])
  BY <1>0, TakesNextByte, RioAssumption DEF IInv
<1>2. /\ t \in Seq(Bytes) /\ g \in Seq(Bytes) /\ Len(sent["server"]) <= Len(t)
      /\ \A i \in 1..Len(sent["server"]) : sent["server"][i] = t[i]
      /\ \A i \in 1..Len(g) : g[i] = t[i]
  BY RequestPrefix, ExchangeAssumption
<1>3. sent["server"] \in Seq(Bytes) /\ usrbuf["server"] \in Seq(Bytes) /\ n["server"] \in Nat
      /\ rc["server"] \in Nat
  BY <1>0 DEF IInv, RioInv, StreamTypes, Requests, BufTypes, Stages, StageTypes
<1>4. n["server"] # 0 /\ p \in Seq(Bytes) /\ Len(p) = n["server"] - 1 /\ \A i \in 1..Len(p) : p[i] # LF
  <2>1. InCall("server") /\ LastLine
    BY DEF TakeByte, Requests, RequestLines
  <2>2. Len(p) = n["server"] - 1 /\ \A i \in 1..Len(p) : p[i] # LF
    BY <2>1 DEF LastLine
  <2>3. n["server"] # 0
    BY <2>1 DEF InCall
  <2>4. p \in Seq(Bytes)
    BY <1>3 DEF Partial
  <2> QED BY <2>2, <2>3, <2>4
<1>5. /\ Len(p) <= Len(g) /\ \A i \in 1..Len(p) : p[i] = g[Len(g) - Len(p) + i]
      /\ Len(p) = Len(g) \/ g[Len(g) - Len(p)] = LF
  BY DEF Requests, RequestLines, LastLine
<1>6. /\ usrbuf'["server"] = Append(p, c) /\ got'["server"] = Append(g, c)
      /\ n'["server"] = IF c = LF \/ n["server"] + 1 = MAXLINE THEN 0 ELSE n["server"] + 1
      /\ c = LF => rc'["server"] = n["server"]
  <2>1. \A b \in Bytes : Append(<<>>, b) = <<b>>
    OBVIOUS
  <2> QED
    BY <1>0, <1>1, <1>3, <1>4, <2>1
       DEF TakeByte, IInv, RioInv, StreamTypes, BufTypes, Requests, Stages, StageTypes, Partial
<1> HIDE DEF c, g, p, t
<1>7. c # LF => n["server"] + 1 # MAXLINE
  <2> SUFFICES ASSUME c # LF PROVE Len(p) + 2 < MAXLINE
    BY <1>3, <1>4, RioAssumption DEF RioAssumption
  <2> DEFINE i == Len(g) - Len(p) + 1
             j == Len(g) + 1
  <2>1. Len(g) \in Nat /\ Len(p) \in Nat /\ Len(t) \in Nat /\ Len(sent["server"]) \in Nat
    BY <1>2, <1>3, <1>4
  <2>2. i \in 1..Len(t) /\ j \in 1..Len(t) /\ i <= j /\ j - i + 2 = Len(p) + 2
    BY <1>1, <1>2, <1>5, <2>1
  <2>3. \A k \in i..j : t[k] # LF
    <3>1. t[j] = c
      BY <1>1, <1>2, <2>1
    <3>2. \A k \in i..(j - 1) : t[k] = p[k - (Len(g) - Len(p))] /\ k - (Len(g) - Len(p)) \in 1..Len(p)
      <4>1. \A k \in i..(j - 1) : k \in 1..Len(g) /\ k - (Len(g) - Len(p)) \in 1..Len(p)
        BY <1>5, <2>1
      <4>2. \A k \in i..(j - 1) : k = Len(g) - Len(p) + (k - (Len(g) - Len(p)))
        BY <2>1
      <4> QED BY <1>2, <1>5, <4>1, <4>2
    <3>3. \A k \in i..j : k = j \/ k \in i..(j - 1)
      BY <2>1
    <3> QED BY <1>4, <3>1, <3>2, <3>3
  <2>4. LinesFit => j - i + 2 < MAXLINE
    BY <2>2, <2>3 DEF LinesFit, t
  <2> QED BY <2>2, <2>4
<1>8. Partial("server")' = Append(p, c)
  BY <1>3, <1>4, <1>6, <1>7 DEF Partial
<1>9. /\ Len(Append(p, c)) = Len(p) + 1 /\ Append(p, c)[Len(p) + 1] = c
      /\ \A i \in 1..Len(p) : Append(p, c)[i] = p[i]
      /\ Len(Append(g, c)) = Len(g) + 1 /\ Append(g, c)[Len(g) + 1] = c
      /\ \A i \in 1..Len(g) : Append(g, c)[i] = g[i]
      /\ Len(p) \in Nat /\ Len(g) \in Nat
  BY <1>1, <1>2, <1>4, AppendMore
<1>10. \A i \in 1..(Len(p) + 1) : Append(p, c)[i] = Append(g, c)[Len(g) + 1 - (Len(p) + 1) + i]
  <2>1. \A i \in 1..Len(p) : Append(p, c)[i] = Append(g, c)[Len(g) - Len(p) + i]
    <3>1. \A i \in 1..Len(p) : Len(g) - Len(p) + i \in 1..Len(g)
      BY <1>5, <1>9
    <3> QED BY <1>5, <1>9, <3>1
  <2>2. Len(g) - Len(p) + (Len(p) + 1) = Len(g) + 1
    BY <1>9
  <2>3. \A i \in 1..(Len(p) + 1) : /\ i = Len(p) + 1 \/ i \in 1..Len(p)
                                   /\ Len(g) + 1 - (Len(p) + 1) + i = Len(g) - Len(p) + i
    BY <1>9
  <2> QED BY <1>9, <2>1, <2>2, <2>3
<1>11. Len(p) + 1 = Len(g) + 1 \/ Append(g, c)[Len(g) + 1 - (Len(p) + 1)] = LF
  <2>1. CASE Len(p) = Len(g)
    BY <2>1
  <2>2. CASE Len(p) # Len(g)
    <3>1. Len(g) - Len(p) \in 1..Len(g) /\ Len(g) + 1 - (Len(p) + 1) = Len(g) - Len(p)
      BY <1>5, <1>9, <2>2
    <3> QED BY <1>5, <1>9, <2>2, <3>1
  <2> QED BY <2>1, <2>2
<1>12. /\ InCall("server")' => Len(p) + 1 = n'["server"] - 1 /\ \A i \in 1..(Len(p) + 1) : Append(p, c)[i] # LF
       /\ ~InCall("server")' => Len(p) + 1 > 0 /\ Append(p, c)[Len(p) + 1] = LF
  <2>1. \A i \in 1..(Len(p) + 1) : i = Len(p) + 1 \/ i \in 1..Len(p)
    BY <1>9
  <2> QED BY <1>3, <1>4, <1>6, <1>7, <1>9, <2>1 DEF InCall
<1>13. Len(p) + 1 <= Len(g) + 1
  BY <1>5, <1>9
<1>14. LET h == Append(g, c)
           q == Append(p, c)
       IN  /\ Len(q) <= Len(h) /\ \A i \in 1..Len(q) : q[i] = h[Len(h) - Len(q) + i]
           /\ Len(q) = Len(h) \/ h[Len(h) - Len(q)] = LF
           /\ IF InCall("server")' THEN Len(q) = n'["server"] - 1 /\ \A i \in 1..Len(q) : q[i] # LF
              ELSE Len(q) > 0 /\ q[Len(q)] = LF
  BY <1>9, <1>10, <1>11, <1>12, <1>13
<1> QED
  BY <1>6, <1>8, <1>14 DEF LastLine

(* The call that reads the request has the line it is in, and no more.     *)
LEMMA RequestLinesNext ==
  ASSUME RioAssumption, ExchangeAssumption, IInv, Stages, Stages', Requests, Next
  PROVE  RequestLines'
PROOF
<1> SUFFICES ASSUME spc' \in {"line", "hdrs", "stat"}, LinesFit', cpc' # "killed"
             PROVE  LastLine' /\ (spc' = "stat" => ~InCall("server")' /\ usrbuf'["server"] = Blank)
  BY DEF RequestLines
<1>0. /\ "server" \in Readers /\ BufTypes
      /\ got["server"] \in Seq(Bytes) /\ usrbuf \in [Readers -> Seq(Bytes)]
      /\ n \in [Readers -> Nat] /\ rc \in [Readers -> Nat]
  BY ExchangeAssumption DEF ExchangeAssumption, IInv, RioInv, StreamTypes, Requests, BufTypes,
     Stages, StageTypes
<1>1. ASSUME Untouched("server"), spc \in {"line", "hdrs", "stat"}, spc' = spc, cpc # "killed",
             asked' = asked
      PROVE  LastLine' /\ (spc' = "stat" => ~InCall("server")' /\ usrbuf'["server"] = Blank)
  BY <1>1 DEF Requests, RequestLines, LastLine, Untouched, Partial, InCall, LinesFit
(* A call that begins where the last one stopped *)
<1>2. ASSUME NEW buf, n' = [n EXCEPT !["server"] = 1], got' = got,
             got["server"] = <<>> \/ got["server"][Len(got["server"])] = LF
      PROVE  LastLine' /\ InCall("server")'
  <2>1. Partial("server")' = <<>> /\ n'["server"] = 1
    BY <1>0, <1>2 DEF Partial
  <2>2. Len(<<>>) = 0 /\ Len(got["server"]) \in Nat /\ (got["server"] = <<>> => Len(got["server"]) = 0)
    BY <1>0
  <2> QED BY <1>2, <2>1, <2>2 DEF LastLine, InCall
(* A line that is there ends in a line feed. *)
<1>3. ASSUME spc \in {"line", "hdrs"}, ~InCall("server"), cpc # "killed", LinesFit
      PROVE  /\ LastLine /\ got["server"][Len(got["server"])] = LF
             /\ Partial("server") = usrbuf["server"]
  <2>1. LastLine
    BY <1>3 DEF Requests, RequestLines
  <2> DEFINE p == Partial("server")
  <2>2. Len(p) > 0 /\ p = usrbuf["server"] /\ p \in Seq(Bytes)
    <3>1. Len(<<>>) = 0
      OBVIOUS
    <3> QED BY <1>0, <1>3, <2>1, <3>1 DEF LastLine, Partial
  <2>3. /\ \A i \in 1..Len(p) : p[i] = got["server"][Len(got["server"]) - Len(p) + i]
        /\ p[Len(p)] = LF
    BY <1>3, <2>1 DEF LastLine
  <2>4. Len(p) \in 1..Len(p) /\ Len(got["server"]) - Len(p) + Len(p) = Len(got["server"])
    BY <1>0, <2>2
  <2> QED BY <2>1, <2>2, <2>3, <2>4
<1>4. CASE Server
  <2>0. cpc # "killed" /\ asked' = asked /\ LinesFit
    BY <1>0, <1>4, ServerFrame, ExchangeAssumption DEF LinesFit
  <2>1. CASE HandleBegins
    <3>1. got["server"] = <<>>
      <4>1. taken["server"] = 0 /\ InOrder("server") /\ rio_cnt["server"] \in Int
        BY <1>0, <2>1 DEF HandleBegins, IInv, Fresh, RioInv, StreamInOrder, StreamTypes
      <4>2. Len(got["server"]) = 0
        BY <1>0, <4>1 DEF InOrder
      <4> QED BY <1>0, <4>2
    <3>2. n' = [n EXCEPT !["server"] = 1] /\ got' = got /\ spc' = "line"
      BY <2>1 DEF HandleBegins, FirstLine, rio_readlineb
    <3> QED BY <1>2, <3>1, <3>2
  <2>2. CASE ServerReads
    <3>1. spc \in {"line", "hdrs"} /\ rio_read("server") /\ spc' = spc
      BY <2>2 DEF ServerReads, procVars
    <3>2. CASE TakeByte("server")
      BY <2>0, <3>1, <3>2, ByteOfLine, RioAssumption, ExchangeAssumption
    <3>3. CASE EndOfFile("server")
      BY <2>0, <3>1, <3>3 DEF EndOfFile, Stages, Ends
    <3>4. CASE Interrupted("server") \/ \E k \in 1..RIO_BUFSIZE : Refill("server", k)
      BY <1>1, <2>0, <3>1, <3>4 DEF Interrupted, Refill, Untouched
    <3> QED BY <3>1, <3>2, <3>3, <3>4 DEF rio_read
  <2>3. CASE RequestLine
    <3>1. spc = "line" /\ ~InCall("server") /\ spc' = "hdrs" /\ n' = [n EXCEPT !["server"] = 1] /\ got' = got
      BY <2>3 DEF RequestLine, requestError, NextLine, rio_readlineb
    <3> QED BY <1>2, <1>3, <2>0, <3>1
  <2>4. CASE requestReadhdrs
    <3>1. spc = "hdrs" /\ ~InCall("server") /\ got' = got
      BY <2>4 DEF requestReadhdrs, NextLine, rio_readlineb, rioVars
    <3>2. CASE usrbuf["server"] = Blank
      <4>1. spc' = "stat" /\ UNCHANGED <<got, n, usrbuf, rc>>
        BY <2>4, <3>2 DEF requestReadhdrs, rioVars
      <4> QED BY <1>3, <2>0, <3>1, <3>2, <4>1 DEF LastLine, InCall, Partial
    <3>3. CASE usrbuf["server"] # Blank
      <4>1. n' = [n EXCEPT !["server"] = 1] /\ spc' = spc
        BY <2>4, <3>3 DEF requestReadhdrs, NextLine, rio_readlineb
      <4> QED BY <1>2, <1>3, <2>0, <3>1, <4>1
    <3> QED BY <3>2, <3>3
  <2>5. CASE ServerWrites
    <3>1. Untouched("server") /\ spc' = spc
      BY <2>5 DEF ServerWrites, rio_writen, write, rio_t, Untouched
    <3> QED BY <1>1, <2>0, <3>1
  <2>6. CASE ~(HandleBegins \/ ServerReads \/ RequestLine \/ requestReadhdrs \/ ServerWrites)
    <3>1. spc' \notin {"line", "hdrs", "stat"}
      BY <1>4, <2>6
         DEF Server, Open_listenfd, unix_error, ServerReadFails, Stat, requestError, OpenFile,
         MapFile,
             requestServeStatic, ServerWriteFails, Fork, WaitPid, Answered, Close
    <3> QED BY <3>1
  <2> QED BY <2>1, <2>2, <2>3, <2>4, <2>5, <2>6
<1>5. CASE Program
  BY <1>0, <1>1, <1>5, ProgramFrame, ExchangeAssumption
<1>6. CASE Client \/ ClientKilled
  <2>1. Untouched("server") /\ UNCHANGED <<spc, asked>>
    BY <1>0, <1>6, ClientFrame, ExchangeAssumption
  <2>2. cpc # "killed"
    BY <1>6 DEF Client, ClientKilled, Open_clientfd, ClientWrites, ClientWritesLate,
       clientSend, ClientReads,
       PrintHeader, PrintBody, ClientDone, ClientFails
  <2> QED BY <1>1, <2>1, <2>2
<1>7. CASE FileChanges \/ Finished
  BY <1>1, <1>7 DEF FileChanges, Finished, vars, procVars, rioVars, Untouched
<1> QED BY <1>4, <1>5, <1>6, <1>7 DEF Next

(* When the file is looked up, all of the request has been read. *)
LEMMA BlankIsLast ==
  ASSUME ExchangeAssumption, RequestsAssumption, IInv, Requests, Stages
  PROVE  WholeRequestRead
PROOF
<1> SUFFICES ASSUME spc = "stat", LinesFit, cpc # "killed" PROVE got["server"] = asked
  BY DEF WholeRequestRead
<1> DEFINE g == got["server"]
           t == asked
<1>1. t \in Seq(Bytes) /\ g \in Seq(Bytes) /\ Len(g) <= Len(t) /\ \A i \in 1..Len(g) : g[i] = t[i]
  <2>1. /\ t \in Seq(Bytes) /\ g \in Seq(Bytes) /\ Len(sent["server"]) <= Len(t)
        /\ Len(g) <= Len(sent["server"]) /\ \A i \in 1..Len(g) : g[i] = t[i]
    BY RequestPrefix, ExchangeAssumption
  <2>2. sent["server"] \in Seq(Bytes)
    BY ExchangeAssumption DEF ExchangeAssumption, IInv, RioInv, StreamTypes
  <2>3. Len(sent["server"]) \in Nat /\ Len(g) \in Nat /\ Len(t) \in Nat
    BY <2>1, <2>2
  <2> QED BY <2>1, <2>3
<1>2. LastLine /\ ~InCall("server") /\ usrbuf["server"] = Blank
  BY DEF Requests, RequestLines
<1>3. Partial("server") = Blank /\ Len(Blank) = 2 /\ Blank[1] = CR /\ Blank[2] = LF
  BY <1>2 DEF LastLine, Partial, Blank
<1>4. Len(g) >= 2 /\ g[Len(g) - 1] = CR /\ g[Len(g)] = LF /\ (2 = Len(g) \/ g[Len(g) - 2] = LF)
  <2>1. /\ 2 <= Len(g) /\ \A i \in 1..2 : Blank[i] = g[Len(g) - 2 + i]
        /\ 2 = Len(g) \/ g[Len(g) - 2] = LF
    BY <1>2, <1>3 DEF LastLine
  <2>2. Len(g) \in Nat /\ Len(g) - 2 + 1 = Len(g) - 1 /\ Len(g) - 2 + 2 = Len(g)
    BY <1>1
  <2>3. Blank[1] = g[Len(g) - 2 + 1] /\ Blank[2] = g[Len(g) - 2 + 2]
    BY <2>1
  <2> QED BY <1>3, <2>1, <2>2, <2>3
<1>5. Len(g) = Len(t)
  <2> DEFINE i == Len(g) - 1
  <2>0. Len(g) \in Nat /\ Len(t) \in Nat
    BY <1>1
  <2>1. i \in 1..(Len(t) - 1) /\ i + 1 = Len(g)
    BY <1>1, <1>4, <2>0
  <2>2. t[i] = CR /\ t[i + 1] = LF /\ (i = 1 \/ t[i - 1] = LF)
    <3>0. Len(g) >= 2
      BY <1>4
    <3>1. i \in 1..Len(g) /\ Len(g) \in 1..Len(g) /\ (i = 1 \/ Len(g) - 2 \in 1..Len(g)) /\ i - 1 = Len(g) - 2
      <4>1. \A m \in Nat : m >= 2 => /\ m - 1 \in 1..m /\ m \in 1..m /\ m - 1 - 1 = m - 2
                                     /\ m - 1 = 1 \/ m - 2 \in 1..m
        OBVIOUS
      <4> QED BY <3>0, <2>0, <4>1
    <3>2. i = 1 <=> Len(g) = 2
      BY <2>0
    <3> QED BY <1>1, <1>4, <2>1, <3>1, <3>2
  <2>3. asked \in Asked
    BY DEF IInv
  <2> HIDE DEF i
  <2>4. i + 1 = Len(t)
    BY <2>1, <2>2, <2>3, RequestsAssumption DEF RequestsAssumption
  <2> QED BY <2>1, <2>4
<1>6. g = t
  BY <1>1, <1>5
<1> QED BY <1>6

-----------------------------------------------------------------------------
(* The answer: what is sent                                                *)

(* Nothing has happened that may spoil the answer. *)
Clean == exit = "no" /\ cpc \notin {"failed", "killed"}

(* All that is sent, in the end *)
Whole == IF NotRun THEN DynamicHead ELSE Answer

(* What has been sent, and what a process still has in hand of it *)
AnswerSent ==
  Clean =>
    /\ spc \in {"start", "accept", "line", "hdrs", "stat", "open", "mmap"} => sent["client"] = <<>>
    /\ spc \in {"open", "mmap"} => result = STATIC
    /\ spc = "error" => result < 0 /\ sent["client"] \o out["server"] = ErrorText
    /\ spc = "static" => result = STATIC /\ sent["client"] \o out["server"] = StaticHead
    /\ spc = "body" => result = STATIC /\ sent["client"] \o out["server"] = StaticHead \o StaticBody
    /\ spc = "dynamic" => result = DYNAMIC /\ sent["client"] \o out["server"] = DynamicHead
    /\ spc = "wait" => result = DYNAMIC
    /\ gpc = "forked" => sent["client"] = DynamicHead
    /\ gpc = "program" => sent["client"] \o out["program"] = DynamicHead \o ProgramText
    /\ gpc = "zombie" => sent["client"] = Whole
    /\ spc \in {"close", "done"} => sent["client"] = Whole

(* What spoils the answer is not undone.                                   *)
LEMMA CleanBefore ==
  ASSUME ExchangeAssumption, IInv, Stages, BufTypes, Next, Clean'
  PROVE  Clean
PROOF
<1>1. CASE Server
  <2>1. UNCHANGED <<cpc, changes>>
    BY <1>1, ServerFrame, ExchangeAssumption
  <2>2. exit = "no"
    <3>1. spc # "dead"
      BY <1>1 DEF Server, Open_listenfd, HandleBegins, ServerReads, ServerReadFails, RequestLine,
         requestReadhdrs, Stat, OpenFile, MapFile, requestServeStatic, ServerWrites, rio_writen,
         ServerWriteFails, Fork, WaitPid, Answered, Close, Stages, Places
    <3> QED BY <3>1 DEF Stages, Places
  <2> QED BY <2>1, <2>2 DEF Clean
<1>2. CASE Program
  BY <1>2, ProgramFrame, ExchangeAssumption DEF Clean, fileVars, endVars
<1>3. CASE Client \/ ClientKilled
  <2>1. UNCHANGED <<fileVars, exit>>
    BY <1>3, ClientFrame, ExchangeAssumption
  <2>2. cpc \notin {"failed", "killed"}
    BY <1>3 DEF Client, ClientKilled, Open_clientfd, ClientWrites, ClientWritesLate,
       clientSend, ClientReads,
       PrintHeader, PrintBody, ClientDone, ClientFails
  <2> QED BY <2>1, <2>2 DEF Clean, fileVars
<1>4. CASE FileChanges \/ Finished
  BY <1>4 DEF FileChanges, Finished, vars, procVars, endVars, fileVars, Clean, Stages, StageTypes
<1> QED BY <1>1, <1>2, <1>3, <1>4 DEF Next

(* What is sent and what is in hand are the answer, whoever is writing it. *)
LEMMA AnswerSentNext ==
  ASSUME ExchangeAssumption, IInv, Stages, BufTypes, AnswerSent, Next
  PROVE  AnswerSent'
PROOF
<1> SUFFICES ASSUME Clean' PROVE AnswerSent'
  BY DEF AnswerSent
<1>0. /\ sent["client"] \in Seq(Bytes) /\ out["server"] \in Seq(Bytes) /\ out["program"] \in Seq(Bytes)
      /\ sent \in [Readers -> Seq(Bytes)] /\ out \in [Processes -> Seq(Bytes)]
      /\ "client" \in Readers /\ "server" \in Processes /\ "program" \in Processes
  BY ExchangeAssumption DEF ExchangeAssumption, IInv, RioInv, StreamTypes, Processes
<1>1. Clean /\ exit' = "no"
  BY CleanBefore, ExchangeAssumption DEF Clean
<1>2. \A s \in Seq(Bytes) : s \o <<>> = s /\ <<>> \o s = s
  OBVIOUS
<1>3. /\ ErrorText \in Seq(Bytes) /\ StaticHead \in Seq(Bytes) /\ StaticBody \in Seq(Bytes)
      /\ DynamicHead \in Seq(Bytes) /\ ProgramText \in Seq(Bytes)
  BY Texts
<1>4. /\ result < 0 => Answer = ErrorText
      /\ result = STATIC => Answer = StaticHead \o StaticBody
      /\ result = DYNAMIC => Answer = DynamicHead \o ProgramText
  BY DEF Answer, Stages, StageTypes, request_result, ERR501, ERR404, ERR403, DYNAMIC, STATIC
(* Some bytes of what a process has in hand go out. *)
<1>5. ASSUME NEW p \in {"server", "program"}, rio_writen(p)
      PROVE  sent'["client"] \o out'[p] = sent["client"] \o out[p]
  <2>1. PICK k \in 1..Len(out[p]) :
          /\ sent' = [sent EXCEPT !["client"] = @ \o SubSeq(out[p], 1, k)]
          /\ out' = [out EXCEPT ![p] = SubSeq(@, k + 1, Len(@))]
    BY <1>5 DEF rio_writen, write, Peer
  <2>2. /\ out[p] \in Seq(Bytes) /\ sent'["client"] = sent["client"] \o SubSeq(out[p], 1, k)
        /\ out'[p] = SubSeq(out[p], k + 1, Len(out[p]))
    BY <1>0, <2>1 DEF Processes
  <2>3. (sent["client"] \o SubSeq(out[p], 1, k)) \o SubSeq(out[p], k + 1, Len(out[p])) = sent["client"] \o out[p]
    BY <1>0, <2>2, CutAndJoin
  <2> QED BY <2>2, <2>3
<1>6. CASE Server
  <2>0. out'["program"] = out["program"]
    BY <1>6, ServerFrame, ExchangeAssumption
  <2>w. ASSUME result' = result, file' = file PROVE Whole' = Whole
    BY <2>w DEF Whole, NotRun, Answer
  <2>e. ASSUME NEW msg \in {"Open_listenfd", "Rio_readlineb", "Open", "Mmap", "Rio_writen", "Fork"},
               unix_error(msg)
        PROVE  FALSE
    BY <1>1, <2>e DEF unix_error
  <2>1. CASE Open_listenfd \/ ServerReadFails \/ OpenFile
    BY <1>1, <2>1, <2>e DEF Open_listenfd, ServerReadFails, OpenFile, AnswerSent, rioVars,
       Stages, Places, Answer
  <2>2. CASE HandleBegins \/ ServerReads
    <3>1. /\ sent' = sent /\ out' = out /\ UNCHANGED <<gpc, result>> /\ spc' \in {"line", "hdrs"}
          /\ spc \in {"accept", "line", "hdrs"}
      BY <2>2 DEF HandleBegins, FirstLine, rio_readlineb, ServerReads, procVars, endVars,
         rio_read, Refill,
                  Interrupted, EndOfFile, TakeByte
    <3> QED BY <1>1, <3>1 DEF AnswerSent, Stages, Places
  <2>3. CASE RequestLine
    <3>1. spc = "line" /\ sent' = sent /\ gpc' = gpc
      BY <2>3 DEF RequestLine, NextLine, rio_readlineb, rioVars
    <3>2. \/ spc' = "hdrs" /\ out' = out
          \/ spc' = "error" /\ result' = ERR501 /\ out' = [out EXCEPT !["server"] = ErrorText]
      BY <2>3 DEF RequestLine, requestError
    <3> QED BY <1>0, <1>1, <1>2, <1>3, <3>1, <3>2 DEF AnswerSent, Stages, Places, ERR501
  <2>4. CASE requestReadhdrs
    <3>1. spc = "hdrs" /\ spc' \in {"hdrs", "stat"} /\ sent' = sent /\ gpc' = gpc
      BY <2>4 DEF requestReadhdrs, NextLine, rio_readlineb, rioVars
    <3> QED BY <1>1, <3>1 DEF AnswerSent, Stages, Places
  <2>5. CASE Stat
    <3>1. spc = "stat" /\ sent' = sent /\ gpc' = gpc /\ sent["client"] = <<>> /\ gpc = "none"
      BY <1>1, <2>5 DEF Stat, rioVars, AnswerSent, Stages, Places, StageTypes
    <3>2. \/ spc' = "error" /\ result' < 0 /\ out' = [out EXCEPT !["server"] = ErrorText]
          \/ spc' = "open" /\ result' = STATIC
          \/ spc' = "dynamic" /\ result' = DYNAMIC /\ out' = [out EXCEPT !["server"] = DynamicHead]
      BY <2>5 DEF Stat, requestError
    <3> QED BY <1>0, <1>2, <1>3, <3>1, <3>2 DEF AnswerSent
  <2>6. CASE MapFile
    <3>1. spc = "mmap" /\ result = STATIC /\ sent' = sent /\ gpc' = gpc /\ sent["client"] = <<>> /\ gpc = "none" /\ spc' = "static"
          /\ out' = [out EXCEPT !["server"] = StaticHead] /\ result' = result
      BY <1>1, <2>6, <2>e DEF MapFile, rioVars, AnswerSent, Stages, Places, StageTypes
    <3> QED BY <1>0, <1>2, <1>3, <3>1 DEF AnswerSent
  <2>7. CASE requestServeStatic
    <3>1. spc = "static" /\ out["server"] = <<>> /\ spc' = "body" /\ sent' = sent /\ gpc' = gpc /\ gpc = "none"
          /\ out' = [out EXCEPT !["server"] = StaticBody] /\ result' = result
      BY <2>7 DEF requestServeStatic, rioVars, endVars, Stages, Places, StageTypes
    <3>2. result = STATIC /\ sent["client"] = StaticHead
      BY <1>0, <1>1, <1>2, <3>1 DEF AnswerSent
    <3> QED BY <1>0, <3>1, <3>2 DEF AnswerSent
  <2>8. CASE ServerWrites
    <3>1. sent'["client"] \o out'["server"] = sent["client"] \o out["server"]
          /\ UNCHANGED <<spc, gpc, result>> /\ spc \in {"error", "static", "body", "dynamic"} /\ gpc = "none"
      BY <1>5, <2>8 DEF ServerWrites, rio_writen, endVars, Stages, Places, StageTypes
    <3> QED BY <1>1, <3>1 DEF AnswerSent
  <2>9. CASE ServerWriteFails
    BY <2>9, <2>e DEF ServerWriteFails
  <2>10. CASE Fork
    <3>1. spc = "dynamic" /\ out["server"] = <<>> /\ spc' = "wait" /\ gpc' = "forked" /\ sent' = sent
          /\ result' = result
      BY <2>10, <2>e DEF Fork, rioVars
    <3>2. result = DYNAMIC /\ sent["client"] = DynamicHead
      BY <1>0, <1>1, <1>2, <3>1 DEF AnswerSent
    <3> QED BY <3>1, <3>2 DEF AnswerSent
  <2>11. CASE WaitPid
    <3>1. spc = "wait" /\ gpc = "zombie" /\ spc' = "close" /\ gpc' = "none" /\ sent' = sent /\ result' = result
          /\ file' = file
      BY <2>11 DEF WaitPid, rioVars, fileVars, endVars
    <3>2. sent["client"] = Whole
      BY <1>1, <3>1 DEF AnswerSent
    <3> QED BY <2>w, <3>1, <3>2 DEF AnswerSent
  <2>12. CASE Answered
    <3>1. spc \in {"error", "body"} /\ out["server"] = <<>> /\ spc' = "close" /\ sent' = sent /\ result' = result
          /\ gpc' = gpc /\ gpc = "none" /\ file' = file
      BY <2>12 DEF Answered, rioVars, fileVars, endVars, Stages, Places, StageTypes
    <3>2. sent["client"] = Answer /\ (result < 0 \/ result = STATIC)
      BY <1>0, <1>1, <1>2, <1>4, <3>1 DEF AnswerSent
    <3>3. sent["client"] = Whole
      BY <3>2 DEF Whole, NotRun, STATIC, DYNAMIC
    <3> QED BY <2>w, <3>1, <3>3 DEF AnswerSent
  <2>13. CASE Close
    <3>1. MayEnd
      BY <2>13, LetGoEnds, ExchangeAssumption DEF Close, Stages
    <3>2. spc = "close" /\ spc' = "done" /\ sent' = sent /\ result' = result /\ gpc' = gpc /\ gpc = "none"
          /\ file' = file
      BY <2>13, <3>1 DEF Close, MayEnd, fileVars, endVars, Stages, Places, StageTypes
    <3> QED BY <1>1, <2>w, <3>2 DEF AnswerSent
  <2> QED
    BY <1>6, <2>1, <2>2, <2>3, <2>4, <2>5, <2>6, <2>7, <2>8, <2>9, <2>10, <2>11, <2>12,
       <2>13 DEF Server
<1>7. CASE Program
  <2>1. spc' = spc /\ result' = result /\ file' = file /\ out'["server"] = out["server"]
    BY <1>7, ProgramFrame, ExchangeAssumption DEF fileVars, endVars
  <2>2. ASSUME gpc \in {"forked", "program"}, UNCHANGED gpc \/ gpc' \in {"program", "zombie"},
               gpc' = "forked" => sent'["client"] = DynamicHead,

                             gpc' = "program" => sent'["client"] \o out'["program"] = DynamicHead \o ProgramText,
               gpc' = "zombie" => sent'["client"] = Whole'
        PROVE  AnswerSent'
    <3>1. spc = "wait"
      BY <2>2 DEF Stages, Places
    <3> QED BY <1>1, <2>1, <2>2, <3>1 DEF AnswerSent
  <2>3. CASE Execve
    <3>1. gpc = "forked" /\ spc = "wait" /\ sent["client"] = DynamicHead /\ result = DYNAMIC
      BY <1>1, <2>3 DEF Execve, AnswerSent, Stages, Places
    <3>2. CASE file.runs
      <4>1. gpc' = "program" /\ out'["program"] = ProgramText /\ sent' = sent
        BY <1>0, <2>3, <3>2 DEF Execve, rioVars
      <4> QED BY <2>2, <3>1, <4>1
    <3>3. CASE ~file.runs
      <4>1. gpc' = "zombie" /\ sent' = sent
        BY <2>3, <3>3, LetGoEnds, ExchangeAssumption DEF Execve, MayEnd, Stages
      <4>2. Whole' = DynamicHead
        BY <2>1, <3>1, <3>3 DEF Whole, NotRun
      <4> QED BY <2>2, <3>1, <4>1, <4>2
    <3> QED BY <3>2, <3>3
  <2>4. CASE ProgramWrites
    <3>1. gpc = "program" /\ gpc' = gpc
          /\ sent'["client"] \o out'["program"] = sent["client"] \o out["program"]
      BY <1>5, <2>4 DEF ProgramWrites, rio_writen, Stages, Places
    <3> QED BY <1>1, <2>2, <3>1 DEF AnswerSent
  <2>5. CASE ProgramEnds
    <3>1. gpc = "program" /\ gpc' = "zombie" /\ out["program"] = <<>>
      BY <1>1, <2>5 DEF ProgramEnds, Stages, Ends, Places, Clean
    <3>2. sent' = sent
      BY <2>5, LetGoEnds, ExchangeAssumption DEF ProgramEnds, MayEnd, Stages
    <3>3. sent["client"] = DynamicHead \o ProgramText
      BY <1>0, <1>1, <1>2, <3>1 DEF AnswerSent
    <3>4. spc = "wait" /\ result = DYNAMIC /\ file.runs
      BY <1>1, <3>1 DEF AnswerSent, Stages, Places, FileSeen
    <3>5. Whole' = DynamicHead \o ProgramText
      BY <1>4, <2>1, <3>4 DEF Whole, NotRun, Answer
    <3> QED BY <2>2, <3>1, <3>2, <3>3, <3>5
  <2> QED BY <1>7, <2>3, <2>4, <2>5 DEF Program
<1>8. CASE Client \/ ClientKilled
  <2>1. /\ sent'["client"] = sent["client"] /\ out'["server"] = out["server"] /\ out'["program"] = out["program"]
        /\ UNCHANGED <<spc, gpc, result, file>>
    BY <1>8, ClientFrame, ExchangeAssumption DEF fileVars
  <2>2. Whole' = Whole
    BY <2>1 DEF Whole, NotRun, Answer
  <2> QED BY <1>1, <2>1, <2>2 DEF AnswerSent
<1>9. CASE FileChanges
  <2>1. /\ UNCHANGED <<sent, out, spc, gpc, result>>
        /\ spc \notin {"close", "done"} /\ gpc # "zombie"
    BY <1>9 DEF FileChanges, rioVars, procVars, endVars, Stages, Places
  <2> QED BY <1>1, <2>1 DEF AnswerSent
<1>10. CASE Finished
  <2>1. UNCHANGED <<sent, out, spc, gpc, result, file>>
    BY <1>10 DEF Finished, vars, rioVars, procVars, fileVars, endVars
  <2>2. Whole' = Whole
    BY <2>1 DEF Whole, NotRun, Answer
  <2> QED BY <1>1, <2>1, <2>2 DEF AnswerSent
<1> QED BY <1>6, <1>7, <1>8, <1>9, <1>10 DEF Next

-----------------------------------------------------------------------------
(* The answer: what is printed                                             *)

(* What the client has printed, and what it has in its buffer: all it got. *)
(* The blank line is printed as nothing.                                   *)
AsGot ==
    LET g == got["client"]
        p == Partial("client")
    IN  /\ cpc \in {"start", "refused", "send"} => g = <<>> /\ header = <<>> /\ body = <<>>
        /\ cpc = "header" =>
             /\ header \o p = g /\ body = <<>> /\ Len(header) \in {0, 2}
             /\ IF InCall("client") THEN Len(p) = n["client"] - 1 /\ Len(p) < 2 ELSE Len(p) = 2
        /\ cpc \in {"body", "done"} =>
             /\ Len(header) = 2 /\ header \o Blank \o body \o p = g
             /\ ~InCall("client") /\ rc["client"] = 0 => g = sent["client"]
        /\ cpc = "done" => ~InCall("client") /\ rc["client"] = 0

(* The stream has ended behind the line of an answer that is cut. *)
Short ==
  /\ NotRun /\ ended["client"] # "no" /\ cpc \in {"header", "body", "done"}
  /\ sent["client"] = DynamicHead /\ got["client"] = DynamicHead
  /\ header = DynamicHead /\ body = <<>>
  /\ IF InCall("client") THEN cpc = "body" /\ n["client"] = 1 ELSE rc["client"] = 0

AnswerPrinted == Clean => AsGot \/ Short

Wholes == {ErrorText, StaticHead \o StaticBody, DynamicHead \o ProgramText}

(* Where the bytes of two sequences are when they are joined               *)
LEMMA JoinParts ==
  ASSUME NEW s \in Seq(Bytes), NEW u \in Seq(Bytes)
  PROVE  /\ s \o u \in Seq(Bytes) /\ Len(s \o u) = Len(s) + Len(u)
         /\ Len(s) \in Nat /\ Len(u) \in Nat
         /\ \A i \in 1..Len(s) : (s \o u)[i] = s[i]
         /\ \A i \in 1..Len(u) : (s \o u)[Len(s) + i] = u[i]
PROOF
  OBVIOUS

(* Joining is associative.                                                 *)
LEMMA JoinThree ==
  ASSUME NEW x \in Seq(Bytes), NEW y \in Seq(Bytes), NEW z \in Seq(Bytes)
  PROVE  y \o z \in Seq(Bytes) /\ x \o (y \o z) = (x \o y) \o z
PROOF
<1>1. y \o z \in Seq(Bytes)
  OBVIOUS
<1>2. x \o (y \o z) = (x \o y) \o z
  OBVIOUS
<1> QED BY <1>1, <1>2

(* The first four bytes of a line of two, a blank line and more            *)
LEMMA LineAndBlank ==
  ASSUME NEW a \in Bytes, NEW b \in Seq(Bytes)
  PROVE  LET w == (<<a, LF>> \o Blank) \o b
         IN  /\ w \in Seq(Bytes) /\ Len(w) = 4 + Len(b)
             /\ w[1] = a /\ w[2] = LF /\ w[3] = CR /\ w[4] = LF
PROOF
<1> DEFINE x == <<a, LF>>
           y == x \o Blank
<1>1. LF \in Bytes /\ CR \in Bytes
  BY DEF Bytes
<1>2. x \in Seq(Bytes) /\ Len(x) = 2 /\ x[1] = a /\ x[2] = LF
  BY <1>1
<1>3. Blank \in Seq(Bytes) /\ Len(Blank) = 2 /\ Blank[1] = CR /\ Blank[2] = LF
  BY <1>1 DEF Blank
<1> HIDE DEF x
<1>4. y \in Seq(Bytes) /\ Len(y) = 4 /\ y[1] = a /\ y[2] = LF /\ y[3] = CR /\ y[4] = LF
  <2>1. /\ x \o Blank \in Seq(Bytes) /\ Len(x \o Blank) = Len(x) + Len(Blank)
        /\ \A i \in 1..Len(x) : (x \o Blank)[i] = x[i]
        /\ \A i \in 1..Len(Blank) : (x \o Blank)[Len(x) + i] = Blank[i]
    BY <1>2, <1>3, JoinParts
  <2>2. y[2 + 1] = CR /\ y[2 + 2] = LF /\ y[1] = a /\ y[2] = LF
    BY <1>2, <1>3, <2>1
  <2> QED BY <1>2, <1>3, <2>1, <2>2
<1> HIDE DEF y
<1>5. y \o b \in Seq(Bytes) /\ Len(y \o b) = 4 + Len(b) /\ \A i \in 1..4 : (y \o b)[i] = y[i]
  <2>1. /\ y \o b \in Seq(Bytes) /\ Len(y \o b) = Len(y) + Len(b)
        /\ \A i \in 1..Len(y) : (y \o b)[i] = y[i]
    BY <1>4, JoinParts
  <2> QED BY <1>4, <2>1
<1>6. /\ y \o b \in Seq(Bytes) /\ Len(y \o b) = 4 + Len(b)
      /\ (y \o b)[1] = a /\ (y \o b)[2] = LF /\ (y \o b)[3] = CR /\ (y \o b)[4] = LF
  BY <1>4, <1>5
<1> QED BY <1>6 DEF y, x

(* An answer is a line, a blank line and a body. *)
LEMMA Shape ==
  ASSUME NEW w \in Wholes
  PROVE  /\ w \in Seq(Bytes) /\ Len(w) >= 5
         /\ w[1] \notin {CR, LF} /\ w[2] = LF /\ w[3] = CR /\ w[4] = LF
PROOF
<1>1. PICK a \in {"e", "s", "d"}, b \in {<<"m">>, StaticBody, <<"p", LF>>} : w = (<<a, LF>> \o Blank) \o b
  <2>1. CASE w = ErrorText
    BY <2>1 DEF ErrorText
  <2>2. CASE w = StaticHead \o StaticBody
    BY <2>2 DEF StaticHead
  <2>3. CASE w = DynamicHead \o ProgramText
    <3>1. /\ <<"d", LF>> \in Seq(Bytes) /\ Blank \in Seq(Bytes) /\ <<"p", LF>> \in Seq(Bytes)
      BY DEF Blank, Bytes, CR, LF
    <3>2. \A x, y, z \in Seq(Bytes) : x \o (y \o z) = (x \o y) \o z
      OBVIOUS
    <3>3. w = (<<"d", LF>> \o Blank) \o <<"p", LF>>
      BY <2>3, <3>1, <3>2 DEF DynamicHead, ProgramText
    <3> QED BY <3>3
  <2> QED BY <2>1, <2>2, <2>3 DEF Wholes
<1>2. a \in Bytes /\ a \notin {CR, LF}
  BY DEF Bytes, CR, LF
<1>3. b \in Seq(Bytes) /\ Len(b) >= 1 /\ Len(b) \in Nat
  <2>1. /\ <<"m">> \in Seq(Bytes) /\ Len(<<"m">>) = 1
        /\ <<"p", LF>> \in Seq(Bytes) /\ Len(<<"p", LF>>) = 2
    BY DEF Bytes, LF
  <2>2. StaticBody \in Seq(Bytes) /\ Len(StaticBody) = 2
    BY DEF StaticBody, Bytes
  <2>3. b = <<"m">> \/ b = StaticBody \/ b = <<"p", LF>>
    BY <1>1
  <2>4. b \in Seq(Bytes)
    BY <2>1, <2>2, <2>3
  <2>5. Len(b) \in {1, 2}
    BY <2>1, <2>2, <2>3
  <2> QED BY <2>4, <2>5
<1>4. /\ w \in Seq(Bytes) /\ Len(w) = 4 + Len(b)
      /\ w[1] = a /\ w[2] = LF /\ w[3] = CR /\ w[4] = LF
  BY <1>1, <1>2, <1>3, LineAndBlank
<1> QED BY <1>2, <1>3, <1>4

(* What begins a part of an answer begins the answer.                      *)
LEMMA InWhole ==
  ASSUME NEW s \in Seq(Bytes), NEW q \in Seq(Bytes), NEW b \in Seq(Bytes), (s \o q) \o b \in Wholes
  PROVE  \E u \in Seq(Bytes), w \in Wholes : s \o u = w
PROOF
<1>1. q \o b \in Seq(Bytes) /\ s \o (q \o b) = (s \o q) \o b
  BY JoinThree
<1> QED BY <1>1

(* The bytes sent so far are those of an answer.                           *)
LEMMA SentShape ==
  ASSUME ExchangeAssumption, IInv, Stages, AnswerSent, Clean
  PROVE  /\ Len(sent["client"]) >= 1 => sent["client"][1] \notin {CR, LF}
         /\ Len(sent["client"]) >= 2 => sent["client"][2] = LF
         /\ Len(sent["client"]) >= 3 => sent["client"][3] = CR
         /\ Len(sent["client"]) >= 4 => sent["client"][4] = LF
         /\ ended["client"] # "no" =>
              Len(sent["client"]) >= 5 \/ (NotRun /\ sent["client"] = DynamicHead)
PROOF
<1>0. sent["client"] \in Seq(Bytes) /\ out["server"] \in Seq(Bytes) /\ out["program"] \in Seq(Bytes)
  BY ExchangeAssumption DEF ExchangeAssumption, IInv, RioInv, StreamTypes, Processes
<1>1. \A s \in Seq(Bytes) : s \o <<>> = s /\ <<>> \o s = s
  OBVIOUS
<1>2. Answer \in Wholes
  BY DEF Answer, Wholes, Stages, StageTypes, request_result, ERR501, ERR404, ERR403, DYNAMIC,
     STATIC
<1>3. ended["client"] # "no" => sent["client"] = Whole
  BY DEF Stages, Ends, Places, AnswerSent, Clean
<1>w. sent["client"] = Whole => sent["client"] \in Wholes \/ (NotRun /\ sent["client"] = DynamicHead)
  BY <1>2 DEF Whole
<1>4. \E u \in Seq(Bytes), w \in Wholes : sent["client"] \o u = w
  <2> SUFFICES ASSUME NEW s, s = sent["client"] PROVE \E u \in Seq(Bytes), w \in Wholes : s \o u = w
    OBVIOUS
  <2>0. s \in Seq(Bytes) /\ s \o <<>> = s /\ \A x \in Seq(Bytes) : <<>> \o x = x
    BY <1>0, <1>1
  <2>1. /\ \A w \in Wholes : w \in Seq(Bytes)
        /\ ErrorText \in Wholes /\ StaticHead \o StaticBody \in Wholes /\ DynamicHead \o ProgramText \in Wholes
        /\ <<>> \in Seq(Bytes) /\ StaticBody \in Seq(Bytes) /\ ProgramText \in Seq(Bytes)
        /\ StaticHead \in Seq(Bytes) /\ DynamicHead \in Seq(Bytes)
    BY Shape, Texts DEF Wholes
  <2>2. CASE spc \in {"start", "accept", "line", "hdrs", "stat", "open", "mmap"}
    <3>1. s = <<>>
      BY <2>2 DEF AnswerSent
    <3> QED BY <2>0, <2>1, <3>1
  <2>3. CASE spc \in {"close", "done"}
    <3>1. s \in Wholes \/ s = DynamicHead
      BY <1>w, <2>3 DEF AnswerSent
    <3> QED BY <2>0, <2>1, <3>1
  <2>4. CASE spc \in {"error", "body"}
    BY <1>0, <2>1, <2>4 DEF AnswerSent
  <2>5. ASSUME NEW h \in Seq(Bytes), NEW b \in Seq(Bytes), NEW q \in Seq(Bytes), h \o b \in Wholes, s \o q = h
        PROVE  \E u \in Seq(Bytes), w \in Wholes : s \o u = w
    BY <2>0, <2>5, InWhole
  <2>6. CASE spc \in {"static", "dynamic"}
    BY <1>0, <2>1, <2>5, <2>6 DEF AnswerSent
  <2>7. CASE spc = "wait"
    <3>1. CASE gpc = "forked"
      BY <1>0, <1>1, <2>1, <2>5, <3>1 DEF AnswerSent
    <3>2. CASE gpc = "program"
      BY <1>0, <2>1, <3>2 DEF AnswerSent
    <3>3. CASE gpc = "zombie"
      <4>1. s \in Wholes \/ s = DynamicHead
        BY <1>w, <3>3 DEF AnswerSent
      <4> QED BY <2>0, <2>1, <4>1
    <3> QED BY <2>7, <3>1, <3>2, <3>3 DEF Stages, StageTypes, Places
  <2> QED BY <2>2, <2>3, <2>4, <2>6, <2>7 DEF Stages, StageTypes, Places, Clean
<1>5. PICK u \in Seq(Bytes), w \in Wholes : sent["client"] \o u = w
  BY <1>4
<1>6. \A i \in 1..Len(sent["client"]) : sent["client"][i] = w[i]
  BY <1>0, <1>5, JoinPrefix
<1>7. Len(sent["client"]) \in Nat
  BY <1>0
<1>8. \A i \in 1..4 : Len(sent["client"]) >= i => sent["client"][i] = w[i]
  BY <1>6, <1>7
<1> QED BY <1>3, <1>w, <1>8, Shape

(* A byte at the end of the second part is one at the end of both.         *)
LEMMA JoinAppend ==
  ASSUME NEW x \in Seq(Bytes), NEW y \in Seq(Bytes), NEW c \in Bytes
  PROVE  /\ x \o Append(y, c) = Append(x \o y, c) /\ Append(y, c) \in Seq(Bytes)
         /\ x \o y \in Seq(Bytes)
PROOF
<1>1. Append(y, c) \in Seq(Bytes) /\ x \o y \in Seq(Bytes)
  OBVIOUS
<1>2. x \o Append(y, c) = Append(x \o y, c)
  OBVIOUS
<1> QED BY <1>1, <1>2

(* The byte that comes next is part of the line the client is reading: the *)
(* status line or the blank one, each of two bytes.                        *)
LEMMA HeaderByte ==
  ASSUME RioAssumption, RequestsAssumption, ExchangeAssumption, IInv, Stages, BufTypes, AnswerSent,
         AsGot, Clean, cpc = "header", TakeByte("client"), UNCHANGED <<cpc, header, body>>
  PROVE  AsGot'
PROOF
<1> DEFINE c == rio_buf["client"][rio_bufptr["client"]]
           g == got["client"]
           p == Partial("client")
           s == sent["client"]
<1>0. "client" \in Readers
  BY ExchangeAssumption DEF ExchangeAssumption
<1>1. c \in Bytes /\ c = s[Len(g) + 1] /\ Len(g) < Len(s)
  BY <1>0, TakesNextByte, RioAssumption DEF IInv
<1>2. s \in Seq(Bytes) /\ g \in Seq(Bytes) /\ usrbuf["client"] \in Seq(Bytes) /\ header \in Seq(Bytes)
      /\ n["client"] \in Nat /\ rc["client"] \in Nat
  BY <1>0 DEF IInv, RioInv, StreamTypes, BufTypes, Stages, StageTypes
<1>3. n["client"] # 0 /\ p \in Seq(Bytes) /\ (n["client"] = 1 => p = <<>>)
      /\ (n["client"] # 1 => p = usrbuf["client"])
  BY <1>2 DEF TakeByte, InCall, Partial
<1>4. header \o p = g /\ body = <<>> /\ Len(header) \in {0, 2} /\ Len(p) = n["client"] - 1 /\ Len(p) < 2
  BY DEF AsGot, TakeByte
<1>5. /\ usrbuf'["client"] = Append(p, c) /\ got'["client"] = Append(g, c)
      /\ n'["client"] = IF c = LF \/ n["client"] + 1 = MAXLINE THEN 0 ELSE n["client"] + 1
      /\ c = LF => rc'["client"] = n["client"]
  <2>1. \A b \in Bytes : Append(<<>>, b) = <<b>>
    OBVIOUS
  <2> QED
    BY <1>0, <1>1, <1>2, <1>3, <2>1
       DEF TakeByte, IInv, RioInv, StreamTypes, BufTypes, Stages, StageTypes
<1> HIDE DEF c, g, p, s
<1>6. Len(header) \in Nat /\ Len(p) \in Nat /\ Len(g) = Len(header) + Len(p) /\ Len(s) \in Nat
  BY <1>2, <1>3, <1>4
<1>a. Len(p) = 0 \/ Len(p) = 1
  <2>1. \A m \in Nat : m < 2 => m = 0 \/ m = 1
    OBVIOUS
  <2>2. Len(p) \in Nat /\ Len(p) < 2
    BY <1>4, <1>6
  <2> QED BY <2>1, <2>2
<1>7. /\ Len(p) = 0 => c # LF
      /\ Len(p) = 1 => c = LF
  <2>1. /\ Len(s) >= 1 => s[1] \notin {CR, LF}
        /\ Len(s) >= 2 => s[2] = LF
        /\ Len(s) >= 3 => s[3] = CR
        /\ Len(s) >= 4 => s[4] = LF
    BY SentShape, ExchangeAssumption DEF s
  <2>2. CR # LF
    BY DEF CR, LF
  <2>3. /\ Len(p) = 0 => Len(g) + 1 \in {1, 3}
        /\ Len(p) = 1 => Len(g) + 1 \in {2, 4}
    <3>1. Len(header) = 0 \/ Len(header) = 2
      BY <1>4
    <3>2. \A a, b : (a = 0 \/ a = 2) => /\ b = 0 => a + b + 1 \in {1, 3}
                                        /\ b = 1 => a + b + 1 \in {2, 4}
      OBVIOUS
    <3>3. Len(g) + 1 = Len(header) + Len(p) + 1
      BY <1>6
    <3> QED BY <3>1, <3>2, <3>3
  <2>4. Len(g) + 1 <= Len(s) /\ c = s[Len(g) + 1]
    BY <1>1, <1>2, <1>6
  <2>5. \A k \in {1, 3} : k <= Len(s) => s[k] # LF
    BY <1>6, <2>1, <2>2
  <2>6. \A k \in {2, 4} : k <= Len(s) => s[k] = LF
    BY <1>6, <2>1
  <2> QED BY <2>3, <2>4, <2>5, <2>6
<1>8. Partial("client")' = Append(p, c) /\ header' \o Append(p, c) = got'["client"]
  <2>1. header \o Append(p, c) = Append(header \o p, c)
    BY <1>1, <1>2, <1>3, JoinAppend
  <2>2. n'["client"] # 1 /\ (n'["client"] = 0 => rc'["client"] # 0)
    <3>1. n["client"] \in {1, 2} /\ (n["client"] = 1 <=> Len(p) = 0) /\ (n["client"] = 2 <=> Len(p) = 1)
      BY <1>2, <1>3, <1>4, <1>6
    <3> QED BY <1>5, <1>7, <3>1, RequestsAssumption, RioAssumption
         DEF RequestsAssumption, RioAssumption
  <2> QED BY <1>4, <1>5, <2>1, <2>2 DEF Partial
<1>9. Len(Append(p, c)) = Len(p) + 1
  BY <1>1, <1>3
<1>10. IF InCall("client")' THEN Len(Append(p, c)) = n'["client"] - 1 /\ Len(Append(p, c)) < 2
       ELSE Len(Append(p, c)) = 2
  <2>1. CASE Len(p) = 0
    <3>1. n["client"] = 1 /\ c # LF /\ 2 # MAXLINE
      BY <1>2, <1>4, <1>7, <2>1, RequestsAssumption, RioAssumption
         DEF RequestsAssumption, RioAssumption
    <3>2. n'["client"] = 2 /\ Len(Append(p, c)) = 1
      BY <1>5, <1>9, <2>1, <3>1
    <3> QED BY <3>2 DEF InCall
  <2>2. CASE Len(p) = 1
    <3>1. n'["client"] = 0 /\ Len(Append(p, c)) = 2
      BY <1>5, <1>7, <1>9, <2>2
    <3> QED BY <3>1 DEF InCall
  <2> QED BY <1>a, <2>1, <2>2
<1> QED BY <1>4, <1>8, <1>10 DEF AsGot

(* The next byte of the body                                               *)
LEMMA BodyByte ==
  ASSUME RioAssumption, RequestsAssumption, ExchangeAssumption, IInv, Stages, BufTypes,
         AsGot, Clean, cpc = "body", TakeByte("client"), UNCHANGED <<cpc, header, body>>
  PROVE  AsGot'
PROOF
<1> DEFINE c == rio_buf["client"][rio_bufptr["client"]]
           g == got["client"]
           p == Partial("client")
           h == header \o Blank \o body
<1>0. "client" \in Readers
  BY ExchangeAssumption DEF ExchangeAssumption
<1>1. c \in Bytes
  BY <1>0, TakesNextByte, RioAssumption DEF IInv
<1>2. g \in Seq(Bytes) /\ usrbuf["client"] \in Seq(Bytes) /\ n["client"] \in Nat /\ rc["client"] \in Nat
      /\ header \in Seq(Bytes) /\ body \in Seq(Bytes)
  BY <1>0 DEF IInv, RioInv, StreamTypes, BufTypes, Stages, StageTypes
<1>3. n["client"] # 0 /\ p \in Seq(Bytes) /\ (n["client"] = 1 => p = <<>>)
      /\ (n["client"] # 1 => p = usrbuf["client"])
  BY <1>2 DEF TakeByte, InCall, Partial
<1>4. h \o p = g /\ Len(header) = 2
  BY DEF AsGot
<1>5. /\ usrbuf'["client"] = Append(p, c) /\ got'["client"] = Append(g, c)
      /\ n'["client"] \in {0, n["client"] + 1}
      /\ n'["client"] = 0 => rc'["client"] \in {n["client"], n["client"] + 1}
  <2>1. \A b \in Bytes : Append(<<>>, b) = <<b>>
    OBVIOUS
  <2>2. /\ got \in [Readers -> Seq(Bytes)] /\ usrbuf \in [Readers -> Seq(Bytes)]
        /\ n \in [Readers -> Nat] /\ rc \in [Readers -> Nat]
    BY DEF IInv, RioInv, StreamTypes, BufTypes, Stages, StageTypes
  <2>3. usrbuf'["client"] = Append(p, c) /\ got'["client"] = Append(g, c)
    BY <1>0, <1>1, <1>2, <1>3, <2>1, <2>2 DEF TakeByte
  <2>4. /\ n'["client"] \in {0, n["client"] + 1}
        /\ n'["client"] = 0 => rc'["client"] \in {n["client"], n["client"] + 1}
    BY <1>0, <1>2, <2>2 DEF TakeByte
  <2> QED BY <2>3, <2>4
<1>6. h \in Seq(Bytes)
  <2>1. \A x, y \in Seq(Bytes) : x \o y \in Seq(Bytes)
    OBVIOUS
  <2>2. Blank \in Seq(Bytes)
    BY DEF Blank, Bytes, CR, LF
  <2>3. header \o Blank \in Seq(Bytes)
    BY <1>2, <2>1, <2>2
  <2> QED BY <1>2, <2>1, <2>3
<1> HIDE DEF c, g, p, h
<1>7. h \o Append(p, c) = got'["client"]
  <2>1. h \o Append(p, c) = Append(h \o p, c)
    BY <1>1, <1>3, <1>6, JoinAppend
  <2> QED BY <1>4, <1>5, <2>1
<1>8. /\ n'["client"] # 1 /\ (n'["client"] = 0 => rc'["client"] # 0)
      /\ Partial("client")' = Append(p, c)
  BY <1>2, <1>3, <1>5 DEF Partial
<1> QED BY <1>4, <1>7, <1>8 DEF AsGot, InCall, h

(* Nothing that the client sees moves, and its stream does not grow once *)
(* it has ended.                                                         *)
LEMMA StillPrinted ==
  ASSUME Stages, AsGot, Clean, Untouched("client"), UNCHANGED <<cpc, header, body>>,
         sent'["client"] = sent["client"] \/ ended["client"] = "no"
  PROVE  AsGot'
PROOF
<1>1. /\ Partial("client")' = Partial("client") /\ InCall("client")' = InCall("client")
      /\ got'["client"] = got["client"] /\ n'["client"] = n["client"] /\ rc'["client"] = rc["client"]
  BY DEF Untouched, Partial, InCall
<1>2. cpc \in {"body", "done"} /\ ~InCall("client") /\ rc["client"] = 0 => sent'["client"] = sent["client"]
  BY DEF Stages, Ends
<1> QED BY <1>1, <1>2 DEF AsGot

(* The end of the stream: it comes in the header only if the answer is cut. *)
LEMMA EndPrinted ==
  ASSUME RioAssumption, RequestsAssumption, ExchangeAssumption, IInv, Stages, BufTypes, AnswerSent,
         AsGot, Clean, cpc \in {"header", "body"}, EndOfFile("client"),
         UNCHANGED <<cpc, header, body, file, result>>
  PROVE  AsGot' \/ Short'
PROOF
<1> DEFINE g == got["client"]
           p == Partial("client")
           s == sent["client"]
<1>0. "client" \in Readers
  BY ExchangeAssumption DEF ExchangeAssumption
<1>1. /\ g \in Seq(Bytes) /\ s \in Seq(Bytes) /\ n["client"] \in Nat /\ rc["client"] \in Nat
      /\ taken["client"] \in Nat /\ rio_cnt["client"] \in Int /\ header \in Seq(Bytes)
      /\ usrbuf["client"] \in Seq(Bytes) /\ n \in [Readers -> Nat] /\ rc \in [Readers -> Nat]
  BY <1>0 DEF IInv, RioInv, StreamTypes, BufTypes, Stages, StageTypes
<1>2. /\ n["client"] # 0 /\ rio_cnt["client"] <= 0 /\ Len(s) - taken["client"] = 0 /\ ended["client"] = "eof"
      /\ rc' = [rc EXCEPT !["client"] = IF n["client"] = 1 THEN 0 ELSE n["client"]]
      /\ n' = [n EXCEPT !["client"] = 0] /\ got' = got /\ usrbuf' = usrbuf /\ sent' = sent
  BY DEF EndOfFile, Reading, InCall, Unread
<1>3. Len(g) = Len(s) /\ Len(g) \in Nat /\ \A i \in 1..Len(g) : g[i] = s[i]
  <2>1. Len(g) + (IF rio_cnt["client"] > 0 THEN rio_cnt["client"] ELSE 0) = taken["client"]
        /\ \A i \in 1..Len(g) : g[i] = s[i]
    BY <1>0 DEF IInv, RioInv, StreamInOrder, InOrder
  <2>2. Len(g) \in Nat /\ Len(s) \in Nat
    BY <1>1
  <2>3. Len(g) + 0 = taken["client"]
    BY <1>1, <1>2, <2>1
  <2>4. Len(g) = Len(s)
    BY <1>1, <1>2, <2>2, <2>3
  <2> QED BY <2>1, <2>2, <2>4
<1>4. g = s
  <2>1. \A x, y \in Seq(Bytes) : Len(x) = Len(y) /\ (\A i \in 1..Len(x) : x[i] = y[i]) => x = y
    OBVIOUS
  <2>2. g \in Seq(Bytes) /\ s \in Seq(Bytes)
    BY <1>1
  <2> HIDE DEF g, s
  <2> QED BY <1>3, <2>1, <2>2
<1>5. p \in Seq(Bytes)
  BY <1>1 DEF Partial
<1>6. CASE cpc = "header"
  <2>1. /\ header \o p = g /\ Len(header) \in {0, 2} /\ Len(p) < 2 /\ body = <<>>
        /\ Len(p) = n["client"] - 1
    BY <1>2, <1>6 DEF AsGot, InCall
  <2> HIDE DEF g, p, s
  <2>2. Len(g) = Len(header) + Len(p) /\ Len(p) \in Nat /\ Len(header) \in Nat
    BY <1>1, <1>5, <2>1
  <2>3. Len(g) < 5
    BY <2>1, <2>2
  <2>4. Len(s) >= 5 \/ (NotRun /\ s = DynamicHead)
    BY <1>2, SentShape, ExchangeAssumption DEF s
  <2>5. NotRun /\ g = DynamicHead /\ s = DynamicHead
    BY <1>4, <2>2, <2>3, <2>4
  <2>6. Len(g) = 2
    <3>1. Len(DynamicHead) = 2
      BY DEF DynamicHead
    <3> QED BY <2>5, <3>1
  <2>7. Len(header) = 2 /\ Len(p) = 0
    <3>1. \A a, b \in Nat : a \in {0, 2} /\ b < 2 /\ a + b = 2 => a = 2 /\ b = 0
      OBVIOUS
    <3>2. Len(header) \in {0, 2} /\ Len(p) < 2
      BY <2>1
    <3>3. Len(header) + Len(p) = 2
      BY <2>2, <2>6
    <3> QED BY <2>2, <3>1, <3>2, <3>3
  <2>8. header = DynamicHead
    <3>1. p = <<>> /\ \A x \in Seq(Bytes) : x \o <<>> = x
      BY <1>5, <2>7
    <3> QED BY <1>1, <2>1, <2>5, <3>1
  <2>9. n'["client"] = 0 /\ rc'["client"] = 0
    <3>1. n["client"] = 1
      BY <1>1, <2>1, <2>7
    <3> QED BY <1>0, <1>1, <1>2, <3>1
  <2>10. got'["client"] = DynamicHead /\ sent'["client"] = DynamicHead /\ ended'["client"] # "no"
    BY <1>2, <2>5 DEF g, s, EndOfFile
  <2>11. NotRun'
    BY <2>5 DEF NotRun
  <2> QED BY <1>6, <2>1, <2>8, <2>9, <2>10, <2>11 DEF Short, InCall
<1>7. CASE cpc = "body"
  <2>1. Len(header) = 2 /\ header \o Blank \o body \o p = g
    BY <1>7 DEF AsGot
  <2>2. n'["client"] = 0 /\ rc'["client"] = (IF n["client"] = 1 THEN 0 ELSE n["client"])
    BY <1>0, <1>1, <1>2
  <2>3. Partial("client")' = p
    BY <1>2, <2>2 DEF Partial
  <2>4. got'["client"] = g /\ sent'["client"] = g
    BY <1>2, <1>4
  <2> HIDE DEF g, p, s
  <2> QED BY <1>7, <2>1, <2>3, <2>4 DEF AsGot
<1> QED BY <1>6, <1>7

(* clientPrint prints the line that is complete, or sees the blank one. *)
LEMMA HeaderPrinted ==
  ASSUME RioAssumption, RequestsAssumption, ExchangeAssumption, IInv, Stages, BufTypes, AnswerSent,
         AsGot, Clean, PrintHeader
  PROVE  AsGot'
PROOF
<1> DEFINE g == got["client"]
           p == usrbuf["client"]
           s == sent["client"]
<1>0. "client" \in Readers
  BY ExchangeAssumption DEF ExchangeAssumption
<1>1. /\ g \in Seq(Bytes) /\ s \in Seq(Bytes) /\ p \in Seq(Bytes) /\ header \in Seq(Bytes)
      /\ rc["client"] \in Nat /\ n \in [Readers -> Nat]
  BY <1>0 DEF IInv, RioInv, StreamTypes, BufTypes, Stages, StageTypes
<1>2. /\ cpc = "header" /\ ~InCall("client") /\ n["client"] = 0
      /\ n' = [n EXCEPT !["client"] = 1] /\ got' = got /\ body' = body
  BY DEF PrintHeader, NextLine, rio_readlineb, InCall
<1>3. /\ header \o Partial("client") = g /\ body = <<>> /\ Len(header) \in {0, 2}
      /\ Len(Partial("client")) = 2
  BY <1>2 DEF AsGot
<1>4. Partial("client") = p /\ rc["client"] > 0
  <2>1. Len(<<>>) # 2
    OBVIOUS
  <2> QED BY <1>1, <1>2, <1>3, <2>1 DEF Partial
<1>5. Len(g) = Len(header) + 2 /\ \A i \in 1..2 : g[Len(header) + i] = p[i]
  <2>1. /\ header \o p = g /\ Len(p) = 2 /\ Len(header \o p) = Len(header) + Len(p)
        /\ \A i \in 1..Len(p) : (header \o p)[Len(header) + i] = p[i]
    BY <1>1, <1>3, <1>4, JoinParts
  <2> QED BY <2>1
<1>6. \A i \in 1..Len(g) : g[i] = s[i] /\ i <= Len(s)
  <2>1. InOrder("client") /\ rio_cnt["client"] \in Int
    BY <1>0 DEF IInv, RioInv, StreamTypes, StreamInOrder
  <2> DEFINE held == IF rio_cnt["client"] > 0 THEN rio_cnt["client"] ELSE 0
  <2>2. /\ Len(g) + held = taken["client"] /\ taken["client"] <= Len(s)
        /\ \A i \in 1..Len(g) : g[i] = s[i]
    BY <2>1 DEF InOrder
  <2>3. held \in Nat /\ Len(g) \in Nat /\ Len(s) \in Nat /\ taken["client"] \in Nat
    BY <1>0, <1>1, <2>1 DEF IInv, RioInv, StreamTypes
  <2> HIDE DEF held
  <2> QED BY <2>2, <2>3
<1>7. /\ Len(s) >= 1 => s[1] \notin {CR, LF}
      /\ Len(s) >= 3 => s[3] = CR
      /\ Len(s) >= 4 => s[4] = LF
  BY SentShape, ExchangeAssumption
<1>8. n'["client"] = 1 /\ Partial("client")' = <<>> /\ InCall("client")'
  BY <1>0, <1>1, <1>2 DEF Partial, InCall
<1>9. <<>> \in Seq(Bytes) /\ \A x \in Seq(Bytes) : x \o <<>> = x
  OBVIOUS
<1>10. CASE Len(header) = 0
  <2>1. header = <<>> /\ \A x \in Seq(Bytes) : <<>> \o x = x
    BY <1>1, <1>10
  <2>2. p[1] = s[1] /\ p[1] # CR
    <3>1. Len(g) = 2 /\ g[1] = p[1]
      BY <1>5, <1>10
    <3>2. g[1] = s[1] /\ 1 <= Len(s)
      BY <1>6, <3>1
    <3> QED BY <1>1, <1>7, <3>1, <3>2
  <2>3. Blank[1] = CR
    BY DEF Blank
  <2>4. header' = header \o p /\ cpc' = cpc
    BY <1>4, <2>2, <2>3 DEF PrintHeader
  <2>5. header' = p /\ g = p
    BY <1>1, <1>3, <1>4, <2>1, <2>4
  <2> QED BY <1>1, <1>2, <1>3, <1>4, <1>8, <1>9, <2>4, <2>5 DEF AsGot
<1>11. CASE Len(header) = 2
  <2>1. p[1] = CR /\ p[2] = LF
    <3>1. Len(g) = 4 /\ g[3] = p[1] /\ g[4] = p[2]
      BY <1>5, <1>11
    <3>2. g[3] = s[3] /\ g[4] = s[4] /\ 4 <= Len(s)
      BY <1>6, <3>1
    <3>3. Len(s) \in Nat
      BY <1>1
    <3> QED BY <1>7, <3>1, <3>2, <3>3
  <2>2. p = Blank
    <3>1. p \in Seq(Bytes) /\ Len(p) = 2
      BY <1>1, <1>3, <1>4
    <3>2. Blank \in Seq(Bytes) /\ Len(Blank) = 2 /\ Blank[1] = CR /\ Blank[2] = LF
      BY DEF Blank, Bytes, CR, LF
    <3> QED BY <2>1, <3>1, <3>2
  <2>3. header' = header /\ cpc' = "body"
    BY <2>2 DEF PrintHeader
  <2>4. header \o Blank \o <<>> \o <<>> = g
    <3>1. header \o Blank = g
      BY <1>3, <1>4, <2>2
    <3> QED BY <1>1, <1>9, <3>1
  <2> QED BY <1>2, <1>3, <1>8, <1>11, <2>3, <2>4 DEF AsGot
<1> QED BY <1>3, <1>10, <1>11

(* clientPrint prints a line of the body.                                  *)
LEMMA BodyPrinted ==
  ASSUME ExchangeAssumption, IInv, Stages, BufTypes, AsGot, Clean, PrintBody
  PROVE  AsGot'
PROOF
<1> DEFINE g == got["client"]
           p == usrbuf["client"]
           h == header \o Blank
<1>0. "client" \in Readers
  BY ExchangeAssumption DEF ExchangeAssumption
<1>1. /\ g \in Seq(Bytes) /\ p \in Seq(Bytes) /\ header \in Seq(Bytes) /\ body \in Seq(Bytes)
      /\ n \in [Readers -> Nat] /\ Blank \in Seq(Bytes)
  BY <1>0 DEF IInv, RioInv, StreamTypes, BufTypes, Stages, StageTypes, Blank, Bytes, CR, LF
<1>2. /\ cpc = "body" /\ n["client"] = 0 /\ rc["client"] > 0 /\ cpc' = cpc /\ header' = header
      /\ n' = [n EXCEPT !["client"] = 1] /\ got' = got /\ body' = body \o p
  BY DEF PrintBody, NextLine, rio_readlineb, InCall, procVars
<1>3. Len(header) = 2 /\ h \o body \o p = g
  <2>1. Partial("client") = p
    BY <1>2 DEF Partial
  <2>2. Len(header) = 2 /\ h \o body \o Partial("client") = g
    BY <1>2 DEF AsGot
  <2> QED BY <2>1, <2>2
<1>4. n'["client"] = 1 /\ Partial("client")' = <<>> /\ InCall("client")'
  BY <1>0, <1>1, <1>2 DEF Partial, InCall
<1>5. h \in Seq(Bytes)
  BY <1>1
<1> HIDE DEF g, p, h
<1>6. h \o (body \o p) = (h \o body) \o p /\ body \o p \in Seq(Bytes)
  BY <1>1, <1>5, JoinThree
<1>7. h \o (body \o p) \in Seq(Bytes) /\ h \o (body \o p) = g
  BY <1>1, <1>3, <1>6
<1>8. \A x \in Seq(Bytes) : x \o <<>> = x
  OBVIOUS
<1>9. h \o body' \o <<>> = got'["client"]
  BY <1>2, <1>7, <1>8 DEF g
<1> QED BY <1>2, <1>3, <1>4, <1>9 DEF AsGot, h

(* Behind the end of a cut answer the client prints nothing more.          *)
LEMMA ShortStays ==
  ASSUME RioAssumption, ExchangeAssumption, IInv, Stages, BufTypes, Short, Clean, Clean', Next
  PROVE  Short'
PROOF
<1>0. spc = "done" /\ gpc = "none" /\ out["program"] = <<>> /\ cpc \in {"header", "body", "done"}
      /\ "client" \in Readers
  BY ExchangeAssumption DEF ExchangeAssumption, Short, Stages, Ends, Places, Clean
<1>1. ~Server
  BY <1>0 DEF Server, Open_listenfd, HandleBegins, ServerReads, ServerReadFails, RequestLine,
     requestReadhdrs, Stat, OpenFile, MapFile, requestServeStatic, ServerWrites, rio_writen,
     ServerWriteFails, Fork, WaitPid, Answered, Close, Stages, Places
<1>2. ~Program
  BY <1>0 DEF Program, Execve, ProgramWrites, rio_writen, ProgramEnds
<1>3. ~FileChanges
  BY <1>0 DEF FileChanges
<1>4. CASE Finished
  BY <1>4 DEF Finished, vars, rioVars, procVars, fileVars, endVars, Short, NotRun, InCall
<1>5. CASE Client \/ ClientKilled
  <2>1. UNCHANGED <<file, result>> /\ sent'["client"] = sent["client"]
    BY <1>5, ClientFrame, ExchangeAssumption DEF fileVars
  <2>2. NotRun'
    BY <2>1 DEF NotRun, Short
  <2>3. CASE ClientReads
    <3>1. InCall("client") /\ rio_read("client") /\ UNCHANGED <<cpc, header, body>>
      BY <2>3 DEF ClientReads, rio_read, Refill, Interrupted, EndOfFile, TakeByte, Reading,
         procVars, endVars
    <3>2. ~TakeByte("client")
      <4>1. ASSUME TakeByte("client") PROVE Len(got["client"]) < Len(sent["client"])
        BY <1>0, <4>1, TakesNextByte, RioAssumption DEF IInv
      <4>2. Len(DynamicHead) = 2
        BY DEF DynamicHead
      <4> QED BY <4>1, <4>2 DEF Short
    <3>3. CASE EndOfFile("client")
      <4>1. n["client"] = 1 /\ n \in [Readers -> Nat] /\ rc \in [Readers -> Nat]
        BY <3>1 DEF Short, Stages, StageTypes
      <4>2. n'["client"] = 0 /\ rc'["client"] = 0 /\ ended' = ended /\ got' = got
        BY <1>0, <3>3, <4>1 DEF EndOfFile
      <4> QED BY <2>1, <2>2, <3>1, <4>2 DEF Short, InCall
    <3>4. CASE Interrupted("client") \/ \E k \in 1..RIO_BUFSIZE : Refill("client", k)
      <4>1. UNCHANGED <<n, rc, got, ended>>
        BY <3>4 DEF Interrupted, Refill
      <4> QED BY <2>1, <2>2, <3>1, <4>1 DEF Short, InCall
    <3> QED BY <3>1, <3>2, <3>3, <3>4 DEF rio_read
  <2>4. CASE PrintHeader
    <3>1. cpc = "header" /\ rc["client"] = 0 /\ n \in [Readers -> Nat]
      BY <2>4 DEF PrintHeader, Short, Stages, StageTypes
    <3>2. /\ cpc' = "body" /\ n' = [n EXCEPT !["client"] = 1]
          /\ UNCHANGED <<header, body, got, ended, rc>>
      BY <2>4, <3>1 DEF PrintHeader, NextLine, rio_readlineb
    <3>3. n'["client"] = 1
      BY <1>0, <3>1, <3>2
    <3> QED BY <2>1, <2>2, <3>2, <3>3 DEF Short, InCall
  <2>5. CASE ClientDone
    <3>1. /\ cpc' = "done" /\ ~InCall("client") /\ UNCHANGED <<header, body, got, n, rc>>
          /\ \E how : ended' = [ended EXCEPT !["server"] = how]
      BY <2>5 DEF ClientDone, ClientLeaves, EndStream, endVars
    <3>2. ended'["client"] = ended["client"]
      BY <1>0, <3>1 DEF Stages, StageTypes
    <3> QED BY <2>1, <2>2, <3>1, <3>2 DEF Short, InCall
  <2>6. ~PrintBody
    BY DEF PrintBody, Short
  <2>7. ~ClientFails /\ ~ClientKilled
    BY DEF ClientFails, ClientKilled, ClientLeaves, Clean
  <2>8. ~(Open_clientfd \/ ClientWrites \/ ClientWritesLate \/ clientSend)
    BY <1>0 DEF Open_clientfd, ClientWrites, ClientWritesLate, clientSend
  <2> QED BY <1>5, <2>3, <2>4, <2>5, <2>6, <2>7, <2>8 DEF Client
<1> QED BY <1>1, <1>2, <1>3, <1>4, <1>5 DEF Next

(* Nothing the client got is left out when it prints.                      *)
LEMMA AnswerPrintedNext ==
  ASSUME RioAssumption, RequestsAssumption, ExchangeAssumption, IInv, Stages, BufTypes, AnswerSent,
         AnswerPrinted, Next
  PROVE  AnswerPrinted'
PROOF
<1> SUFFICES ASSUME Clean', AsGot PROVE AsGot' \/ Short'
  BY CleanBefore, ShortStays, RioAssumption, ExchangeAssumption DEF AnswerPrinted
<1>1. Clean
  BY CleanBefore, ExchangeAssumption
<1>2. CASE Server
  <2>1. spc \notin {"done", "dead"}
    BY <1>2 DEF Server, Open_listenfd, HandleBegins, ServerReads, ServerReadFails, RequestLine,
       requestReadhdrs, Stat, OpenFile, MapFile, requestServeStatic, ServerWrites, rio_writen,
       ServerWriteFails, Fork, WaitPid, Answered, Close, Stages, Places
  <2>2. ended["client"] = "no"
    BY <2>1 DEF Stages, Ends
  <2>3. Untouched("client") /\ UNCHANGED <<cpc, header, body>>
    BY <1>2, ServerFrame, ExchangeAssumption
  <2> QED BY <1>1, <2>2, <2>3, StillPrinted
<1>3. CASE Program
  <2>1. gpc # "none"
    BY <1>3 DEF Program, Execve, ProgramWrites, rio_writen, ProgramEnds, Stages, Places
  <2>2. ended["client"] = "no"
    BY <2>1 DEF Stages, Ends, Places
  <2>3. Untouched("client") /\ UNCHANGED <<cpc, header, body>>
    BY <1>3, ProgramFrame, ExchangeAssumption DEF endVars
  <2> QED BY <1>1, <2>2, <2>3, StillPrinted
<1>4. CASE FileChanges \/ Finished
  <2>1. UNCHANGED <<rioVars, cpc, header, body>>
    BY <1>4 DEF FileChanges, Finished, vars, procVars, endVars
  <2>2. Untouched("client") /\ sent' = sent
    BY <2>1 DEF rioVars, Untouched
  <2> QED BY <1>1, <2>1, <2>2, StillPrinted
<1>5. CASE Open_clientfd
  BY <1>1, <1>5 DEF Open_clientfd, rioVars, endVars, AsGot
<1>6. CASE ClientWrites \/ ClientWritesLate
  <2>1. cpc = "send" /\ cpc' = "send" /\ UNCHANGED <<got, header, body>>
    BY <1>6 DEF ClientWrites, ClientWritesLate, EndStream, rio_writen, write, endVars
  <2> QED BY <1>1, <2>1 DEF AsGot
<1>7. CASE clientSend
  <2>1. /\ cpc = "send" /\ cpc' = "header" /\ UNCHANGED <<got, header, body>>
        /\ n' = [n EXCEPT !["client"] = 1] /\ "client" \in Readers /\ n \in [Readers -> Nat]
    BY <1>7, ExchangeAssumption
       DEF clientSend, FirstLine, rio_readlineb, endVars, ExchangeAssumption, Stages, StageTypes
  <2>2. n'["client"] = 1 /\ Partial("client")' = <<>> /\ InCall("client")'
    BY <2>1 DEF Partial, InCall
  <2>3. got["client"] = <<>> /\ header = <<>> /\ body = <<>>
    BY <1>1, <2>1 DEF AsGot
  <2>4. <<>> \o <<>> = <<>> /\ Len(<<>>) = 0
    OBVIOUS
  <2> QED BY <2>1, <2>2, <2>3, <2>4 DEF AsGot
<1>8. CASE ClientReads
  <2>1. /\ cpc \in {"header", "body"} /\ UNCHANGED <<cpc, header, body>>
        /\ rio_read("client")
    BY <1>8 DEF ClientReads, procVars, endVars
  <2>2. CASE TakeByte("client")
    BY <1>1, <2>1, <2>2, HeaderByte, BodyByte, RioAssumption, RequestsAssumption,
       ExchangeAssumption
  <2>3. CASE EndOfFile("client")
    <3>1. UNCHANGED <<file, result>>
      BY <1>8 DEF ClientReads, fileVars, endVars
    <3> QED BY <1>1, <2>1, <2>3, <3>1, EndPrinted, RioAssumption, RequestsAssumption,
            ExchangeAssumption
  <2>4. CASE Interrupted("client") \/ \E k \in 1..RIO_BUFSIZE : Refill("client", k)
    <3>1. Untouched("client") /\ sent' = sent
      BY <2>4 DEF Interrupted, Refill, Untouched
    <3> QED BY <1>1, <2>1, <3>1, StillPrinted
  <2> QED BY <2>1, <2>2, <2>3, <2>4 DEF rio_read
<1>9. CASE PrintHeader
  BY <1>1, <1>9, HeaderPrinted, RioAssumption, RequestsAssumption, ExchangeAssumption
<1>10. CASE PrintBody
  BY <1>1, <1>10, BodyPrinted, ExchangeAssumption
<1>11. CASE ClientDone
  <2>1. /\ cpc = "body" /\ cpc' = "done" /\ ~InCall("client") /\ rc["client"] = 0
        /\ UNCHANGED <<got, sent, n, rc, usrbuf, header, body>>
    BY <1>11 DEF ClientDone, ClientLeaves, EndStream, endVars
  <2>2. Partial("client")' = Partial("client") /\ InCall("client")' = InCall("client")
    BY <2>1 DEF Partial, InCall
  <2> QED BY <1>1, <2>1, <2>2 DEF AsGot
<1>12. CASE ClientFails \/ ClientKilled
  <2>1. cpc' \in {"failed", "killed"}
    BY <1>12 DEF ClientFails, ClientKilled, ClientLeaves
  <2> QED BY <2>1 DEF Clean
<1> QED
  BY <1>2, <1>3, <1>4, <1>5, <1>6, <1>7, <1>8, <1>9, <1>10, <1>11, <1>12 DEF Next, Client

-----------------------------------------------------------------------------
(* Together: what an exchange keeps besides the order of its streams *)
Answers == Stages /\ Requests /\ AnswerSent /\ AnswerPrinted

(* They hold at first,                                                     *)
LEMMA AnswersInit ==
  ASSUME RioAssumption, ExchangeAssumption, Init
  PROVE  Answers
PROOF
<1>0. "server" \in Readers /\ "client" \in Readers
  BY ExchangeAssumption DEF ExchangeAssumption
<1>1. Stages
  BY <1>0 DEF Init, RioInit, Stages, StageTypes, Places, Ends, FileSeen, ServerOutlivesRequest,
     InCall,
     ServedFile, NoFile, request_result
<1>2. Requests
  BY <1>0 DEF Init, RioInit, Requests, BufTypes, RequestSent, RequestLines
<1>3. AnswerSent
  BY <1>0 DEF Init, RioInit, AnswerSent
<1>4. AnswerPrinted
  BY <1>0 DEF Init, RioInit, AnswerPrinted, AsGot
<1> QED BY <1>1, <1>2, <1>3, <1>4 DEF Answers

(* and every step keeps them.                                              *)
LEMMA AnswersNext ==
  ASSUME RioAssumption, RequestsAssumption, ExchangeAssumption, IInv, Answers, [Next]_vars
  PROVE  Answers'
PROOF
<1>1. Stages'
  BY StagesNext, RioAssumption, ExchangeAssumption DEF Answers
<1>2. CASE Next
  <2>1. BufTypes'
    BY <1>2, BufTypesNext, RioAssumption, ExchangeAssumption DEF Answers, Requests
  <2>2. RequestSent'
    BY <1>2, RequestSentNext, ExchangeAssumption DEF Answers
  <2>3. RequestLines'
    BY <1>1, <1>2, RequestLinesNext, RioAssumption, ExchangeAssumption DEF Answers
  <2>4. AnswerSent'
    BY <1>2, AnswerSentNext, ExchangeAssumption DEF Answers, Requests
  <2>5. AnswerPrinted'
    BY <1>2, AnswerPrintedNext, RioAssumption, RequestsAssumption, ExchangeAssumption
       DEF Answers, Requests
  <2> QED BY <1>1, <2>1, <2>2, <2>3, <2>4, <2>5 DEF Answers, Requests
<1>3. CASE UNCHANGED vars
  <2> USE <1>3 DEF vars, rioVars, rio_t, procVars, fileVars, endVars, Partial, InCall
  <2>1. Requests'
    BY DEF Answers, Requests, BufTypes, RequestSent, RequestLines, LastLine, LinesFit
  <2>2. AnswerSent'
    BY DEF Answers, AnswerSent, Clean, Whole, NotRun, Answer
  <2>3. AnswerPrinted'
    BY DEF Answers, AnswerPrinted, AsGot, Short, NotRun, Clean
  <2> QED BY <1>1, <2>1, <2>2, <2>3 DEF Answers
<1> QED BY <1>2, <1>3

(* A client that has read to the end has the answer in its two parts. *)
LEMMA AllPrinted ==
  ASSUME ExchangeAssumption, IInv, Answers
  PROVE  AnswerComplete
PROOF
<1> SUFFICES ASSUME cpc = "done", exit = "no"
             PROVE  IF NotRun THEN header = DynamicHead /\ body = <<>>
                    ELSE header \o Blank \o body = Answer
  BY DEF AnswerComplete
<1>1. Clean /\ BufTypes
  BY DEF Clean, Answers, Requests
<1>2. CASE Short
  BY <1>2 DEF Short
<1>3. CASE AsGot
  <2>1. /\ header \o Blank \o body \o Partial("client") = got["client"] /\ got["client"] = sent["client"]
        /\ ~InCall("client") /\ rc["client"] = 0 /\ Len(header) = 2
    BY <1>1, <1>3 DEF AsGot
  <2>2. sent["client"] = Whole
    <3>1. spc = "done"
      BY DEF Answers, Stages, Ends, Places
    <3> QED BY <1>1, <3>1 DEF Answers, AnswerSent
  <2>3. Partial("client") = <<>>
    BY <2>1 DEF Partial, InCall
  <2>4. /\ header \o Blank \in Seq(Bytes) /\ Len(header \o Blank) = 4
        /\ header \o Blank \o body \in Seq(Bytes)
        /\ Len(header \o Blank \o body) = 4 + Len(body) /\ Len(body) \in Nat
    <3>1. header \in Seq(Bytes) /\ Blank \in Seq(Bytes) /\ body \in Seq(Bytes) /\ Len(Blank) = 2
      BY <1>1 DEF BufTypes, Blank, Bytes, CR, LF
    <3>2. header \o Blank \in Seq(Bytes) /\ Len(header \o Blank) = Len(header) + Len(Blank)
      BY <3>1, JoinParts
    <3>3. Len(header \o Blank) = 4
      BY <2>1, <3>1, <3>2
    <3> DEFINE h == header \o Blank
    <3>4. h \in Seq(Bytes) /\ Len(h) = 4
      BY <3>2, <3>3
    <3> HIDE DEF h
    <3>5. h \o body \in Seq(Bytes) /\ Len(h \o body) = Len(h) + Len(body) /\ Len(body) \in Nat
      BY <3>1, <3>4, JoinParts
    <3>6. /\ h \in Seq(Bytes) /\ Len(h) = 4 /\ h \o body \in Seq(Bytes)
          /\ Len(h \o body) = 4 + Len(body) /\ Len(body) \in Nat
      BY <3>4, <3>5
    <3> QED BY <3>6 DEF h
  <2>5. header \o Blank \o body = Whole
    <3>1. \A x \in Seq(Bytes) : x \o <<>> = x
      OBVIOUS
    <3> QED BY <2>1, <2>2, <2>3, <2>4, <3>1
  <2>6. Len(DynamicHead) = 2
    BY DEF DynamicHead
  <2>7. ~NotRun
    <3>1. NotRun => Len(header \o Blank \o body) = 2
      BY <2>5, <2>6 DEF Whole
    <3> QED BY <2>4, <3>1
  <2> QED BY <2>5, <2>7 DEF Whole
<1> QED BY <1>1, <1>2, <1>3 DEF Answers, AnswerPrinted

(* Of every state an exchange comes to *)
LEMMA Always == Spec => [](IInv /\ Answers)
PROOF
<1>1. Init => IInv /\ Answers
  BY IInvInit, AnswersInit, RioAssumption, ExchangeAssumption
<1>2. IInv /\ Answers /\ [Next]_vars => (IInv /\ Answers)'
  BY IInvNext, AnswersNext, RioAssumption, RequestsAssumption, ExchangeAssumption
<1> QED BY <1>1, <1>2, PTL DEF Spec

(* One request ends the whole server, by unix_error of segel.c, only if    *)
(* the client was killed, the file has no bytes, has changed since stat(), *)
(* or may be read by its owner (whose bit request.c:202 looks at) and not  *)
(* by the server, or the system refuses the port or a process.             *)
THEOREM ServerOutlives == Spec => []ServerOutlivesRequest
PROOF
<1>1. IInv /\ Answers => ServerOutlivesRequest
  BY DEF Answers, Stages
<1> QED BY <1>1, Always, PTL

(* requestReadhdrs compares a buffer it does not know to be new; still,    *)
(* when stat() is called the whole request has been read, if its lines fit *)
(* and its client was not killed.                                          *)
THEOREM AllOfRequestIsRead == Spec => []WholeRequestRead
PROOF
<1>1. IInv /\ Answers => WholeRequestRead
  BY BlankIsLast, RequestsAssumption, ExchangeAssumption DEF Answers
<1> QED BY <1>1, Always, PTL

(* A client that reads to the end has printed the answer requestHandle     *)
(* decided on, whole, though two processes write it one after the other;   *)
(* or, when execve() refuses the program, for whatever reason, exactly the *)
(* line that requestServeDynamic wrote before it forked.                   *)
THEOREM AllOfAnswerIsPrinted == Spec => []AnswerComplete
PROOF
<1>1. IInv /\ Answers => AnswerComplete
  BY AllPrinted, ExchangeAssumption
<1> QED BY <1>1, Always, PTL
=============================================================================
