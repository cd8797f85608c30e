---------------------------- MODULE WebDavProofs ----------------------------
(***************************************************************************)
(* Theorems about WebDav, for any number of workers, any requests and      *)
(* buffers of any size.                                                    *)
(***************************************************************************)
EXTENDS WebDav, SequenceTheorems, FiniteSetTheorems, WellFoundedInduction, TLAPS

(***************************************************************************)
(* Pieces of the byte stream.                                              *)
(***************************************************************************)
Contents == Seq(Bytes)

LEMMA Assumed ==
    /\ RecvBufSize \in Nat \ {0} /\ WriteBufSize \in Nat /\ WriteBufSize >= RecvBufSize
    /\ MaxClients \in Nat \ {0} /\ IsFiniteSet(Tasks) /\ Tasks \subseteq Nat
    /\ None \notin Contents /\ Directory \notin Contents /\ None # Directory
    /\ Root \notin Paths /\ DotDot \notin Paths /\ None \notin Requests
BY WebDavAssumption DEF WebDavAssumption, Contents

LEMMA RequestParts ==
    ASSUME NEW r \in Requests
    PROVE  /\ r.path \in Paths \cup {Root, DotDot} /\ r.length \in Nat /\ r.method \in Methods
           /\ r.parses \in BOOLEAN /\ Stream(r) \in Contents
<1>1. r \in RequestType
  BY WebDavAssumption DEF WebDavAssumption
<1> QED BY <1>1, ConcatProperties DEF RequestType, Stream, Contents

(* A stretch of a stream. *)
LEMMA Stretch ==
    ASSUME NEW S, NEW s \in Seq(S), NEW m \in Nat, NEW n \in Nat, m <= n, n <= Len(s)
    PROVE  /\ SubSeq(s, m + 1, n) \in Seq(S)
           /\ Len(SubSeq(s, m + 1, n)) = n - m
           /\ \A i \in 1..(n - m) : SubSeq(s, m + 1, n)[i] = s[m + i]
<1>1. \A i \in (m + 1)..n : s[i] \in S
  BY ElementOfSeq
<1>2. (m + 1 <= n => n - (m + 1) + 1 = n - m) /\ (~(m + 1 <= n) => n - m = 0)
      /\ n - (m + 1) + 1 = n - m
  OBVIOUS
<1>3. /\ SubSeq(s, m + 1, n) \in Seq(S)
      /\ Len(SubSeq(s, m + 1, n)) = IF m + 1 <= n THEN n - (m + 1) + 1 ELSE 0
      /\ \A i \in 1..(n - (m + 1) + 1) : SubSeq(s, m + 1, n)[i] = s[m + 1 + i - 1]
  BY <1>1, SubSeqProperties
<1>4. \A i \in 1..(n - m) : m + 1 + i - 1 = m + i
  OBVIOUS
<1> QED BY <1>2, <1>3, <1>4

(* Two stretches, one behind the other. *)
LEMMA Stretches ==
    ASSUME NEW S, NEW s \in Seq(S), NEW l \in Nat, NEW m \in Nat, NEW n \in Nat,
           l <= m, m <= n, n <= Len(s)
    PROVE  SubSeq(s, l + 1, m) \o SubSeq(s, m + 1, n) = SubSeq(s, l + 1, n)
<1>1. l + 1 \in 1..Len(s) + 1 /\ m \in (l + 1) - 1 .. Len(s) /\ n \in m..Len(s)
  BY LenProperties
<1> QED BY <1>1, ConcatAdjacentSubSeq

LEMMA Prefixes ==
    ASSUME NEW S, NEW s \in Seq(S), NEW m \in Nat, NEW n \in Nat, m <= n, n <= Len(s)
    PROVE  /\ SubSeq(s, 1, m) \in Seq(S) /\ Len(SubSeq(s, 1, m)) = m
           /\ \A i \in 1..m : SubSeq(s, 1, m)[i] = s[i]
           /\ SubSeq(s, 1, m) \o SubSeq(s, m + 1, n) = SubSeq(s, 1, n)
<1>1. Len(s) \in Nat /\ 0 \in Nat
  BY LenProperties
<1>2. /\ SubSeq(s, 0 + 1, m) \in Seq(S) /\ Len(SubSeq(s, 0 + 1, m)) = m - 0
      /\ \A i \in 1..(m - 0) : SubSeq(s, 0 + 1, m)[i] = s[0 + i]
  <2>1. m <= Len(s) /\ 0 <= m BY <1>1
  <2> QED BY <1>1, <2>1, Stretch
<1>3. SubSeq(s, 0 + 1, m) \o SubSeq(s, m + 1, n) = SubSeq(s, 0 + 1, n)
  <2>1. 0 <= m BY <1>1
  <2> QED BY <1>1, <2>1, Stretches
<1> QED BY <1>2, <1>3

(* Three pieces, put together from either side. *)
LEMMA Joined ==
    ASSUME NEW a \in Contents, NEW b \in Contents, NEW c \in Contents
    PROVE  (a \o b) \o c = a \o (b \o c)
<1>1. PICK S : a \in Seq(S) /\ b \in Seq(S) /\ c \in Seq(S)
  BY DEF Contents
<1> QED BY ONLY <1>1, SMTT(60)

LEMMA Rejoined ==
    ASSUME NEW s \in Contents, NEW all \in Contents, NEW n \in Nat, n <= Len(all)
    PROVE  (s \o SubSeq(all, 1, n)) \o SubSeq(all, n + 1, Len(all)) = s \o all
<1> DEFINE l == Len(all)
<1>1. l \in Nat /\ l <= l
  BY LenProperties DEF Contents
<1> HIDE DEF l
<1>2. SubSeq(all, 1, n) \in Contents /\ SubSeq(all, 1, n) \o SubSeq(all, n + 1, l) = SubSeq(all, 1, l)
  <2>1. all \in Seq(Bytes) /\ n <= l /\ l <= Len(all)
    BY DEF Contents, l
  <2> QED BY <1>1, <2>1, Prefixes DEF Contents
<1>3. SubSeq(all, 1, l) = all
  BY SubSeqFull DEF Contents, l
<1>4. SubSeq(all, n + 1, l) \in Contents
  BY <1>1, Stretch DEF Contents, l
<1>5. (s \o SubSeq(all, 1, n)) \o SubSeq(all, n + 1, l) = s \o (SubSeq(all, 1, n) \o SubSeq(all, n + 1, l))
  <2> DEFINE a == SubSeq(all, 1, n)
             b == SubSeq(all, n + 1, l)
  <2>1. a \in Contents /\ b \in Contents
    BY <1>2, <1>4
  <2> HIDE DEF a, b
  <2>2. (s \o a) \o b = s \o (a \o b)
    BY <2>1, Joined
  <2> QED BY <2>2 DEF a, b
<1> QED BY <1>2, <1>3, <1>5 DEF l

LEMMA Sums ==
    ASSUME NEW a \in Nat, NEW b \in Nat
    PROVE  a + b \in Nat /\ a <= a + b /\ (a + b) - a = b
OBVIOUS

LEMMA Beyond ==
    ASSUME NEW a \in Nat, NEW b \in Nat, NEW i \in 1..(a + b), ~(i <= a)
    PROVE  i - a \in 1..b /\ a + (i - a) = i
OBVIOUS

LEMMA Remainder ==
    ASSUME NEW a \in Nat, NEW l \in Nat, NEW b \in Nat, b = l - a
    PROVE  a + b = l
OBVIOUS

LEMMA Parts ==
    ASSUME NEW a \in Nat, NEW l \in Nat
    PROVE  /\ \A b \in Nat : a + b <= l => a <= l
           /\ a <= l => l - a \in Nat
           /\ l - a = 0 => a = l
           /\ \A n \in Nat : n <= l - a => a + n <= l /\ \A i \in 1..n : a + i \in 1..l
           /\ \A i \in 1..(a + l) : i <= a => i \in 1..a
OBVIOUS

LEMMA LesserType ==
    ASSUME NEW m \in Nat, NEW n \in Nat
    PROVE  /\ Lesser(m, n) \in Nat /\ Lesser(m, n) <= m /\ Lesser(m, n) <= n
           /\ Lesser(m, n) = m \/ Lesser(m, n) = n
BY DEF Lesser

LEMMA Least ==
    ASSUME NEW S, S \subseteq Nat, S # {}
    PROVE  MinOf(S) \in S
<1>1. \E x \in S : \A y \in S : ~(<<y, x>> \in OpToRel(<, Nat))
  BY NatLessThanWellFounded, WFMin
<1>2. PICK x \in S : \A y \in S : ~(<<y, x>> \in OpToRel(<, Nat))
  BY <1>1
<1>3. ASSUME NEW y \in S, y < x PROVE <<y, x>> \in OpToRel(<, Nat)
  BY <1>3 DEF OpToRel
<1>4. \A y \in S : ~(y < x)
  BY <1>2, <1>3, Zenon
<1>5. \A y \in S : x <= y
  BY <1>4
<1> QED BY <1>5 DEF MinOf

(***************************************************************************)
(* The write buffer of a PUT: what was taken in is on the card or in the   *)
(* buffer, once and in order, as long as nothing has failed.               *)
(***************************************************************************)
LEMMA Flushed ==
    ASSUME NEW file \in Contents, NEW buf \in Contents, NEW o \in FlushPutBuf(file, buf)
    PROVE  /\ o.file \in Contents /\ o.buf = <<>> /\ o.ok \in BOOLEAN
           /\ o.ok => o.file = file \o buf
<1>1. PICK n \in 0..Len(buf) : o = Outcome(file \o SubSeq(buf, 1, n), <<>>, n = Len(buf))
  BY DEF FlushPutBuf
<1>2. SubSeq(buf, 1, n) \in Contents
  BY Stretch DEF Contents
<1>3. n = Len(buf) => SubSeq(buf, 1, n) = buf
  BY SubSeqFull DEF Contents
<1> QED BY <1>1, <1>2, <1>3, ConcatProperties DEF Outcome, Contents

LEMMA ChunkWritten ==
    ASSUME NEW file \in Contents, NEW buf \in Contents, NEW chunk \in Contents,
           Len(buf) < WriteBufSize, Len(chunk) <= RecvBufSize,
           NEW o \in WritePutChunk(file, buf, chunk)
    PROVE  /\ o.file \in Contents /\ o.buf \in Contents /\ o.ok \in BOOLEAN
           /\ o.ok => Len(o.buf) < WriteBufSize /\ o.file \o o.buf = (file \o buf) \o chunk
<1> DEFINE all  == buf \o chunk
           rest == SubSeq(all, WriteBufSize + 1, Len(all))
           full == SubSeq(all, 1, WriteBufSize)
<1>0. all \in Contents /\ Len(all) = Len(buf) + Len(chunk) /\ Len(buf) \in Nat /\ Len(chunk) \in Nat
  BY ConcatProperties DEF Contents
<1>1. (file \o buf) \o chunk = file \o all
  BY Joined
<1>2. CASE chunk = <<>>
  <2>1. o = Outcome(file, buf, TRUE)
    BY <1>2 DEF WritePutChunk
  <2>2. file \o buf \in Contents /\ (file \o buf) \o chunk = file \o buf
    BY <1>2, ConcatProperties, ConcatEmptySeq DEF Contents
  <2> QED BY <2>1, <2>2 DEF Outcome
<1>3. CASE o = Outcome(file, buf, FALSE)
  BY <1>3 DEF Outcome
<1>4. CASE chunk # <<>> /\ ~BufFull(Len(all)) /\ o = Outcome(file, all, TRUE)
  <2> HIDE DEF all
  <2>1. Len(all) \in Nat /\ Len(all) < WriteBufSize
    BY <1>0, <1>4, Assumed DEF BufFull
  <2>2. o.file = file /\ o.buf = all /\ o.ok = TRUE
    BY <1>4 DEF Outcome
  <2> QED BY <1>0, <1>1, <2>1, <2>2
<1>5. CASE /\ chunk # <<>> /\ BufFull(Len(all))
           /\ \E f \in FlushPutBuf(file, full) : o = [f EXCEPT !.buf = IF f.ok THEN rest ELSE @]
  <2>1. WriteBufSize <= Len(all) /\ Len(all) - WriteBufSize < WriteBufSize
    BY <1>0, <1>5, Assumed DEF BufFull
  <2>2. full \in Contents /\ rest \in Contents /\ Len(rest) = Len(all) - WriteBufSize
    BY <1>0, <2>1, Prefixes, Stretch, Assumed DEF Contents

  <2>4. PICK f \in FlushPutBuf(file, full) : o = [f EXCEPT !.buf = IF f.ok THEN rest ELSE @]
    BY <1>5
  <2>5. /\ f.file \in Contents /\ f.buf = <<>> /\ f.ok \in BOOLEAN
        /\ f.ok => f.file = file \o full
    BY <2>2, Flushed
  <2>6. o.file = f.file /\ o.ok = f.ok /\ o.buf = IF f.ok THEN rest ELSE <<>>
    BY <2>4, <2>5 DEF FlushPutBuf, Outcome
  <2>7. (file \o full) \o rest = file \o all
    <3>1. WriteBufSize \in Nat
      BY Assumed
    <3> HIDE DEF all
    <3> QED BY <1>0, <2>1, <3>1, Rejoined, Zenon
  <2>8. <<>> \in Contents
    BY DEF Contents
  <2> HIDE DEF all, rest, full
  <2> QED BY <1>0, <1>1, <2>1, <2>2, <2>5, <2>6, <2>7, <2>8, Assumed
<1> QED BY <1>2, <1>3, <1>4, <1>5 DEF WritePutChunk

(***************************************************************************)
(* A worker by itself.                                                     *)
(***************************************************************************)
Anything == Bytes \cup {Garbage}

WorkerType ==
    [pc : TaskStates, heard : Contents, req : Requests \cup {None}, got : Nat, bodyStart : Nat,
     file : Contents, buf : Seq(Anything), existed : BOOLEAN, status : Nat,
     sent : Seq(Anything), stale : BOOLEAN, cut : BOOLEAN]

NoBlankLine(s) == \A i \in 0..(Len(s) - 4) : ~BlankLineAt(s, i)

(* What has arrived of a body up to a point of the stream. *)
Received(t, upTo) == SubSeq(Stream(t.req), t.bodyStart + 1, upTo)

Listening(t) ==
    t.pc = "headers" =>
        /\ t = [Worker EXCEPT !.heard = t.heard]
        /\ Len(t.heard) < RecvBufSize /\ NoBlankLine(t.heard)

Serving(t) ==
    t.pc \in {"put", "getHeader", "get", "reply"} =>
        t.req \in Requests /\ HeadersFit(t.req) /\ t.got <= Len(Stream(t.req))

(* A PUT has on the card and in its buffer what it has received. *)
Putting(t) ==
    t.pc = "put" =>
        /\ t.req.path \in Paths /\ t.req.parses
        /\ t.bodyStart <= t.got /\ t.got - t.bodyStart < t.req.length
        /\ t.buf \in Contents /\ Len(t.buf) < WriteBufSize
        /\ t.file \o t.buf = Received(t, t.got)

(* A GET has sent, and is sending, the file from its beginning. *)
Getting(t) ==
    t.pc \in {"getHeader", "get"} =>
        /\ t.req.path \in Paths /\ t.req.parses /\ t.status = 200 /\ t.req.method \in {"GET", "HEAD"}
        /\ Len(t.sent) + Len(t.buf) <= Len(t.file)
        /\ t.pc = "getHeader" => t.sent = <<>>
        /\ t.pc = "get" => Len(t.buf) = Lesser(Len(t.file) - Len(t.sent), RecvBufSize)
        /\ ~t.stale => /\ \A i \in 1..Len(t.sent) : t.sent[i] = t.file[i]
                       /\ \A i \in 1..Len(t.buf) : t.buf[i] = t.file[Len(t.sent) + i]

Replying(t) ==
    t.pc = "reply" =>
        /\ t.status # 0 /\ (t.status = 400 <=> ~t.req.parses)
        /\ t.status = 200 => t.req.method # "GET"

Finished(t) ==
    t.pc = "ended" /\ ~t.cut =>
        /\ t.req \in Requests
        /\ t.status # 0 <=> HeadersFit(t.req)
        /\ t.status = 400 <=> HeadersFit(t.req) /\ ~t.req.parses
        /\ t.status = 200 /\ t.req.method = "GET" /\ ~t.stale => t.sent = t.file

WorkerInv(t) ==
    /\ t \in WorkerType
    /\ t.pc = "idle" => t = Idle
    /\ t.pc \notin {"put", "get"} => t.buf = <<>>
    /\ Listening(t) /\ Serving(t) /\ Putting(t) /\ Getting(t) /\ Replying(t) /\ Finished(t)

LEMMA IdleInv == WorkerInv(Idle) /\ Idle.pc = "idle"
<1>1. <<>> \in Contents /\ <<>> \in Seq(Anything)
  BY DEF Contents
<1> QED BY <1>1 DEF WorkerInv, WorkerType, Idle, TaskStates, Listening, Serving, Putting, Getting,
                    Replying, Finished

LEMMA NewInv == WorkerInv(Worker) /\ Worker.pc = "headers"
<1> DEFINE u == Worker
<1>1. <<>> \in Contents /\ <<>> \in Seq(Anything) /\ Len(<<>>) = 0
  BY DEF Contents
<1>2. /\ u.pc = "headers" /\ u.heard = <<>> /\ u.buf = <<>>
      /\ u \in WorkerType
  BY <1>1 DEF WorkerType, Worker, Idle, TaskStates
<1>3. NoBlankLine(<<>>)
  BY <1>1 DEF NoBlankLine
<1>4. Listening(u)
  <2>1. [u EXCEPT !.heard = u.heard] = u
    BY <1>2 DEF WorkerType
  <2> QED BY <1>1, <1>2, <1>3, <2>1, Assumed DEF Listening
<1> HIDE DEF u
<1>5. Serving(u) /\ Putting(u) /\ Getting(u) /\ Replying(u) /\ Finished(u)
  BY <1>2 DEF Serving, Putting, Getting, Replying, Finished
<1>6. WorkerInv(u)
  BY <1>2, <1>4, <1>5 DEF WorkerInv
<1> QED BY <1>2, <1>6 DEF u

LEMMA CutInv ==
    ASSUME NEW t
    PROVE  WorkerInv(Cut(t)) /\ Cut(t).pc = "ended"
<1>1. <<>> \in Contents /\ <<>> \in Seq(Anything)
  BY DEF Contents
<1> QED BY <1>1 DEF WorkerInv, WorkerType, Cut, Idle, TaskStates, Listening, Serving, Putting, Getting,
                    Replying, Finished

(* What is left of a worker that is done. *)
LEMMA DoneType ==
    ASSUME NEW t \in WorkerType, NEW pc \in TaskStates
    PROVE  /\ Done(t, pc) \in WorkerType
           /\ Done(t, pc).pc = pc /\ Done(t, pc).req = t.req /\ Done(t, pc).status = t.status
           /\ Done(t, pc).got = 0 /\ Done(t, pc).buf = <<>>
<1>1. <<>> \in Contents /\ <<>> \in Seq(Anything)
  BY DEF Contents
<1>2. t.req \in Requests \cup {None} /\ t.status \in Nat /\ t.cut \in BOOLEAN
  BY DEF WorkerType
<1> DEFINE a == [Idle EXCEPT !.pc = pc]
           b == [a EXCEPT !.req = t.req]
           c == [b EXCEPT !.status = t.status]
<1>3. Done(t, pc) = [c EXCEPT !.cut = t.cut]
  BY DEF Done
<1>4. Idle \in WorkerType /\ Idle.got = 0 /\ Idle.buf = <<>>
  BY <1>1 DEF WorkerType, Idle, TaskStates
<1>5. a \in WorkerType /\ a.pc = pc /\ a.got = 0 /\ a.buf = <<>>
  BY <1>4 DEF WorkerType
<1> HIDE DEF a
<1>6. b \in WorkerType /\ b.pc = pc /\ b.got = 0 /\ b.buf = <<>> /\ b.req = t.req
  BY <1>2, <1>5 DEF WorkerType
<1> HIDE DEF b
<1>7. /\ c \in WorkerType /\ c.pc = pc /\ c.got = 0 /\ c.buf = <<>> /\ c.req = t.req
      /\ c.status = t.status
  BY <1>2, <1>6 DEF WorkerType
<1> HIDE DEF c
<1> QED BY <1>2, <1>3, <1>7 DEF WorkerType

LEMMA StatusType ==
    ASSUME NEW t \in WorkerType, NEW status \in Nat, NEW u, u = [t EXCEPT !.status = status]
    PROVE  /\ u \in WorkerType
           /\ u.pc = t.pc /\ u.req = t.req /\ u.status = status /\ u.got = t.got /\ u.buf = t.buf
<1>1. u \in WorkerType
  BY DEF WorkerType
<1>2. /\ u.pc = t.pc /\ u.req = t.req /\ u.status = status /\ u.got = t.got /\ u.buf = t.buf
  BY DEF WorkerType
<1> QED BY <1>1, <1>2

LEMMA AskedType ==
    ASSUME NEW t \in WorkerType, NEW r \in Requests, NEW u, u = [t EXCEPT !.req = r]
    PROVE  u \in WorkerType /\ u.req = r /\ u.status = t.status
<1>1. u \in WorkerType
  BY DEF WorkerType
<1> QED BY <1>1 DEF WorkerType

(* An answer to a request with complete headers. *)
LEMMA ReplyInv ==
    ASSUME NEW t \in WorkerType, t.req \in Requests, HeadersFit(t.req), NEW status \in Nat \ {0},
           status = 400 <=> ~t.req.parses, status = 200 => t.req.method # "GET"
    PROVE  WorkerInv(Reply(t, status)) /\ Reply(t, status).pc = "reply"
<1> DEFINE u == Reply(t, status)
<1>1. <<>> \in Contents /\ <<>> \in Seq(Anything)
  BY DEF Contents
<1>2. /\ u.pc = "reply" /\ u.req = t.req /\ u.status = status /\ u.got = 0 /\ u.buf = <<>>
      /\ u \in WorkerType
  <2> DEFINE d == Done(t, "reply")
  <2>1. u = [d EXCEPT !.status = status]
    BY DEF Reply
  <2>2. d \in WorkerType /\ d.pc = "reply" /\ d.req = t.req /\ d.got = 0 /\ d.buf = <<>>
    <3>1. "reply" \in TaskStates
      BY DEF TaskStates
    <3> QED BY <3>1, DoneType
  <2> HIDE DEF u, d
  <2>3. status \in Nat
    OBVIOUS
  <2> QED BY <2>1, <2>2, <2>3, StatusType
<1>3. 0 <= Len(Stream(t.req))
  BY RequestParts, LenProperties DEF Contents
<1> HIDE DEF u
<1>4. Serving(u) /\ Replying(u)
  BY <1>2, <1>3 DEF Serving, Replying
<1>5. Listening(u) /\ Putting(u) /\ Getting(u) /\ Finished(u)
  BY <1>2 DEF Listening, Putting, Getting, Finished
<1>6. WorkerInv(u)
  BY <1>2, <1>4, <1>5 DEF WorkerInv
<1> QED BY <1>2, <1>6 DEF u

LEMMA DoneInv ==
    ASSUME NEW t, WorkerInv(t), t.req \in Requests, HeadersFit(t.req), t.status # 0,
           t.status = 400 <=> ~t.req.parses, t.status = 200 => t.req.method # "GET"
    PROVE  WorkerInv(Done(t, "ended")) /\ Done(t, "ended").pc = "ended"
<1> DEFINE u == Done(t, "ended")
<1>1. <<>> \in Contents /\ <<>> \in Seq(Anything)
  BY DEF Contents
<1>2. t \in WorkerType
  BY DEF WorkerInv
<1>3. /\ u.pc = "ended" /\ u.req = t.req /\ u.status = t.status /\ u.buf = <<>>
      /\ u \in WorkerType
  BY <1>2, DoneType DEF TaskStates
<1> HIDE DEF u
<1>4. Finished(u)
  BY <1>3 DEF Finished
<1>5. Listening(u) /\ Serving(u) /\ Putting(u) /\ Getting(u) /\ Replying(u)
  BY <1>3 DEF Listening, Serving, Putting, Getting, Replying
<1>6. WorkerInv(u)
  BY <1>3, <1>4, <1>5 DEF WorkerInv
<1> QED BY <1>3, <1>6 DEF u

(* Deleting the file under a handle. *)
LEMMA StaleInv ==
    ASSUME NEW t, WorkerInv(t), t.pc \notin {"idle", "headers"}
    PROVE  /\ WorkerInv([t EXCEPT !.stale = TRUE])
           /\ [t EXCEPT !.stale = TRUE].pc = t.pc
           /\ [t EXCEPT !.stale = TRUE].req = t.req
<1> DEFINE u == [t EXCEPT !.stale = TRUE]
<1>1. t \in WorkerType
  BY DEF WorkerInv
<1>2. /\ u.pc = t.pc /\ u.req = t.req /\ u.got = t.got /\ u.heard = t.heard
      /\ u.bodyStart = t.bodyStart /\ u.file = t.file /\ u.buf = t.buf /\ u.status = t.status
      /\ u.sent = t.sent /\ u.cut = t.cut /\ u.stale = TRUE
  BY <1>1 DEF WorkerType
<1>3. u \in WorkerType
  BY <1>1 DEF WorkerType
<1> HIDE DEF u
<1>4. Listening(u) BY <1>2 DEF Listening
<1>5. Serving(u) BY <1>2 DEF Serving, WorkerInv
<1>6. Received(u, u.got) = Received(t, t.got) BY <1>2 DEF Received
<1>7. Putting(u) BY <1>2, <1>6 DEF Putting, WorkerInv
<1>8. Getting(u) BY <1>2 DEF Getting, WorkerInv
<1>9. Replying(u) BY <1>2 DEF Replying, WorkerInv
<1>10. Finished(u) BY <1>2 DEF Finished, WorkerInv
<1>11. WorkerInv(u)
  BY <1>2, <1>3, <1>4, <1>5, <1>7, <1>8, <1>9, <1>10 DEF WorkerInv
<1> QED BY <1>2, <1>11 DEF u

(***************************************************************************)
(* The invariant.                                                          *)
(***************************************************************************)
Open == Reading \cup Writing

Busy == {c \in Tasks : task[c].pc # "idle"}

CardTypes ==
    /\ card \in [Paths -> {None, Directory} \cup Contents]
    /\ promised \in [Paths -> {None} \cup Contents]
    /\ excused \subseteq Paths

(* With FF_FS_LOCK a file that is read is the one on the card, and one     *)
(* that is written is open once.                                           *)
LockInv ==
    fsLock =>
      /\ \A x \in Tasks : task[x].pc \in Reading =>
            ~task[x].stale /\ card[task[x].req.path] = task[x].file
      /\ \A x, y \in Tasks : x # y /\ task[x].pc \in Writing /\ task[y].pc \in Open =>
            task[x].req.path # task[y].req.path

CountInv ==
    /\ instances = Cardinality(Busy) + (IF listener = "ended" THEN 0 ELSE 1)
    /\ Cardinality(Busy) <= MaxClients

TasksInv == task \in [Tasks -> WorkerType] /\ \A c \in Tasks : WorkerInv(task[c])

Switches == fsLock \in BOOLEAN /\ stopped \in BOOLEAN /\ listener \in {"new", "accepting", "ended"}

IInv == Switches /\ CardTypes /\ TasksInv /\ CountInv /\ LockInv /\ AnsweredIsOnCard

LEMMA Busies ==
    /\ IsFiniteSet(Busy) /\ Cardinality(Busy) \in Nat
    /\ IsFiniteSet(Busy') /\ Cardinality(Busy') \in Nat
<1>1. Busy \in SUBSET Tasks /\ Busy' \in SUBSET Tasks
  BY DEF Busy
<1> QED BY <1>1, Assumed, FS_Subset, FS_CardinalityType

(***************************************************************************)
(* A step of worker c, which is t afterwards, and what it may do to the    *)
(* card and to the handles of others.                                      *)
(***************************************************************************)
Disturbs(c, t, hurt) ==
    \/ hurt # {}
    \/ \E x \in Tasks \ {c} : task[x].pc \in Reading /\ card'[task[x].req.path] # card[task[x].req.path]
    \/ t.pc \in Reading /\ (t.stale \/ card'[t.req.path] # t.file)
    \/ \E x \in Tasks \ {c} :
          /\ t.req.path = task[x].req.path
          /\ \/ t.pc \in Writing /\ task[x].pc \in Open
             \/ t.pc \in Open /\ task[x].pc \in Writing

LEMMA StepKeeps ==
    ASSUME IInv, NEW c \in Tasks, task[c].pc # "idle", NEW t, WorkerInv(t), t.pc # "idle",
           NEW hurt, hurt \subseteq {x \in Tasks : task[x].pc \in Open},
           task' = TasksAfter(c, t, hurt), UNCHANGED <<fsLock, listener, instances, stopped>>,
           CardTypes', AnsweredIsOnCard', fsLock => ~Disturbs(c, t, hurt)
    PROVE  IInv'
<1>1. ASSUME NEW x \in Tasks \ {c}, x \in hurt
      PROVE  /\ task'[x] = [task[x] EXCEPT !.stale = TRUE]
             /\ WorkerInv(task'[x]) /\ task'[x].pc = task[x].pc /\ task'[x].req = task[x].req
  <2>1. task'[x] = [task[x] EXCEPT !.stale = TRUE]
    BY <1>1 DEF TasksAfter
  <2>2. WorkerInv(task[x]) /\ task[x].pc \notin {"idle", "headers"}
    BY <1>1 DEF IInv, TasksInv, Open, Reading, Writing
  <2> QED BY <2>1, <2>2, StaleInv
<1>2. ASSUME NEW x \in Tasks \ {c}, x \notin hurt PROVE task'[x] = task[x]
  BY <1>2 DEF TasksAfter
<1>3. task'[c] = t
  BY DEF TasksAfter
<1>4. \A x \in Tasks : WorkerInv(task'[x])
  BY <1>1, <1>2, <1>3 DEF IInv, TasksInv
<1>5. TasksInv'
  <2>1. \A x \in Tasks : task'[x] \in WorkerType
    BY <1>4 DEF WorkerInv
  <2>2. task' = [x \in Tasks |-> task'[x]]
    BY DEF TasksAfter
  <2> QED BY <1>4, <2>1, <2>2 DEF TasksInv
<1>6. \A x \in Tasks \ {c} : task'[x].pc = task[x].pc /\ task'[x].req = task[x].req
  BY <1>1, <1>2
<1>7. Busy' = Busy
  BY <1>3, <1>6 DEF Busy
<1>8. CountInv'
  BY <1>7 DEF IInv, CountInv
<1>9. LockInv'
  <2> SUFFICES ASSUME fsLock PROVE LockInv'
    BY DEF LockInv
  <2>1. ~Disturbs(c, t, hurt)
    OBVIOUS
  <2>2. \A x \in Tasks \ {c} : task'[x] = task[x]
    BY <1>2, <2>1 DEF Disturbs
  <2>3. ASSUME NEW x \in Tasks, task'[x].pc \in Reading
        PROVE  ~task'[x].stale /\ card'[task'[x].req.path] = task'[x].file
    BY <1>3, <2>1, <2>2, <2>3 DEF Disturbs, IInv, LockInv
  <2>4. ASSUME NEW x \in Tasks, NEW y \in Tasks, x # y, task'[x].pc \in Writing, task'[y].pc \in Open
        PROVE  task'[x].req.path # task'[y].req.path
    <3>1. CASE x = c BY <1>3, <2>1, <2>2, <2>4, <3>1 DEF Disturbs
    <3>2. CASE y = c BY <1>3, <2>1, <2>2, <2>4, <3>2 DEF Disturbs
    <3>3. CASE x # c /\ y # c BY <2>2, <2>4, <3>3 DEF IInv, LockInv
    <3> QED BY <3>1, <3>2, <3>3
  <2> QED BY <2>3, <2>4 DEF LockInv
<1>10. Switches'
  BY DEF IInv, Switches
<1> QED BY <1>5, <1>8, <1>9, <1>10 DEF IInv

(* One that leaves the card and the handles alone. *)
LEMMA BecomesKeeps ==
    ASSUME IInv, NEW c \in Tasks, task[c].pc # "idle", NEW t, WorkerInv(t), t.pc # "idle",
           Becomes(c, t), UNCHANGED <<fsLock, listener, instances, stopped>>,
           \/ t.pc \notin Open
           \/ task[c].pc \in Reading /\ t.pc \in Reading /\ t.req = task[c].req /\ t.file = task[c].file
              /\ t.stale = task[c].stale
           \/ fsLock => /\ t.pc \in Reading /\ ~t.stale /\ card[t.req.path] = t.file
                        /\ OpenIn(Writing, t.req.path) = {}
    PROVE  IInv'
<1>1. task' = TasksAfter(c, t, {})
  BY DEF Becomes, TasksAfter, IInv, TasksInv
<1>2. card' = card /\ promised' = promised /\ excused' = excused
  BY DEF Becomes, cardVars
<1>3. CardTypes' /\ AnsweredIsOnCard'
  BY <1>2 DEF IInv, CardTypes, AnsweredIsOnCard
<1>4. Reading \cap Writing = {} /\ Reading \subseteq Open
  BY DEF Reading, Writing, Open
<1>5. fsLock => ~Disturbs(c, t, {})
  <2> SUFFICES ASSUME fsLock PROVE ~Disturbs(c, t, {})
    OBVIOUS
  <2>1. CASE t.pc \notin Open
    BY <1>2, <1>4, <2>1 DEF Disturbs, Open
  <2>2. CASE task[c].pc \in Reading /\ t.pc \in Reading /\ t.req = task[c].req /\ t.file = task[c].file
             /\ t.stale = task[c].stale
    BY <1>2, <1>4, <2>2 DEF Disturbs, IInv, LockInv
  <2>3. CASE t.pc \in Reading /\ ~t.stale /\ card[t.req.path] = t.file /\ OpenIn(Writing, t.req.path) = {}
    BY <1>2, <1>4, <2>3 DEF Disturbs, OpenIn
  <2> QED BY <2>1, <2>2, <2>3
<1> QED BY <1>1, <1>3, <1>5, StepKeeps

(* A worker whose headers are complete. *)
Fresh(t) ==
    /\ t \in WorkerType /\ t.req \in Requests /\ HeadersFit(t.req)
    /\ t.bodyStart <= t.got /\ t.got <= Len(Stream(t.req))

(* A PUT that may write: what the card becomes beside its own file, and    *)
(* whose handles it meets.                                                 *)
Alone(c, t, fs, hurt) ==
    /\ fs \in [Paths -> {None, Directory} \cup Contents]
    /\ \A q \in Paths \ {t.req.path} : card[q] # None => fs[q] = card[q]
    /\ hurt \subseteq {x \in Tasks : task[x].pc \in Open}
    /\ fsLock => /\ hurt = {}
                 /\ \A x \in Tasks \ {c} : task[x].pc \in Open => task[x].req.path # t.req.path

(* What a file that is read is on the card. *)
LEMMA ReadIsThere ==
    ASSUME IInv, fsLock, NEW x \in Tasks, task[x].pc \in Reading
    PROVE  task[x].req.path \in Paths /\ card[task[x].req.path] # None
<1>1. card[task[x].req.path] = task[x].file
  BY DEF IInv, LockInv
<1>2. task[x].file \in Contents
  BY DEF IInv, TasksInv, WorkerInv, WorkerType
<1>3. task[x].req.path \in Paths
  BY DEF IInv, TasksInv, WorkerInv, Getting, Reading
<1> QED BY <1>1, <1>2, <1>3, Assumed

LEMMA PutClosesKeeps ==
    ASSUME IInv, NEW c \in Tasks, task[c].pc # "idle", NEW t, Fresh(t), t.req.parses, t.req.path \in Paths,
           NEW fs, NEW hurt, Alone(c, t, fs, hurt),
           NEW o, o.file \in Contents, o.ok \in BOOLEAN, o.ok => o.file = Body(t),
           PutCloses(c, t, o, fs, hurt), UNCHANGED <<fsLock, listener, instances, stopped>>
    PROVE  IInv'
<1> DEFINE p == t.req.path
           status == IF ~o.ok THEN 500 ELSE IF t.existed THEN 204 ELSE 201
<1>1. PICK updated \in IF t.stale THEN {FALSE} ELSE BOOLEAN :
        /\ card' = IF updated THEN [fs EXCEPT ![p] = o.file] ELSE fs
        /\ promised' = [promised EXCEPT ![p] = IF o.ok THEN Body(t) ELSE None]
        /\ excused' = IF updated THEN excused \ {p} ELSE excused \cup {p}
        /\ task' = TasksAfter(c, Reply(t, status), hurt)
  BY DEF PutCloses
<1>2. status \in Nat \ {0} /\ status # 400 /\ status # 200
  OBVIOUS
<1>3. WorkerInv(Reply(t, status)) /\ Reply(t, status).pc = "reply"
  BY <1>2, ReplyInv DEF Fresh
<1>4. CardTypes'
  BY <1>1 DEF CardTypes, IInv, Alone
<1>5. AnsweredIsOnCard'
  <2> SUFFICES ASSUME NEW q \in Paths, promised'[q] # None, q \notin excused'
               PROVE  card'[q] = promised'[q]
    BY DEF AnsweredIsOnCard
  <2>1. CASE q = p
    <3>1. updated
      BY <1>1, <2>1
    <3>2. promised'[q] = IF o.ok THEN Body(t) ELSE None
      BY <1>1, <2>1 DEF IInv, CardTypes
    <3>3. o.ok
      BY <3>2
    <3>4. card'[q] = o.file
      BY <1>1, <2>1, <3>1 DEF Alone
    <3> QED BY <3>2, <3>3, <3>4
  <2>2. CASE q # p
    <3>1. promised'[q] = promised[q] /\ q \notin excused /\ card'[q] = fs[q]
      BY <1>1, <2>2 DEF IInv, CardTypes, Alone
    <3>2. card[q] = promised[q] /\ fs[q] = card[q]
      BY <2>2, <3>1 DEF IInv, AnsweredIsOnCard, Alone
    <3> QED BY <3>1, <3>2
  <2> QED BY <2>1, <2>2
<1>6. fsLock => ~Disturbs(c, Reply(t, status), hurt)
  <2> SUFFICES ASSUME fsLock PROVE ~Disturbs(c, Reply(t, status), hurt)
    OBVIOUS
  <2>1. hurt = {}
    BY DEF Alone
  <2>2. ASSUME NEW x \in Tasks \ {c}, task[x].pc \in Reading
        PROVE  card'[task[x].req.path] = card[task[x].req.path]
    <3>1. task[x].req.path \in Paths \ {p} /\ card[task[x].req.path] # None
      BY <2>2, ReadIsThere DEF Alone, Open
    <3> QED BY <1>1, <3>1 DEF Alone
  <2>3. Reply(t, status).pc \notin Reading \cup Writing \cup Open
    BY <1>3 DEF Reading, Writing, Open
  <2> HIDE DEF status
  <2> QED BY <2>1, <2>2, <2>3 DEF Disturbs
<1>7. hurt \subseteq {x \in Tasks : task[x].pc \in Open}
  BY DEF Alone
<1> HIDE DEF status
<1> QED BY <1>1, <1>3, <1>4, <1>5, <1>6, <1>7, StepKeeps

LEMMA PutReceivedKeeps ==
    ASSUME IInv, NEW c \in Tasks, task[c].pc # "idle", NEW t, Fresh(t), t.req.parses, t.req.path \in Paths,
           NEW fs, NEW hurt, Alone(c, t, fs, hurt),
           t.buf \in Contents, Len(t.buf) < WriteBufSize,
           NEW chunk \in Contents, Len(chunk) <= RecvBufSize,
           (t.file \o t.buf) \o chunk = Received(t, t.bodyStart + BodyGot(t)),
           PutReceived(c, t, chunk, fs, hurt), UNCHANGED <<fsLock, listener, instances, stopped>>
    PROVE  IInv'
<1>0. t \in WorkerType /\ t.file \in Contents /\ t.got \in Nat /\ t.bodyStart \in Nat
      /\ t.req \in Requests /\ t.req.length \in Nat
  BY RequestParts DEF Fresh, WorkerType
<1>1. PICK o \in WritePutChunk(t.file, t.buf, chunk) :
        \/ /\ o.ok /\ BodyGot(t) < t.req.length
           /\ card' = fs
           /\ promised' = [promised EXCEPT ![t.req.path] = None]
           /\ task' = TasksAfter(c, [t EXCEPT !.pc = "put", !.file = o.file, !.buf = o.buf], hurt)
           /\ UNCHANGED excused
        \/ /\ o.ok => BodyGot(t) = t.req.length
           /\ \E last \in LastFlush(o) : PutCloses(c, t, last, fs, hurt)
  BY DEF PutReceived
<1>2. /\ o.file \in Contents /\ o.buf \in Contents /\ o.ok \in BOOLEAN
      /\ o.ok => Len(o.buf) < WriteBufSize /\ o.file \o o.buf = Received(t, t.bodyStart + BodyGot(t))
  <2>1. /\ o.file \in Contents /\ o.buf \in Contents /\ o.ok \in BOOLEAN
        /\ o.ok => Len(o.buf) < WriteBufSize /\ o.file \o o.buf = (t.file \o t.buf) \o chunk
    <3>1. PICK file \in Contents, buf \in Contents : file = t.file /\ buf = t.buf
      BY <1>0
    <3>2. o \in WritePutChunk(file, buf, chunk) /\ Len(buf) < WriteBufSize
      BY <3>1
    <3>3. /\ o.file \in Contents /\ o.buf \in Contents /\ o.ok \in BOOLEAN
          /\ o.ok => Len(o.buf) < WriteBufSize /\ o.file \o o.buf = (file \o buf) \o chunk
      BY <3>2, ChunkWritten
    <3> QED BY <3>1, <3>3
  <2> QED BY <2>1
<1>3. CASE /\ o.ok /\ BodyGot(t) < t.req.length
           /\ card' = fs
           /\ promised' = [promised EXCEPT ![t.req.path] = None]
           /\ task' = TasksAfter(c, [t EXCEPT !.pc = "put", !.file = o.file, !.buf = o.buf], hurt)
           /\ UNCHANGED excused
  <2> DEFINE u == [t EXCEPT !.pc = "put", !.file = o.file, !.buf = o.buf]
  <2>1. /\ u.pc = "put" /\ u.req = t.req /\ u.got = t.got /\ u.bodyStart = t.bodyStart
        /\ u.file = o.file /\ u.buf = o.buf
    BY <1>0 DEF WorkerType
  <2>2. u \in WorkerType
    <3>1. o.buf \in Seq(Anything)
      BY <1>2 DEF Contents, Anything
    <3> QED BY <1>0, <1>2, <3>1 DEF WorkerType, TaskStates
  <2>3. t.bodyStart + BodyGot(t) = t.got /\ t.got - t.bodyStart < t.req.length
    BY <1>0, <1>3 DEF BodyGot, Lesser, Fresh
  <2>4. Received(t, t.got) = Received(u, u.got)
    BY <2>1 DEF Received
  <2> HIDE DEF u
  <2>5. Putting(u)
    <3>1. u.file \o u.buf = Received(u, u.got)
      BY <1>2, <1>3, <2>1, <2>3, <2>4
    <3> QED BY <1>2, <1>3, <2>1, <2>3, <3>1 DEF Putting, Fresh
  <2>6. Serving(u)
    BY <2>1 DEF Serving, Fresh
  <2>7. Listening(u) /\ Getting(u) /\ Replying(u) /\ Finished(u)
    BY <2>1 DEF Listening, Getting, Replying, Finished
  <2>8. WorkerInv(u)
    BY <2>1, <2>2, <2>5, <2>6, <2>7 DEF WorkerInv
  <2>9. CardTypes'
    BY <1>3 DEF CardTypes, IInv, Alone
  <2>10. AnsweredIsOnCard'
    <3> SUFFICES ASSUME NEW q \in Paths, promised'[q] # None, q \notin excused'
                 PROVE  card'[q] = promised'[q]
      BY DEF AnsweredIsOnCard
    <3>1. q # t.req.path /\ promised'[q] = promised[q] /\ q \notin excused
      BY <1>3 DEF IInv, CardTypes
    <3>2. card[q] = promised[q]
      BY <3>1 DEF IInv, AnsweredIsOnCard
    <3> QED BY <1>3, <3>1, <3>2 DEF Alone
  <2>11. fsLock => ~Disturbs(c, u, hurt)
    <3> SUFFICES ASSUME fsLock PROVE ~Disturbs(c, u, hurt)
      OBVIOUS
    <3>1. hurt = {} /\ \A x \in Tasks \ {c} : task[x].pc \in Open => task[x].req.path # t.req.path
      BY DEF Alone
    <3>2. ASSUME NEW x \in Tasks \ {c}, task[x].pc \in Reading
          PROVE  card'[task[x].req.path] = card[task[x].req.path]
      <4>1. task[x].req.path \in Paths \ {t.req.path} /\ card[task[x].req.path] # None
        BY <3>1, <3>2, ReadIsThere DEF Open
      <4> QED BY <1>3, <4>1 DEF Alone
    <3>3. u.pc \notin Reading /\ Writing \subseteq Open
      BY <2>1 DEF Reading, Writing, Open
    <3> QED BY <2>1, <3>1, <3>2, <3>3 DEF Disturbs
  <2>12. hurt \subseteq {x \in Tasks : task[x].pc \in Open} /\ task' = TasksAfter(c, u, hurt)
    BY <1>3 DEF Alone, u
  <2> QED BY <2>1, <2>8, <2>9, <2>10, <2>11, <2>12, StepKeeps
<1>4. CASE /\ o.ok => BodyGot(t) = t.req.length
           /\ \E last \in LastFlush(o) : PutCloses(c, t, last, fs, hurt)
  <2>1. PICK last \in LastFlush(o) : PutCloses(c, t, last, fs, hurt)
    BY <1>4
  <2>2. /\ last.file \in Contents /\ last.ok \in BOOLEAN
        /\ last.ok => o.ok /\ last.file = o.file \o o.buf
    <3>1. CASE o.ok
      <4>1. last \in FlushPutBuf(o.file, o.buf)
        BY <2>1, <3>1 DEF LastFlush
      <4>2. /\ last.file \in Contents /\ last.ok \in BOOLEAN
            /\ last.ok => last.file = o.file \o o.buf
        BY <1>2, <4>1, Flushed
      <4> QED BY <3>1, <4>2
    <3>2. CASE ~o.ok
      BY <1>2, <2>1, <3>2 DEF LastFlush
    <3> QED BY <3>1, <3>2
  <2>3. last.ok => last.file = Body(t)
    BY <1>2, <1>4, <2>2 DEF Received, Body
  <2> QED BY <2>1, <2>2, <2>3, PutClosesKeeps
<1> QED BY <1>1, <1>3, <1>4

(***************************************************************************)
(* The methods.                                                            *)
(***************************************************************************)
Untouched(t) == t.sent = <<>> /\ t.buf = <<>> /\ t.file = <<>> /\ ~t.stale

LEMMA AnswersKeeps ==
    ASSUME IInv, NEW c \in Tasks, task[c].pc # "idle", NEW t, Fresh(t), NEW status \in Nat \ {0},
           status = 400 <=> ~t.req.parses, status = 200 => t.req.method # "GET",
           Answers(c, t, status), UNCHANGED <<fsLock, listener, instances, stopped>>
    PROVE  IInv'
<1>1. WorkerInv(Reply(t, status)) /\ Reply(t, status).pc = "reply"
  BY ReplyInv DEF Fresh
<1>2. Reply(t, status).pc \notin Open /\ Reply(t, status).pc # "idle"
  BY <1>1 DEF Open, Reading, Writing
<1> QED BY <1>1, <1>2, BecomesKeeps DEF Answers

LEMMA GetKeeps ==
    ASSUME IInv, NEW c \in Tasks, task[c].pc # "idle", NEW t, Fresh(t), Untouched(t), t.req.parses,
           t.req.path \in Paths \cup {Root}, t.req.method \in {"GET", "HEAD"},
           DoGet(c, t), UNCHANGED <<fsLock, listener, instances, stopped>>
    PROVE  IInv'
<1> DEFINE p == t.req.path
           u == [t EXCEPT !.pc = "getHeader", !.status = 200, !.file = card[p]]
<1>1. CASE Answers(c, t, 404) \/ Answers(c, t, 405) \/ Answers(c, t, 500)
  BY <1>1, AnswersKeeps
<1>2. CASE IsFile(p) /\ ~(fsLock /\ OpenIn(Writing, p) # {}) /\ Becomes(c, u)
  <2>1. p \in Paths /\ card[p] \in Contents
    BY <1>2 DEF IsFile, IInv, CardTypes
  <2>2. t \in WorkerType /\ t.req \in Requests
    BY DEF Fresh
  <2>3. /\ u.pc = "getHeader" /\ u.status = 200 /\ u.file = card[p] /\ u.req = t.req /\ u.got = t.got
        /\ u.sent = <<>> /\ u.buf = <<>> /\ ~u.stale
    BY <2>2 DEF WorkerType, Untouched
  <2>4. u \in WorkerType
    <3> DEFINE a == [t EXCEPT !.pc = "getHeader"]
               b == [a EXCEPT !.status = 200]
    <3>1. u = [b EXCEPT !.file = card[p]]
      BY <2>2 DEF WorkerType
    <3>2. a \in WorkerType
      BY <2>2 DEF WorkerType, TaskStates
    <3> HIDE DEF a, u, p
    <3>3. b \in WorkerType
      <4>1. 200 \in Nat
        OBVIOUS
      <4> QED BY <3>2, <4>1, StatusType
    <3> HIDE DEF b
    <3>4. PICK v \in Contents : v = card[p]
      BY <2>1
    <3>5. u = [b EXCEPT !.file = v]
      BY <3>1, <3>4
    <3> QED BY <3>3, <3>5 DEF WorkerType
  <2> HIDE DEF u
  <2>5. Serving(u)
    BY <2>3 DEF Serving, Fresh
  <2>6. Len(<<>>) = 0 /\ Len(u.file) \in Nat
    BY <2>1, <2>3, LenProperties DEF Contents
  <2>7. Getting(u)
    BY <2>1, <2>3, <2>6 DEF Getting
  <2>8. Listening(u) /\ Putting(u) /\ Replying(u) /\ Finished(u)
    BY <2>3 DEF Listening, Putting, Replying, Finished
  <2>9. WorkerInv(u) /\ u.pc \in Reading
    BY <2>3, <2>4, <2>5, <2>7, <2>8 DEF WorkerInv, Reading
  <2> QED BY <1>2, <2>3, <2>9, BecomesKeeps DEF Reading
<1> QED BY <1>1, <1>2 DEF DoGet

(* A step that answers and changes one entry beside. *)
EntryBecomes(c, t, status, entry, hurt) ==
    /\ status \in Nat \ {0, 200, 400} /\ entry \in {None, Directory}
    /\ card' = [card EXCEPT ![t.req.path] = entry]
    /\ hurt \subseteq {x \in Tasks : task[x].pc \in Open}
    /\ task' = TasksAfter(c, Reply(t, status), hurt)
    /\ \/ card[t.req.path] = None /\ promised' = promised /\ hurt = {}
       \/ /\ promised' = [promised EXCEPT ![t.req.path] = None]
          /\ fsLock => hurt = {} /\ OpenIn(Open, t.req.path) = {}
    /\ excused' = excused

LEMMA EntryKeeps ==
    ASSUME IInv, NEW c \in Tasks, task[c].pc # "idle", NEW t, Fresh(t), t.req.parses, t.req.path \in Paths,
           NEW status, NEW entry, NEW hurt, EntryBecomes(c, t, status, entry, hurt),
           UNCHANGED <<fsLock, listener, instances, stopped>>
    PROVE  IInv'
<1> USE DEF EntryBecomes
<1> DEFINE p == t.req.path
           u == Reply(t, status)
<1>1. WorkerInv(u) /\ u.pc = "reply"
  BY ReplyInv DEF Fresh
<1>2. CardTypes'
  BY DEF IInv, CardTypes
<1>3. AnsweredIsOnCard'
  <2> SUFFICES ASSUME NEW q \in Paths, promised'[q] # None, q \notin excused'
               PROVE  card'[q] = promised'[q]
    BY DEF AnsweredIsOnCard
  <2>1. promised'[q] = promised[q]
    BY DEF IInv, CardTypes
  <2>2. card[q] = promised[q]
    BY <2>1 DEF IInv, AnsweredIsOnCard
  <2>3. q # p
    BY <2>1, <2>2 DEF IInv, CardTypes
  <2> QED BY <2>1, <2>2, <2>3 DEF IInv, CardTypes
<1>4. fsLock => ~Disturbs(c, u, hurt)
  <2> SUFFICES ASSUME fsLock PROVE ~Disturbs(c, u, hurt)
    OBVIOUS
  <2>1. hurt = {}
    OBVIOUS
  <2>2. ASSUME NEW x \in Tasks, task[x].pc \in Reading
        PROVE  card'[task[x].req.path] = card[task[x].req.path]
    <3>1. task[x].req.path \in Paths /\ card[task[x].req.path] # None
      BY <2>2, ReadIsThere
    <3>2. OpenIn(Open, p) = {} => task[x].req.path # p
      BY <2>2 DEF OpenIn, Open
    <3>3. task[x].req.path # p
      BY <3>1, <3>2
    <3> QED BY <3>1, <3>3 DEF IInv, CardTypes
  <2>3. u.pc \notin Reading \cup Writing \cup Open
    BY <1>1 DEF Reading, Writing, Open
  <2> HIDE DEF u
  <2> QED BY <2>1, <2>2, <2>3 DEF Disturbs
<1> HIDE DEF u
<1>5. u.pc # "idle" /\ hurt \subseteq {x \in Tasks : task[x].pc \in Open}
  BY <1>1
<1>6. task' = TasksAfter(c, u, hurt)
  BY DEF u
<1> QED BY <1>1, <1>2, <1>3, <1>4, <1>5, <1>6, StepKeeps

LEMMA MkcolKeeps ==
    ASSUME IInv, NEW c \in Tasks, task[c].pc # "idle", NEW t, Fresh(t), t.req.parses,
           t.req.path \in Paths \cup {Root},
           DoMkcol(c, t), UNCHANGED <<fsLock, listener, instances, stopped>>
    PROVE  IInv'
<1> DEFINE p == t.req.path
<1>1. CASE Answers(c, t, 405) \/ Answers(c, t, 409) \/ Answers(c, t, 500)
  BY <1>1, AnswersKeeps
<1>2. CASE /\ ~Exists(p)
           /\ card' = [card EXCEPT ![p] = Directory]
           /\ task' = [task EXCEPT ![c] = Reply(t, 201)]
           /\ UNCHANGED <<promised, excused>>
  <2>1. p \in Paths /\ card[p] = None
    BY <1>2 DEF Exists
  <2>2. task' = TasksAfter(c, Reply(t, 201), {})
    BY <1>2 DEF TasksAfter, IInv, TasksInv
  <2>3. {} \in SUBSET {x \in Tasks : task[x].pc \in Open} /\ Directory \in {None, Directory}
        /\ 201 \in Nat \ {0, 200, 400}
    OBVIOUS
  <2>4. card[p] = None /\ promised' = promised /\ {} = {}
    BY <1>2, <2>1
  <2>5. excused' = excused /\ card' = [card EXCEPT ![p] = Directory]
    BY <1>2
  <2>6. EntryBecomes(c, t, 201, Directory, {})
    BY <2>2, <2>3, <2>4, <2>5 DEF EntryBecomes
  <2> QED BY <2>1, <2>6, EntryKeeps
<1> QED BY <1>1, <1>2 DEF DoMkcol

LEMMA DeleteKeeps ==
    ASSUME IInv, NEW c \in Tasks, task[c].pc # "idle", NEW t, Fresh(t), t.req.parses, t.req.path \in Paths,
           DoDelete(c, t), UNCHANGED <<fsLock, listener, instances, stopped>>
    PROVE  IInv'
<1> DEFINE p    == t.req.path
           open == OpenIn(Reading \cup Writing, p)
<1>1. CASE Answers(c, t, 404) \/ Answers(c, t, 409) \/ Answers(c, t, 500)
  BY <1>1, AnswersKeeps
<1>2. CASE /\ ~(fsLock /\ open # {})
           /\ card' = [card EXCEPT ![p] = None]
           /\ task' = TasksAfter(c, Reply(t, 204), open)
           /\ promised' = [promised EXCEPT ![p] = None]
           /\ UNCHANGED excused
  <2>1. open = OpenIn(Open, p) /\ open \in SUBSET {x \in Tasks : task[x].pc \in Open}
    BY DEF OpenIn, Open
  <2>2. 204 \in Nat \ {0, 200, 400} /\ None \in {None, Directory}
    OBVIOUS
  <2>3. /\ promised' = [promised EXCEPT ![p] = None]
        /\ fsLock => open = {} /\ OpenIn(Open, p) = {}
    BY <1>2, <2>1
  <2>4. excused' = excused /\ card' = [card EXCEPT ![p] = None] /\ task' = TasksAfter(c, Reply(t, 204), open)
    BY <1>2
  <2> HIDE DEF open
  <2>5. EntryBecomes(c, t, 204, None, open)
    BY <2>1, <2>2, <2>3, <2>4 DEF EntryBecomes
  <2> QED BY <2>5, EntryKeeps
<1> QED BY <1>1, <1>2 DEF DoDelete

LEMMA PutKeeps ==
    ASSUME IInv, NEW c \in Tasks, task[c].pc # "idle", NEW t, Fresh(t), Untouched(t), t.req.parses,
           t.got - t.bodyStart <= RecvBufSize, 0 < WriteBufSize, t.req.path \in Paths \cup {Root},
           DoPut(c, t), UNCHANGED <<fsLock, listener, instances, stopped>>
    PROVE  IInv'
<1> DEFINE p == t.req.path
<1>1. CASE Answers(c, t, 409)
  BY <1>1, AnswersKeeps
<1>2. CASE p # Root
  <2> DEFINE fs(made) == [q \in Paths |-> IF q \in made THEN Directory ELSE card[q]]
             open == OpenIn(Reading \cup Writing, p)
  <2>1. PICK made \in SUBSET Above[p] :
          /\ DirsMade(p, made)
          /\ \/ card' = fs(made) /\ task' = [task EXCEPT ![c] = Reply(t, 409)] /\ UNCHANGED <<promised, excused>>
             \/ /\ ~(fsLock /\ open # {})
                /\ PutReceived(c, [t EXCEPT !.existed = Exists(p)],
                               SubSeq(Stream(t.req), t.bodyStart + 1, t.bodyStart + BodyGot(t)),
                               [fs(made) EXCEPT ![p] = <<>>], OpenIn(Reading, p))
    BY <1>2 DEF DoPut
  <2>2. p \in Paths /\ made \subseteq Paths \ {p} /\ \A q \in made : card[q] = None
    BY <1>2, <2>1, WebDavAssumption DEF WebDavAssumption, DirsMade
  <2>3. /\ fs(made) \in [Paths -> {None, Directory} \cup Contents]
        /\ \A q \in Paths : card[q] # None => fs(made)[q] = card[q]
    BY <2>2 DEF IInv, CardTypes
  <2>4. <<>> \in Contents /\ Len(<<>>) = 0
    BY DEF Contents
  <2>5. CASE card' = fs(made) /\ task' = [task EXCEPT ![c] = Reply(t, 409)] /\ UNCHANGED <<promised, excused>>
    <3> DEFINE u == Reply(t, 409)
    <3>1. WorkerInv(u) /\ u.pc = "reply"
      BY ReplyInv DEF Fresh
    <3>2. task' = TasksAfter(c, u, {})
      BY <2>5 DEF TasksAfter, IInv, TasksInv
    <3> HIDE DEF u
    <3>3. CardTypes'
      BY <2>3, <2>5 DEF IInv, CardTypes
    <3>4. AnsweredIsOnCard'
      <4>1. ASSUME NEW q \in Paths, promised[q] # None, q \notin excused
            PROVE  card'[q] = promised[q]
        <5>1. card[q] = promised[q]
          BY <4>1 DEF IInv, AnsweredIsOnCard
        <5> QED BY <2>3, <2>5, <4>1, <5>1
      <4> QED BY <2>5, <4>1 DEF AnsweredIsOnCard
    <3>5. fsLock => ~Disturbs(c, u, {})
      <4> SUFFICES ASSUME fsLock PROVE ~Disturbs(c, u, {})
        OBVIOUS
      <4>1. ASSUME NEW x \in Tasks \ {c}, task[x].pc \in Reading
            PROVE  card'[task[x].req.path] = card[task[x].req.path]
        BY <2>3, <2>5, <4>1, ReadIsThere
      <4>2. u.pc \notin Reading \cup Writing \cup Open
        BY <3>1 DEF Reading, Writing, Open
      <4> QED BY <4>1, <4>2 DEF Disturbs
    <3>6. u.pc # "idle" /\ {} \subseteq {x \in Tasks : task[x].pc \in Open}
      BY <3>1
    <3> QED BY <3>1, <3>2, <3>3, <3>4, <3>5, <3>6, StepKeeps
  <2>6. CASE /\ ~(fsLock /\ open # {})
             /\ PutReceived(c, [t EXCEPT !.existed = Exists(p)],
                            SubSeq(Stream(t.req), t.bodyStart + 1, t.bodyStart + BodyGot(t)),
                            [fs(made) EXCEPT ![p] = <<>>], OpenIn(Reading, p))
    <3> DEFINE u     == [t EXCEPT !.existed = Exists(p)]
               chunk == SubSeq(Stream(t.req), t.bodyStart + 1, t.bodyStart + BodyGot(t))
               fsNow == [fs(made) EXCEPT ![p] = <<>>]
               hurt  == OpenIn(Reading, p)
    <3>0. t \in WorkerType /\ t.req \in Requests /\ t.got \in Nat /\ t.bodyStart \in Nat /\ t.req.length \in Nat
          /\ t.bodyStart <= t.got /\ t.got <= Len(Stream(t.req)) /\ Stream(t.req) \in Contents
      BY RequestParts DEF Fresh, WorkerType
    <3>1. /\ u.req = t.req /\ u.got = t.got /\ u.bodyStart = t.bodyStart
          /\ u.file = <<>> /\ u.buf = <<>> /\ u \in WorkerType
      BY <3>0 DEF WorkerType, Untouched, Exists
    <3>2. Fresh(u)
      <4> HIDE DEF u
      <4> QED BY <3>1 DEF Fresh
    <3>3. BodyGot(u) = BodyGot(t) /\ BodyGot(t) \in Nat /\ t.bodyStart + BodyGot(t) <= t.got
          /\ BodyGot(t) <= RecvBufSize
      <4>1. BodyGot(u) = BodyGot(t)
        BY <3>1 DEF BodyGot
      <4>2. t.got - t.bodyStart \in Nat
        BY <3>0
      <4>3. BodyGot(t) \in Nat /\ BodyGot(t) <= t.got - t.bodyStart
        BY <3>0, <4>2, LesserType DEF BodyGot
      <4> QED BY <3>0, <4>1, <4>3, Assumed
    <3>4. chunk \in Contents /\ Len(chunk) = BodyGot(t)
      <4>1. /\ t.bodyStart + BodyGot(t) \in Nat /\ t.bodyStart <= t.bodyStart + BodyGot(t)
            /\ t.bodyStart + BodyGot(t) <= Len(Stream(t.req))
            /\ (t.bodyStart + BodyGot(t)) - t.bodyStart = BodyGot(t)
        <5>1. Len(Stream(t.req)) \in Nat
          BY <3>0, LenProperties DEF Contents
        <5> QED BY <3>0, <3>3, <5>1
      <4> QED BY <3>0, <4>1, Stretch DEF Contents
    <3>5. (u.file \o u.buf) \o chunk = Received(u, u.bodyStart + BodyGot(u))
      <4>1. (u.file \o u.buf) \o chunk = chunk
        <5>1. <<>> \o <<>> = <<>>
          BY <2>4, ConcatEmptySeq DEF Contents
        <5>2. <<>> \o chunk = chunk
          BY <3>4, ConcatEmptySeq DEF Contents
        <5> QED BY <3>1, <5>1, <5>2
      <4>2. Received(u, u.bodyStart + BodyGot(u)) = chunk
        BY <3>1, <3>3 DEF Received
      <4> QED BY <4>1, <4>2
    <3>6. Alone(c, u, fsNow, hurt)
      <4>1. fsNow \in [Paths -> {None, Directory} \cup Contents]
        BY <2>2, <2>3, <2>4
      <4>2. \A q \in Paths \ {p} : card[q] # None => fsNow[q] = card[q]
        BY <2>2, <2>3
      <4>3. hurt \subseteq {x \in Tasks : task[x].pc \in Open}
        BY DEF OpenIn, Open
      <4>4. fsLock => hurt = {} /\ \A x \in Tasks \ {c} : task[x].pc \in Open => task[x].req.path # p
        BY <2>6 DEF OpenIn, Open
      <4> HIDE DEF u, fsNow, hurt
      <4> QED BY <3>1, <4>1, <4>2, <4>3, <4>4 DEF Alone
    <3>7. PutReceived(c, u, chunk, fsNow, hurt)
      BY <2>6
    <3>8. u.buf \in Contents /\ Len(u.buf) < WriteBufSize /\ u.req.parses /\ u.req.path \in Paths
      BY <2>2, <2>4, <3>1
    <3> HIDE DEF u, chunk, fsNow, hurt
    <3> QED BY <3>2, <3>3, <3>4, <3>5, <3>6, <3>7, <3>8, PutReceivedKeeps
  <2> QED BY <2>1, <2>5, <2>6
<1> QED BY <1>1, <1>2 DEF DoPut

LEMMA DispatchKeeps ==
    ASSUME IInv, NEW c \in Tasks, task[c].pc # "idle", NEW t, Fresh(t), Untouched(t),
           t.got - t.bodyStart <= RecvBufSize,
           Dispatch(c, t), UNCHANGED <<fsLock, listener, instances, stopped>>
    PROVE  IInv'
<1> DEFINE m == t.req.method
<1>0. /\ t.req.path \in Paths \cup {Root, DotDot} /\ m \in Methods /\ t.req.parses \in BOOLEAN
      /\ 0 < WriteBufSize
  BY RequestParts, Assumed DEF Fresh
<1>1. CASE ~t.req.parses
  BY <1>1, AnswersKeeps DEF Dispatch
<1>2. CASE t.req.parses /\ m = "OPTIONS"
  BY <1>2, AnswersKeeps DEF Dispatch
<1>3. CASE t.req.parses /\ (Answers(c, t, 501) \/ Answers(c, t, 403))
  BY <1>3, AnswersKeeps
<1>4. CASE t.req.parses /\ t.req.path # DotDot /\ m \in {"GET", "HEAD"} /\ DoGet(c, t)
  BY <1>0, <1>4, GetKeeps
<1>5. CASE t.req.parses /\ t.req.path # DotDot /\ DoPut(c, t)
  BY <1>0, <1>5, PutKeeps
<1>6. CASE t.req.parses /\ t.req.path \notin {DotDot, Root} /\ DoDelete(c, t)
  BY <1>0, <1>6, DeleteKeeps
<1>7. CASE t.req.parses /\ t.req.path # DotDot /\ DoMkcol(c, t)
  BY <1>0, <1>7, MkcolKeeps
<1>8. CASE t.req.parses /\ DoPropfind(c, t)
  BY <1>8, AnswersKeeps DEF DoPropfind
<1>9. CASE t.req.parses
  <2>1. CASE m = "OPTIONS" BY <1>2, <1>9, <2>1
  <2>2. CASE m = "LOCK" BY <1>3, <1>9, <2>2 DEF Dispatch
  <2>3. CASE t.req.path = DotDot /\ m \notin {"OPTIONS", "LOCK"} BY <1>3, <1>9, <2>3 DEF Dispatch
  <2>4. CASE t.req.path # DotDot /\ m \in {"GET", "HEAD"} BY <1>4, <1>9, <2>4 DEF Dispatch
  <2>5. CASE t.req.path # DotDot /\ m = "PUT" BY <1>5, <1>9, <2>5 DEF Dispatch
  <2>6. CASE t.req.path # DotDot /\ m = "DELETE" BY <1>3, <1>6, <1>9, <2>6 DEF Dispatch
  <2>7. CASE t.req.path # DotDot /\ m = "MKCOL" BY <1>7, <1>9, <2>7 DEF Dispatch
  <2>8. CASE t.req.path # DotDot /\ m = "PROPFIND" BY <1>8, <1>9, <2>8 DEF Dispatch
  <2> QED BY <1>0, <2>1, <2>2, <2>3, <2>4, <2>5, <2>6, <2>7, <2>8 DEF Methods
<1> QED BY <1>0, <1>1, <1>9

(***************************************************************************)
(* The headers.  The search leaves out what it has searched before.        *)
(***************************************************************************)
LEMMA BlankLineIs ==
    ASSUME NEW s \in Contents, NEW i \in Nat, i + 4 <= Len(s)
    PROVE  BlankLineAt(s, i) <=> s[i + 1] = Cr /\ s[i + 2] = Lf /\ s[i + 3] = Cr /\ s[i + 4] = Lf
<1> DEFINE u == SubSeq(s, i + 1, i + 4)
           v == <<Cr, Lf, Cr, Lf>>
<1>1. u \in Contents /\ Len(u) = 4 /\ \A k \in 1..4 : u[k] = s[i + k]
  <2>1. i + 4 \in Nat /\ i <= i + 4 /\ (i + 4) - i = 4
    OBVIOUS
  <2>2. u \in Contents /\ Len(u) = (i + 4) - i /\ \A k \in 1..((i + 4) - i) : u[k] = s[i + k]
    BY <2>1, Stretch DEF Contents
  <2> QED BY <2>1, <2>2
<1>2. u[1] = s[i + 1] /\ u[2] = s[i + 2] /\ u[3] = s[i + 3] /\ u[4] = s[i + 4]
  BY <1>1
<1>3. v \in Contents /\ Len(v) = 4 /\ v[1] = Cr /\ v[2] = Lf /\ v[3] = Cr /\ v[4] = Lf
  BY WebDavAssumption DEF WebDavAssumption, Contents
<1>4. (\A k \in 1..4 : u[k] = v[k]) <=> u[1] = v[1] /\ u[2] = v[2] /\ u[3] = v[3] /\ u[4] = v[4]
  <2>1. \A k \in 1..4 : k = 1 \/ k = 2 \/ k = 3 \/ k = 4
    OBVIOUS
  <2>2. 1 \in 1..4 /\ 2 \in 1..4 /\ 3 \in 1..4 /\ 4 \in 1..4
    OBVIOUS
  <2> HIDE DEF u, v
  <2> QED BY <2>1, <2>2, Zenon
<1>5. u = v <=> \A k \in 1..4 : u[k] = v[k]
  <2> HIDE DEF u, v
  <2>1. (\A k \in 1..Len(u) : u[k] = v[k]) => u = v
    BY <1>1, <1>3, SeqEqual DEF Contents
  <2> QED BY <1>1, <2>1
<1>6. BlankLineAt(s, i) <=> u = v
  BY DEF BlankLineAt
<1> HIDE DEF u, v
<1> QED BY <1>2, <1>3, <1>4, <1>5, <1>6

(* Two streams that agree so far have the same blank lines so far. *)
LEMMA SameBlankLine ==
    ASSUME NEW s \in Contents, NEW now \in Contents, Len(now) <= Len(s),
           \A k \in 1..Len(now) : now[k] = s[k], NEW i \in Nat, i + 4 <= Len(now)
    PROVE  BlankLineAt(s, i) <=> BlankLineAt(now, i)
<1>1. Len(s) \in Nat /\ Len(now) \in Nat
  BY LenProperties DEF Contents
<1>2. i + 4 <= Len(s)
  BY <1>1
<1>3. i + 1 \in 1..Len(now) /\ i + 2 \in 1..Len(now) /\ i + 3 \in 1..Len(now) /\ i + 4 \in 1..Len(now)
  BY <1>1
<1>4. now[i + 1] = s[i + 1] /\ now[i + 2] = s[i + 2] /\ now[i + 3] = s[i + 3] /\ now[i + 4] = s[i + 4]
  BY <1>3, Zenon
<1> QED BY <1>2, <1>4, BlankLineIs

LEMMA HearingIs ==
    ASSUME NEW heard \in Contents, Len(heard) < RecvBufSize, NEW h \in Hearings(heard)
    PROVE  /\ h.req \in Requests /\ h.now \in Contents
           /\ Len(heard) < Len(h.now) /\ Len(h.now) <= RecvBufSize /\ Len(h.now) <= Len(Stream(h.req))
           /\ \A k \in 1..Len(h.now) : h.now[k] = Stream(h.req)[k]
           /\ \A k \in 1..Len(heard) : heard[k] = h.now[k]
<1>1. PICK r \in Requests :
        /\ SubSeq(Stream(r), 1, Len(heard)) = heard
        /\ \E n \in Arrivals(r, Len(heard), RecvBufSize - Len(heard)) :
              h = [req |-> r, now |-> SubSeq(Stream(r), 1, Len(heard) + n)]
  BY DEF Hearings
<1>2. PICK n \in Arrivals(r, Len(heard), RecvBufSize - Len(heard)) :
              h = [req |-> r, now |-> SubSeq(Stream(r), 1, Len(heard) + n)]
  BY <1>1
<1>3. Len(heard) \in Nat /\ Len(Stream(r)) \in Nat /\ Stream(r) \in Contents
  BY RequestParts, LenProperties DEF Contents
<1>4. n \in Nat /\ 1 <= n /\ n <= Len(Stream(r)) - Len(heard) /\ n <= RecvBufSize - Len(heard)
  BY <1>2, <1>3, Assumed DEF Arrivals, Lesser
<1> DEFINE l == Len(heard) + n
<1>5. l \in Nat /\ Len(heard) < l /\ Len(heard) <= l /\ l <= RecvBufSize /\ l <= Len(Stream(r))
      /\ Len(heard) <= Len(Stream(r))
  BY <1>3, <1>4, Assumed
<1>6. h.req = r /\ h.now = SubSeq(Stream(r), 1, l)
  BY <1>2
<1> HIDE DEF l
<1>7. h.now \in Contents /\ Len(h.now) = l /\ \A k \in 1..l : h.now[k] = Stream(r)[k]
  <2>1. l <= l
    BY <1>5
  <2>2. SubSeq(Stream(r), 1, l) \in Contents /\ Len(SubSeq(Stream(r), 1, l)) = l
        /\ \A k \in 1..l : SubSeq(Stream(r), 1, l)[k] = Stream(r)[k]
    BY <1>3, <1>5, <2>1, Prefixes DEF Contents
  <2> QED BY <1>6, <2>2
<1>8. \A k \in 1..Len(heard) : SubSeq(Stream(r), 1, Len(heard))[k] = Stream(r)[k]
  BY <1>3, <1>5, Prefixes DEF Contents
<1>9. \A k \in 1..Len(heard) : k \in 1..l /\ heard[k] = Stream(r)[k]
  <2>1. \A k \in 1..Len(heard) : k \in 1..l
    BY <1>3, <1>5
  <2> QED BY <1>1, <1>8, <2>1
<1> QED BY <1>5, <1>6, <1>7, <1>9

(* Nothing found: there is none in all that has been heard. *)
LEMMA SearchedAll ==
    ASSUME NEW heard \in Contents, NEW now \in Contents, Len(heard) <= Len(now),
           \A k \in 1..Len(heard) : heard[k] = now[k], NoBlankLine(heard),
           \A i \in SearchFrom(Len(heard))..(Len(now) - 4) : ~BlankLineAt(now, i)
    PROVE  NoBlankLine(now)
<1>1. Len(heard) \in Nat /\ Len(now) \in Nat
  BY LenProperties DEF Contents
<1> SUFFICES ASSUME NEW i \in 0..(Len(now) - 4) PROVE ~BlankLineAt(now, i)
  BY DEF NoBlankLine
<1>2. CASE i \in SearchFrom(Len(heard))..(Len(now) - 4)
  BY <1>2
<1>3. CASE i \notin SearchFrom(Len(heard))..(Len(now) - 4)
  <2>1. i \in Nat /\ i + 4 <= Len(heard) /\ i \in 0..(Len(heard) - 4)
    BY <1>1, <1>3 DEF SearchFrom
  <2>2. ~BlankLineAt(heard, i)
    BY <2>1 DEF NoBlankLine
  <2>3. BlankLineAt(now, i) <=> BlankLineAt(heard, i)
    BY <2>1, SameBlankLine
  <2> QED BY <2>2, <2>3
<1> QED BY <1>2, <1>3

LEMMA EndedInv ==
    ASSUME NEW t \in WorkerType, t.req \in Requests,
           t.status # 0 <=> HeadersFit(t.req), t.status = 400 <=> HeadersFit(t.req) /\ ~t.req.parses,
           t.status = 200 /\ t.req.method = "GET" /\ ~t.stale => t.sent = t.file
    PROVE  WorkerInv(Ended(t)) /\ Ended(t).pc = "ended"
<1> DEFINE u == Ended(t)
<1>1. <<>> \in Contents /\ <<>> \in Seq(Anything)
  BY DEF Contents
<1>2. /\ u.pc = "ended" /\ u.req = t.req /\ u.status = t.status /\ u.buf = <<>>
      /\ u.file = t.file /\ u.sent = t.sent /\ u.stale = t.stale
      /\ u \in WorkerType
  <2>1. /\ Done(t, "ended") \in WorkerType /\ Done(t, "ended").pc = "ended"
        /\ Done(t, "ended").req = t.req /\ Done(t, "ended").status = t.status
        /\ Done(t, "ended").buf = <<>>
    BY DoneType DEF TaskStates
  <2>2. t.file \in Contents /\ t.sent \in Seq(Anything) /\ t.stale \in BOOLEAN
    BY DEF WorkerType
  <2>3. u = [Done(t, "ended") EXCEPT !.file = t.file, !.sent = t.sent, !.stale = t.stale]
    BY DEF Ended
  <2> HIDE DEF u
  <2> QED BY <2>1, <2>2, <2>3 DEF WorkerType
<1> HIDE DEF u
<1>3. Finished(u)
  BY <1>2 DEF Finished
<1>4. Listening(u) /\ Serving(u) /\ Putting(u) /\ Getting(u) /\ Replying(u)
  BY <1>2 DEF Listening, Serving, Putting, Getting, Replying
<1>5. WorkerInv(u)
  BY <1>2, <1>3, <1>4 DEF WorkerInv
<1> QED BY <1>2, <1>5 DEF u

(* A worker that has ended, or is still listening, has nothing open. *)
LEMMA NothingOpenKeeps ==
    ASSUME IInv, NEW c \in Tasks, task[c].pc # "idle", NEW t, WorkerInv(t), t.pc \in {"headers", "ended"},
           Becomes(c, t), UNCHANGED <<fsLock, listener, instances, stopped>>
    PROVE  IInv'
<1>1. t.pc \notin Open /\ t.pc # "idle"
  BY DEF Open, Reading, Writing
<1> QED BY <1>1, BecomesKeeps

LEMMA HeadersKeep ==
    ASSUME IInv, NEW c \in Tasks, ReceiveHeaders(c), UNCHANGED <<fsLock, listener, instances, stopped>>
    PROVE  IInv'
<1> DEFINE t          == task[c]
           found(now) == {i \in SearchFrom(Len(t.heard))..(Len(now) - 4) : BlankLineAt(now, i)}
           heard      == Hearings(t.heard)
<1>1. WorkerInv(t) /\ t \in WorkerType /\ t.pc = "headers" /\ t.pc # "idle"
  BY DEF IInv, TasksInv, WorkerInv, ReceiveHeaders
<1>2. t.heard \in Contents /\ Len(t.heard) < RecvBufSize /\ NoBlankLine(t.heard) /\ Len(t.heard) \in Nat
      /\ t = [Worker EXCEPT !.heard = t.heard]
  BY <1>1, LenProperties DEF WorkerInv, Listening, WorkerType, Contents
<1>3. /\ t.req = None /\ t.status = 0 /\ t.sent = <<>> /\ t.file = <<>> /\ t.buf = <<>> /\ ~t.stale
  <2>1. [Worker EXCEPT !.heard = t.heard].req = None /\ [Worker EXCEPT !.heard = t.heard].status = 0
        /\ [Worker EXCEPT !.heard = t.heard].sent = <<>> /\ [Worker EXCEPT !.heard = t.heard].file = <<>>
        /\ [Worker EXCEPT !.heard = t.heard].buf = <<>> /\ [Worker EXCEPT !.heard = t.heard].stale = FALSE
    BY DEF Worker, Idle
  <2> HIDE DEF t
  <2> QED BY <1>2, <2>1
<1>4. ASSUME Becomes(c, Cut(t)) PROVE IInv'
  BY <1>1, <1>4, CutInv, NothingOpenKeeps
<1>5. ASSUME NEW h \in heard, found(h.now) # {},
             Dispatch(c, [t EXCEPT !.heard = <<>>, !.req = h.req, !.got = Len(h.now),
                                   !.bodyStart = MinOf(found(h.now)) + 4])
      PROVE  IInv'
  <2> DEFINE i == MinOf(found(h.now))
             u == [t EXCEPT !.heard = <<>>, !.req = h.req, !.got = Len(h.now), !.bodyStart = i + 4]
  <2>1. /\ h.req \in Requests /\ h.now \in Contents /\ Len(h.now) \in Nat
        /\ Len(h.now) <= RecvBufSize /\ Len(h.now) <= Len(Stream(h.req))
        /\ \A k \in 1..Len(h.now) : h.now[k] = Stream(h.req)[k]
    BY <1>2, HearingIs, LenProperties DEF Contents
  <2>2. i \in Nat /\ i + 4 <= Len(h.now) /\ BlankLineAt(h.now, i)
    <3>1. found(h.now) \subseteq Nat
      BY <1>2 DEF SearchFrom
    <3>2. i \in found(h.now)
      <4> HIDE DEF found
      <4> QED BY <1>5, <3>1, Least
    <3>3. i \in SearchFrom(Len(t.heard))..(Len(h.now) - 4) /\ BlankLineAt(h.now, i)
      <4> DEFINE j == i
      <4>1. j \in found(h.now)
        BY <3>2
      <4> HIDE DEF j
      <4>2. j \in SearchFrom(Len(t.heard))..(Len(h.now) - 4) /\ BlankLineAt(h.now, j)
        BY <4>1
      <4> QED BY <4>2 DEF j
    <3>4. i \in Nat
      BY <3>1, <3>2
    <3> HIDE DEF i
    <3> QED BY <1>2, <2>1, <3>3, <3>4 DEF SearchFrom
  <2> HIDE DEF i
  <2>3. BlankLineAt(Stream(h.req), i)
    BY <2>1, <2>2, SameBlankLine, RequestParts
  <2>4. HeadersFit(h.req)
    <3>1. Len(Stream(h.req)) \in Nat
      BY <2>1, RequestParts, LenProperties DEF Contents
    <3>2. i \in 0..(Lesser(Len(Stream(h.req)), RecvBufSize) - 4)
      BY <2>1, <2>2, <3>1, Assumed DEF Lesser
    <3> QED BY <2>3, <3>2 DEF HeadersFit
  <2>5. u \in WorkerType
    <3>1. <<>> \in Contents
      BY DEF Contents
    <3>2. i + 4 \in Nat /\ h.req \in Requests \cup {None} /\ Len(h.now) \in Nat
      BY <2>1, <2>2
    <3> HIDE DEF t
    <3> QED BY <1>1, <3>1, <3>2 DEF WorkerType
  <2>6. /\ u.req = h.req /\ u.got = Len(h.now) /\ u.bodyStart = i + 4
        /\ u.sent = <<>> /\ u.file = <<>> /\ u.buf = <<>> /\ ~u.stale
    BY <1>1, <1>3 DEF WorkerType
  <2>7. Dispatch(c, u)
    BY <1>5 DEF i
  <2> HIDE DEF u
  <2>8. Fresh(u)
    BY <2>1, <2>2, <2>4, <2>5, <2>6 DEF Fresh
  <2>9. Untouched(u) /\ u.got - u.bodyStart <= RecvBufSize
    BY <2>1, <2>2, <2>6, Assumed DEF Untouched
  <2> QED BY <1>1, <2>7, <2>8, <2>9, DispatchKeeps
<1>6. ASSUME NEW h \in heard, found(h.now) = {} PROVE NoBlankLine(h.now)
  <2>1. \A i \in SearchFrom(Len(t.heard))..(Len(h.now) - 4) : ~BlankLineAt(h.now, i)
    BY <1>6
  <2>2. h.now \in Contents /\ Len(t.heard) < Len(h.now) /\ Len(h.now) \in Nat
        /\ \A k \in 1..Len(t.heard) : t.heard[k] = h.now[k]
    BY <1>2, HearingIs, LenProperties DEF Contents
  <2>3. Len(t.heard) <= Len(h.now)
    BY <1>2, <2>2
  <2> QED BY <1>2, <2>1, <2>2, <2>3, SearchedAll
<1>7. ASSUME NEW h \in heard, found(h.now) = {}, Len(h.now) < RecvBufSize,
             Becomes(c, [t EXCEPT !.heard = h.now])
      PROVE  IInv'
  <2> DEFINE u == [t EXCEPT !.heard = h.now]
  <2>1. h.now \in Contents /\ NoBlankLine(h.now)
    BY <1>2, <1>6, <1>7, HearingIs
  <2>2. u \in WorkerType /\ u.pc = "headers" /\ u.heard = h.now /\ u.buf = <<>>
    <3>1. t \in WorkerType /\ t.pc = "headers" /\ t.buf = <<>>
      BY <1>1, <1>3
    <3> HIDE DEF t
    <3>2. u \in WorkerType
      BY <2>1, <3>1 DEF WorkerType
    <3> QED BY <3>1, <3>2 DEF WorkerType
  <2>3. u = [Worker EXCEPT !.heard = u.heard]
    BY <1>2, <2>2 DEF Worker, Idle
  <2>4. Becomes(c, u)
    BY <1>7
  <2> HIDE DEF u
  <2>5. Listening(u)
    BY <1>7, <2>1, <2>2, <2>3 DEF Listening
  <2>6. Serving(u) /\ Putting(u) /\ Getting(u) /\ Replying(u) /\ Finished(u)
    BY <2>2 DEF Serving, Putting, Getting, Replying, Finished
  <2>7. WorkerInv(u)
    BY <2>2, <2>5, <2>6 DEF WorkerInv
  <2> QED BY <1>1, <2>2, <2>4, <2>7, NothingOpenKeeps
<1>8. ASSUME NEW h \in heard, found(h.now) = {}, Len(h.now) = RecvBufSize,
             Becomes(c, Ended([t EXCEPT !.req = h.req]))
      PROVE  IInv'
  <2> DEFINE u == [t EXCEPT !.req = h.req]
  <2>1. /\ h.req \in Requests /\ h.now \in Contents /\ NoBlankLine(h.now)
        /\ Len(h.now) <= Len(Stream(h.req)) /\ \A k \in 1..Len(h.now) : h.now[k] = Stream(h.req)[k]
    BY <1>2, <1>6, <1>8, HearingIs
  <2>2. ~HeadersFit(h.req)
    <3> SUFFICES ASSUME NEW i \in 0..(Lesser(Len(Stream(h.req)), RecvBufSize) - 4)
                 PROVE  ~BlankLineAt(Stream(h.req), i)
      BY DEF HeadersFit
    <3>1. Len(Stream(h.req)) \in Nat /\ Stream(h.req) \in Contents
      BY <2>1, RequestParts, LenProperties DEF Contents
    <3>2. i \in Nat /\ i + 4 <= Len(h.now) /\ i \in 0..(Len(h.now) - 4)
      BY <1>8, <3>1, Assumed DEF Lesser
    <3>3. ~BlankLineAt(h.now, i)
      BY <2>1, <3>2 DEF NoBlankLine
    <3> QED BY <2>1, <3>1, <3>2, <3>3, SameBlankLine
  <2>3. u \in WorkerType /\ u.req = h.req /\ u.status = 0
    <3>1. t \in WorkerType /\ t.status = 0 /\ h.req \in Requests
      BY <1>1, <1>3, <2>1
    <3>2. PICK r \in Requests : r = h.req
      BY <3>1
    <3>3. u = [t EXCEPT !.req = r]
      BY <3>2
    <3> HIDE DEF t, u
    <3> QED BY <3>1, <3>2, <3>3, AskedType
  <2>4. Becomes(c, Ended(u))
    BY <1>8
  <2> HIDE DEF u
  <2>5. u.req \in Requests /\ ~HeadersFit(u.req)
    BY <2>1, <2>2, <2>3
  <2>6. WorkerInv(Ended(u)) /\ Ended(u).pc = "ended"
    BY <2>3, <2>5, EndedInv
  <2> QED BY <1>1, <2>4, <2>6, NothingOpenKeeps
<1> HIDE DEF t, found, heard
<1>9. \/ Becomes(c, Cut(t))
      \/ \E h \in heard : found(h.now) # {}
           /\ Dispatch(c, [t EXCEPT !.heard = <<>>, !.req = h.req, !.got = Len(h.now),
                                    !.bodyStart = MinOf(found(h.now)) + 4])
      \/ \E h \in heard : found(h.now) = {} /\ Len(h.now) < RecvBufSize
           /\ Becomes(c, [t EXCEPT !.heard = h.now])
      \/ \E h \in heard : found(h.now) = {} /\ Len(h.now) = RecvBufSize
           /\ Becomes(c, Ended([t EXCEPT !.req = h.req]))
  BY DEF ReceiveHeaders, t, found, heard
<1> QED BY <1>4, <1>5, <1>7, <1>8, <1>9

(***************************************************************************)
(* The other steps of a worker.                                            *)
(***************************************************************************)
LEMMA BodyKeeps ==
    ASSUME IInv, NEW c \in Tasks, ReceiveBody(c), UNCHANGED <<fsLock, listener, instances, stopped>>
    PROVE  IInv'
<1> DEFINE t    == task[c]
           left == t.req.length - BodyGot(t)
<1>1. WorkerInv(t) /\ t \in WorkerType /\ t.pc = "put" /\ t.pc # "idle" /\ t.pc \in Writing
  BY DEF IInv, TasksInv, WorkerInv, ReceiveBody, Writing
<1>2. /\ t.req \in Requests /\ HeadersFit(t.req) /\ t.req.path \in Paths /\ t.req.parses
      /\ t.got \in Nat /\ t.bodyStart \in Nat /\ t.bodyStart <= t.got /\ t.got <= Len(Stream(t.req))
      /\ t.got - t.bodyStart < t.req.length
      /\ t.file \in Contents /\ t.buf \in Contents /\ Len(t.buf) < WriteBufSize
      /\ t.file \o t.buf = Received(t, t.got)
  BY <1>1 DEF WorkerInv, Serving, Putting, WorkerType
<1>3. t.req.length \in Nat /\ Stream(t.req) \in Contents /\ Len(Stream(t.req)) \in Nat
  BY <1>2, RequestParts, LenProperties DEF Contents
<1>4. ASSUME NEW u, u.req = t.req PROVE Alone(c, u, card, {})
  <2>1. fsLock => \A x \in Tasks \ {c} : task[x].pc \in Open => task[x].req.path # t.req.path
    BY <1>1 DEF IInv, LockInv
  <2> QED BY <1>4, <2>1 DEF Alone, IInv, CardTypes
<1>5. ASSUME PutCloses(c, [t EXCEPT !.cut = TRUE], Outcome(t.file, t.buf, FALSE), card, {})
      PROVE  IInv'
  <2> DEFINE u == [t EXCEPT !.cut = TRUE]
             o == Outcome(t.file, t.buf, FALSE)
  <2>1. /\ u.req = t.req /\ u.got = t.got /\ u.bodyStart = t.bodyStart /\ u \in WorkerType
        /\ o.file = t.file /\ o.ok = FALSE
    BY <1>1 DEF WorkerType, Outcome
  <2>2. PutCloses(c, u, o, card, {})
    BY <1>5
  <2> HIDE DEF u, o
  <2>3. Fresh(u)
    BY <1>2, <2>1 DEF Fresh
  <2>4. Alone(c, u, card, {})
    BY <1>4, <2>1
  <2>5. u.req.parses /\ u.req.path \in Paths /\ o.file \in Contents /\ o.ok \in BOOLEAN
        /\ (o.ok => o.file = Body(u))
    BY <1>2, <2>1
  <2> HIDE DEF t
  <2> QED BY <1>1, <2>2, <2>3, <2>4, <2>5, PutClosesKeeps DEF t
<1>6. ASSUME NEW n \in Arrivals(t.req, t.got, Lesser(left, RecvBufSize)),
             PutReceived(c, [t EXCEPT !.got = @ + n], SubSeq(Stream(t.req), t.got + 1, t.got + n), card, {})
      PROVE  IInv'
  <2> DEFINE u     == [t EXCEPT !.got = @ + n]
             chunk == SubSeq(Stream(t.req), t.got + 1, t.got + n)
  <2>1. BodyGot(t) = t.got - t.bodyStart
    BY <1>2, <1>3 DEF BodyGot, Lesser
  <2>2. /\ n \in Nat /\ t.got + n \in Nat /\ t.got + n <= Len(Stream(t.req)) /\ n <= RecvBufSize
        /\ t.bodyStart <= t.got + n
        /\ Lesser(t.got + n - t.bodyStart, t.req.length) = t.got + n - t.bodyStart
        /\ t.bodyStart + (t.got + n - t.bodyStart) = t.got + n
    <3>1. n \in 1..Lesser(Len(Stream(t.req)) - t.got, Lesser(t.req.length - (t.got - t.bodyStart), RecvBufSize))
      BY <2>1 DEF Arrivals
    <3> HIDE DEF left, t
    <3>2. PICK g \in Nat, s \in Nat, l \in Nat, len \in Nat, r \in Nat :
             g = t.got /\ s = t.bodyStart /\ l = t.req.length /\ len = Len(Stream(t.req)) /\ r = RecvBufSize
      BY <1>2, <1>3, Assumed
    <3>3. s <= g /\ g <= len /\ g - s < l /\ n \in 1..Lesser(len - g, Lesser(l - (g - s), r))
      BY <1>2, <3>1, <3>2
    <3>4. n \in Nat /\ n <= len - g /\ n <= l - (g - s) /\ n <= r
      BY <3>3 DEF Lesser
    <3>5. g + n \in Nat /\ g + n <= len /\ s <= g + n /\ g + n - s <= l /\ s + (g + n - s) = g + n
      BY <3>3, <3>4
    <3>6. Lesser(g + n - s, l) = g + n - s
      BY <3>4, <3>5 DEF Lesser
    <3> QED BY <3>2, <3>4, <3>5, <3>6
  <2>3. /\ u.req = t.req /\ u.got = t.got + n /\ u.bodyStart = t.bodyStart
        /\ u.file = t.file /\ u.buf = t.buf /\ u \in WorkerType
    <3> DEFINE m == t.got + n
    <3>1. m \in Nat /\ u = [t EXCEPT !.got = m]
      BY <2>2
    <3> HIDE DEF t, m, u
    <3>2. u \in WorkerType
      BY <1>1, <3>1 DEF WorkerType
    <3>3. u.req = t.req /\ u.got = m /\ u.bodyStart = t.bodyStart /\ u.file = t.file /\ u.buf = t.buf
      BY <1>1, <3>1 DEF WorkerType
    <3> QED BY <3>2, <3>3 DEF m
  <2>4. PutReceived(c, u, chunk, card, {})
    BY <1>6
  <2>5. chunk \in Contents /\ Len(chunk) <= RecvBufSize
    <3>1. t.got <= t.got + n /\ (t.got + n) - t.got = n /\ t.got + n \in Nat
      BY <1>2, <2>2, Sums
    <3>2. Stream(t.req) \in Seq(Bytes) /\ t.got \in Nat /\ t.got + n <= Len(Stream(t.req))
      BY <1>2, <1>3, <2>2 DEF Contents
    <3> HIDE DEF t
    <3>3. chunk \in Seq(Bytes) /\ Len(chunk) = (t.got + n) - t.got
      <4>1. PICK m, k : m = t.got /\ k = t.got + n
        OBVIOUS
      <4>2. m \in Nat /\ k \in Nat /\ m <= k /\ k <= Len(Stream(t.req))
        BY <3>1, <3>2, <4>1
      <4>3. SubSeq(Stream(t.req), m + 1, k) \in Seq(Bytes) /\ Len(SubSeq(Stream(t.req), m + 1, k)) = k - m
        BY <3>2, <4>2, Stretch
      <4> QED BY <4>1, <4>3
    <3> QED BY <2>2, <3>1, <3>3 DEF Contents
  <2>6. Received(t, t.got) \o chunk = Received(t, t.got + n)
    <3>1. t.got <= t.got + n /\ t.got + n \in Nat
      BY <1>2, <2>2, Sums
    <3> HIDE DEF t
    <3>2. Stream(t.req) \in Seq(Bytes)
      BY <1>3 DEF Contents
    <3>3. SubSeq(Stream(t.req), t.bodyStart + 1, t.got) \o SubSeq(Stream(t.req), t.got + 1, t.got + n)
            = SubSeq(Stream(t.req), t.bodyStart + 1, t.got + n)
      <4>1. PICK l, m, k : l = t.bodyStart /\ m = t.got /\ k = t.got + n
        OBVIOUS
      <4>2. l \in Nat /\ m \in Nat /\ k \in Nat /\ l <= m /\ m <= k /\ k <= Len(Stream(t.req))
        BY <1>2, <2>2, <3>1, <4>1
      <4>3. SubSeq(Stream(t.req), l + 1, m) \o SubSeq(Stream(t.req), m + 1, k) = SubSeq(Stream(t.req), l + 1, k)
        BY <3>2, <4>2, Stretches
      <4> QED BY <4>1, <4>3
    <3> QED BY <3>3 DEF Received
  <2> HIDE DEF u, chunk
  <2>7. u.bodyStart + BodyGot(u) = t.got + n
    <3> HIDE DEF t
    <3>1. PICK g \in Nat, s \in Nat, l \in Nat : g = t.got /\ s = t.bodyStart /\ l = t.req.length
      BY <1>2, <1>3
    <3>2. n \in Nat /\ Lesser(g + n - s, l) = g + n - s /\ s + (g + n - s) = g + n
      BY <2>2, <3>1
    <3>3. BodyGot(u) = Lesser(g + n - s, l) /\ u.bodyStart = s
      BY <2>3, <3>1, <3>2 DEF BodyGot
    <3> QED BY <3>1, <3>2, <3>3
  <2>8. (u.file \o u.buf) \o chunk = Received(u, u.bodyStart + BodyGot(u))
    BY <1>2, <2>3, <2>6, <2>7 DEF Received
  <2>9. Fresh(u)
    <3>1. u.bodyStart <= u.got
      BY <1>2, <2>2, <2>3
    <3> QED BY <1>2, <2>2, <2>3, <3>1 DEF Fresh
  <2>10. Alone(c, u, card, {})
    BY <1>4, <2>3
  <2>11. u.req.parses /\ u.req.path \in Paths /\ u.buf \in Contents /\ Len(u.buf) < WriteBufSize
    BY <1>2, <2>3
  <2> QED BY <1>1, <2>4, <2>5, <2>8, <2>9, <2>10, <2>11, PutReceivedKeeps
<1> QED BY <1>5, <1>6 DEF ReceiveBody

LEMMA ReplyKeeps ==
    ASSUME IInv, NEW c \in Tasks, SendReply(c), UNCHANGED <<fsLock, listener, instances, stopped>>
    PROVE  IInv'
<1> DEFINE t == task[c]
<1>1. WorkerInv(t) /\ t.pc = "reply" /\ t.pc # "idle"
  BY DEF IInv, TasksInv, SendReply
<1>2. /\ t.req \in Requests /\ HeadersFit(t.req)
      /\ t.status # 0 /\ (t.status = 400 <=> ~t.req.parses) /\ (t.status = 200 => t.req.method # "GET")
  BY <1>1 DEF WorkerInv, Serving, Replying
<1>3. WorkerInv(Done(t, "ended")) /\ Done(t, "ended").pc = "ended"
  BY <1>1, <1>2, DoneInv
<1>4. WorkerInv(Cut(t)) /\ Cut(t).pc = "ended"
  BY CutInv
<1>5. Becomes(c, Done(t, "ended")) \/ Becomes(c, Cut(t))
  BY DEF SendReply
<1> QED BY <1>1, <1>3, <1>4, <1>5, NothingOpenKeeps

(* A GET that has sent the file so far. *)
SentSoFar(t) ==
    /\ t \in WorkerType /\ t.pc \in Reading /\ t.status = 200
    /\ t.req \in Requests /\ HeadersFit(t.req) /\ t.got <= Len(Stream(t.req))
    /\ t.req.path \in Paths /\ t.req.parses /\ t.req.method \in {"GET", "HEAD"}
    /\ Len(t.sent) <= Len(t.file)
    /\ ~t.stale => \A i \in 1..Len(t.sent) : t.sent[i] = t.file[i]

LEMMA ReadingInv ==
    ASSUME NEW t, WorkerInv(t), t.pc \in Reading
    PROVE  SentSoFar(t)
<1>1. t \in WorkerType /\ t.pc \in {"getHeader", "get"}
  BY DEF WorkerInv, Reading
<1>2. Len(t.sent) \in Nat /\ Len(t.buf) \in Nat /\ Len(t.file) \in Nat
  BY <1>1, LenProperties DEF WorkerType, Contents
<1>3. Len(t.sent) + Len(t.buf) <= Len(t.file)
  BY <1>1 DEF WorkerInv, Getting
<1>4. Len(t.sent) <= Len(t.file)
  BY <1>2, <1>3, Parts
<1> QED BY <1>1, <1>4 DEF SentSoFar, WorkerInv, Serving, Getting, Reading

LEMMA AllSent ==
    ASSUME NEW t, SentSoFar(t), Len(t.sent) = Len(t.file), ~t.stale
    PROVE  t.sent = t.file
<1>1. t.sent \in Seq(Anything) /\ t.file \in Seq(Anything)
  BY DEF SentSoFar, WorkerType, Contents, Anything
<1>2. \A i \in 1..Len(t.sent) : t.sent[i] = t.file[i]
  BY DEF SentSoFar
<1> QED BY <1>1, <1>2, SeqEqual

LEMMA SentInv ==
    ASSUME NEW t, SentSoFar(t), Len(t.sent) = Len(t.file)
    PROVE  WorkerInv(Ended(t)) /\ Ended(t).pc = "ended"
<1>1. ~t.stale => t.sent = t.file
  BY AllSent
<1> QED BY <1>1, EndedInv DEF SentSoFar

LEMMA ReadOnKeeps ==
    ASSUME IInv, NEW c \in Tasks, NEW t, SentSoFar(t), task[c].pc \in Reading,
           t.req = task[c].req, t.file = task[c].file, t.stale = task[c].stale,
           ReadOn(c, t), UNCHANGED <<fsLock, listener, instances, stopped>>
    PROVE  IInv'
<1> DEFINE from == Len(t.sent)
           n    == Lesser(Len(t.file) - from, RecvBufSize)
           read == [i \in 1..n |-> IF t.stale THEN Garbage ELSE t.file[from + i]]
           u    == [t EXCEPT !.pc = "get", !.buf = read]
<1>1. t \in WorkerType /\ t.file \in Contents /\ from \in Nat /\ Len(t.file) \in Nat /\ from <= Len(t.file)
  BY LenProperties DEF SentSoFar, WorkerType, Contents
<1>2. task[c].pc # "idle"
  BY DEF Reading
<1>3. n \in Nat /\ n <= Len(t.file) - from /\ (n = 0 => Len(t.file) - from = 0)
  <2>1. Len(t.file) - from \in Nat
    BY <1>1, Parts
  <2> HIDE DEF from
  <2> QED BY <2>1, LesserType, Assumed
<1>4. CASE Becomes(c, Cut(t))
  BY <1>2, <1>4, CutInv, NothingOpenKeeps
<1>5. CASE n = 0 /\ Becomes(c, Ended(t))
  <2>1. Len(t.sent) = Len(t.file)
    BY <1>1, <1>3, <1>5, Parts
  <2> QED BY <1>2, <1>5, <2>1, SentInv, NothingOpenKeeps
<1>6. CASE Becomes(c, u)
  <2>1. read \in Seq(Anything) /\ Len(read) = n /\ DOMAIN read = 1..n
    <3>1. ASSUME NEW i \in 1..n PROVE read[i] \in Anything
      <4>1. from + i \in 1..Len(t.file)
        <5> HIDE DEF n, from
        <5> QED BY <1>1, <1>3, <3>1, Parts
      <4>2. t.file[from + i] \in Bytes
        BY <1>1, <4>1, ElementOfSeq DEF Contents
      <4> HIDE DEF from, n
      <4> QED BY <4>2 DEF Anything
    <3> HIDE DEF n, from
    <3>2. read \in [1..n -> Anything]
      BY <3>1
    <3> HIDE DEF read
    <3> QED BY <1>3, <3>2
  <2>2. \A i \in 1..n : ~t.stale => read[i] = t.file[from + i]
    OBVIOUS
  <2> HIDE DEF read
  <2>3. u \in WorkerType
    BY <1>1, <2>1 DEF WorkerType, TaskStates
  <2>4. /\ u.pc = "get" /\ u.req = t.req /\ u.got = t.got /\ u.status = t.status
        /\ u.file = t.file /\ u.buf = read /\ u.sent = t.sent /\ u.stale = t.stale
    BY <1>1 DEF WorkerType
  <2> HIDE DEF u
  <2>5. Serving(u)
    BY <2>4 DEF Serving, SentSoFar
  <2>6. Getting(u)
    <3>1. Len(u.sent) + Len(u.buf) <= Len(u.file)
      <4>1. Len(u.sent) = from /\ Len(u.buf) = n /\ Len(u.file) = Len(t.file)
        BY <2>1, <2>4
      <4> HIDE DEF from, n
      <4>2. from + n <= Len(t.file)
        BY <1>1, <1>3, Parts
      <4> QED BY <4>1, <4>2
    <3>2. Len(u.buf) = Lesser(Len(u.file) - Len(u.sent), RecvBufSize)
      BY <2>1, <2>4
    <3>3. ~u.stale => /\ \A i \in 1..Len(u.sent) : u.sent[i] = u.file[i]
                      /\ \A i \in 1..Len(u.buf) : u.buf[i] = u.file[Len(u.sent) + i]
      <4> HIDE DEF n
      <4> QED BY <2>1, <2>2, <2>4 DEF SentSoFar
    <3> QED BY <2>4, <3>1, <3>2, <3>3 DEF Getting, SentSoFar
  <2>7. Listening(u) /\ Putting(u) /\ Replying(u) /\ Finished(u)
    BY <2>4 DEF Listening, Putting, Replying, Finished
  <2>8. WorkerInv(u) /\ u.pc \in Reading /\ u.pc # "idle"
    BY <2>3, <2>4, <2>5, <2>6, <2>7 DEF WorkerInv, Reading
  <2>9. Becomes(c, u)
    BY <1>6
  <2> QED BY <1>2, <2>4, <2>8, <2>9, BecomesKeeps
<1>7. Becomes(c, Cut(t)) \/ (n = 0 /\ Becomes(c, Ended(t))) \/ Becomes(c, u)
  BY DEF ReadOn
<1> QED BY <1>4, <1>5, <1>6, <1>7

LEMMA GetHeaderKeeps ==
    ASSUME IInv, NEW c \in Tasks, SendGetHeader(c), UNCHANGED <<fsLock, listener, instances, stopped>>
    PROVE  IInv'
<1> DEFINE t == task[c]
<1>1. WorkerInv(t) /\ t.pc = "getHeader" /\ t.pc # "idle" /\ t.pc \in Reading
  BY DEF IInv, TasksInv, SendGetHeader, Reading
<1>2. SentSoFar(t)
  BY <1>1, ReadingInv
<1>3. CASE Becomes(c, Cut(t))
  BY <1>1, <1>3, CutInv, NothingOpenKeeps
<1>4. CASE t.req.method = "HEAD" /\ Becomes(c, Done(t, "ended"))
  <2>1. WorkerInv(Done(t, "ended")) /\ Done(t, "ended").pc = "ended"
    BY <1>1, <1>2, <1>4, DoneInv DEF SentSoFar
  <2> QED BY <1>1, <1>4, <2>1, NothingOpenKeeps
<1>5. CASE ReadOn(c, t)
  BY <1>1, <1>2, <1>5, ReadOnKeeps
<1> QED BY <1>3, <1>4, <1>5 DEF SendGetHeader

LEMMA ChunkKeeps ==
    ASSUME IInv, NEW c \in Tasks, SendChunk(c), UNCHANGED <<fsLock, listener, instances, stopped>>
    PROVE  IInv'
<1> DEFINE t    == task[c]
           done == [t EXCEPT !.sent = @ \o t.buf]
<1>1. WorkerInv(t) /\ t \in WorkerType /\ t.pc = "get" /\ t.pc # "idle" /\ t.pc \in Reading
  BY DEF IInv, TasksInv, WorkerInv, SendChunk, Reading
<1>2. SentSoFar(t)
  BY <1>1, ReadingInv
<1>3. /\ Len(t.sent) + Len(t.buf) <= Len(t.file)
      /\ Len(t.buf) = Lesser(Len(t.file) - Len(t.sent), RecvBufSize)
      /\ ~t.stale => \A i \in 1..Len(t.buf) : t.buf[i] = t.file[Len(t.sent) + i]
      /\ t.sent \in Seq(Anything) /\ t.buf \in Seq(Anything)
      /\ Len(t.sent) \in Nat /\ Len(t.buf) \in Nat /\ Len(t.file) \in Nat
  BY <1>1, LenProperties DEF WorkerInv, Getting, WorkerType, Contents
<1> DEFINE out == t.sent \o t.buf
<1>4. /\ out \in Seq(Anything) /\ Len(out) = Len(t.sent) + Len(t.buf)
      /\ \A i \in 1..Len(t.sent) + Len(t.buf) :
            out[i] = IF i <= Len(t.sent) THEN t.sent[i] ELSE t.buf[i - Len(t.sent)]
  <2>1. t.sent \in Seq(Anything) /\ t.buf \in Seq(Anything)
    BY <1>3
  <2> HIDE DEF t
  <2> QED BY <2>1, ConcatProperties
<1>5. /\ done.sent = out /\ done.req = t.req /\ done.file = t.file /\ done.stale = t.stale
      /\ done.pc = t.pc /\ done.status = t.status /\ done.got = t.got /\ done \in WorkerType
  <2> HIDE DEF t
  <2> QED BY <1>1, <1>4 DEF WorkerType
<1>6. \/ ReadOn(c, done)
      \/ ~MoreToRead(Len(t.buf)) /\ Becomes(c, Ended(done))
      \/ Becomes(c, Cut(t))
  BY Zenon DEF SendChunk
<1> HIDE DEF t, done, out
<1>7. ~t.stale => \A i \in 1..Len(out) : out[i] = t.file[i]
  <2> SUFFICES ASSUME ~t.stale, NEW i \in 1..Len(out) PROVE out[i] = t.file[i]
    OBVIOUS
  <2>0. i \in 1..(Len(t.sent) + Len(t.buf))
    BY <1>4
  <2>1. CASE i <= Len(t.sent)
    <3>1. i \in 1..Len(t.sent)
      BY <1>3, <2>0, <2>1, Parts
    <3>2. out[i] = t.sent[i]
      BY <1>4, <2>0, <2>1, Zenon
    <3> QED BY <1>2, <3>1, <3>2 DEF SentSoFar
  <2>2. CASE ~(i <= Len(t.sent))
    <3>1. /\ i - Len(t.sent) \in 1..Len(t.buf) /\ Len(t.sent) + (i - Len(t.sent)) = i
      BY <1>3, <2>0, <2>2, Beyond
    <3>2. out[i] = t.buf[i - Len(t.sent)]
      BY <1>4, <2>0, <2>2
    <3>3. t.buf[i - Len(t.sent)] = t.file[Len(t.sent) + (i - Len(t.sent))]
      BY <1>3, <3>1
    <3> QED BY <3>1, <3>2, <3>3
  <2> QED BY <2>1, <2>2
<1>8. SentSoFar(done)
  <2>1. Len(out) <= Len(t.file)
    BY <1>3, <1>4
  <2>2. /\ done.status = 200 /\ done.req \in Requests /\ HeadersFit(done.req)
        /\ done.got <= Len(Stream(done.req)) /\ done.req.path \in Paths /\ done.req.parses
        /\ done.req.method \in {"GET", "HEAD"} /\ done.pc \in Reading
    BY <1>2, <1>5 DEF SentSoFar
  <2>3. ~done.stale => \A i \in 1..Len(done.sent) : done.sent[i] = done.file[i]
    BY <1>5, <1>7
  <2> QED BY <1>5, <2>1, <2>2, <2>3 DEF SentSoFar
<1>9. CASE Becomes(c, Cut(t))
  BY <1>1, <1>9, CutInv, NothingOpenKeeps DEF t
<1>10. CASE ReadOn(c, done)
  BY <1>1, <1>5, <1>8, <1>10, ReadOnKeeps DEF t
<1>11. CASE ~MoreToRead(Len(t.buf)) /\ Becomes(c, Ended(done))
  <2>1. Len(t.buf) = Lesser(Len(t.file) - Len(t.sent), RecvBufSize)
    BY <1>3
  <2>2. Len(t.buf) = Len(t.file) - Len(t.sent)
    BY <1>11, <2>1, Zenon DEF Lesser, MoreToRead
  <2>3. Len(done.sent) = Len(t.sent) + Len(t.buf) /\ Len(done.file) = Len(t.file)
    BY <1>4, <1>5
  <2>4. Len(t.sent) + Len(t.buf) = Len(t.file)
    <3>1. Len(t.sent) \in Nat /\ Len(t.file) \in Nat
      BY <1>3
    <3> QED BY <2>2, <3>1
  <2> QED BY <1>1, <1>8, <1>11, <2>3, <2>4, SentInv, NothingOpenKeeps DEF t
<1> QED BY <1>6, <1>9, <1>10, <1>11

LEMMA ServeKeeps ==
    ASSUME IInv, NEW c \in Tasks, Serve(c)
    PROVE  IInv'
BY HeadersKeep, BodyKeeps, ReplyKeeps, GetHeaderKeeps, ChunkKeeps DEF Serve

(***************************************************************************)
(* The listener and the scheduler.                                         *)
(***************************************************************************)
LEMMA InitInv == Init => IInv
<1> SUFFICES ASSUME Init PROVE IInv
  OBVIOUS
<1>1. Switches /\ CardTypes /\ AnsweredIsOnCard
  BY DEF Init, Switches, CardTypes, AnsweredIsOnCard
<1>2. \A c \in Tasks : task[c] = Idle
  BY DEF Init
<1>3. TasksInv
  <2>1. Idle \in WorkerType
    BY IdleInv DEF WorkerInv
  <2> QED BY <1>2, <2>1, IdleInv DEF TasksInv, Init
<1>4. Busy = {}
  BY <1>2, IdleInv DEF Busy
<1>5. CountInv
  BY <1>4, FS_EmptySet, Assumed DEF CountInv, Init
<1>6. LockInv
  <2>1. \A c \in Tasks : task[c].pc \notin Reading \cup Writing
    BY <1>2, IdleInv DEF Reading, Writing
  <2> QED BY <2>1 DEF LockInv
<1> QED BY <1>1, <1>3, <1>5, <1>6 DEF IInv

(* A task is created or deleted: it is u, with nothing open, afterwards. *)
LEMMA TaskBecomes ==
    ASSUME IInv, NEW c \in Tasks, NEW u, WorkerInv(u), u.pc \notin Open,
           task' = [task EXCEPT ![c] = u], UNCHANGED cardVars, fsLock' = fsLock
    PROVE  TasksInv' /\ LockInv' /\ CardTypes' /\ AnsweredIsOnCard'
<1>1. u \in WorkerType
  BY DEF WorkerInv
<1>2. task'[c] = u /\ \A x \in Tasks \ {c} : task'[x] = task[x]
  BY DEF IInv, TasksInv
<1>3. TasksInv'
  BY <1>1, <1>2 DEF IInv, TasksInv
<1>4. CardTypes' /\ AnsweredIsOnCard'
  BY DEF IInv, CardTypes, AnsweredIsOnCard, cardVars
<1>5. Reading \subseteq Open /\ Writing \subseteq Open
  BY DEF Open
<1>6. \A x \in Tasks : task'[x].pc \in Open => task'[x] = task[x]
  BY <1>2
<1>7. LockInv'
  BY <1>5, <1>6 DEF IInv, LockInv, cardVars
<1> QED BY <1>3, <1>4, <1>7

LEMMA AcceptKeeps == ASSUME IInv, Accept PROVE IInv'
<1> DEFINE free == {c \in Tasks : task[c] = Idle}
           c    == MinOf(free)
<1>1. free # {} /\ task' = [task EXCEPT ![c] = Worker]
  BY DEF Accept
<1>2. c \in free
  <2>1. free \subseteq Nat
    BY Assumed
  <2> HIDE DEF free
  <2> QED BY <1>1, <2>1, Least
<1> HIDE DEF c
<1>3. c \in Tasks /\ task[c] = Idle /\ c \notin Busy
  BY <1>2, IdleInv DEF Busy
<1>4. Worker.pc \notin Open
  BY NewInv DEF Open, Reading, Writing
<1>5. TasksInv' /\ LockInv' /\ CardTypes' /\ AnsweredIsOnCard'
  BY <1>1, <1>3, <1>4, NewInv, TaskBecomes DEF Accept
<1>6. Busy' = Busy \cup {c}
  BY <1>1, <1>3, NewInv DEF Busy, IInv, TasksInv
<1>7. Cardinality(Busy') = Cardinality(Busy) + 1
  BY <1>3, <1>6, Busies, FS_AddElement
<1>8. CountInv'
  BY <1>7, Busies, Assumed DEF IInv, CountInv, Accept, SlotFree
<1>9. Switches'
  BY DEF IInv, Switches, Accept
<1> QED BY <1>5, <1>8, <1>9 DEF IInv

LEMMA ReapKeeps == ASSUME IInv, NEW c \in Tasks, Reap(c) PROVE IInv'
<1>1. task' = [task EXCEPT ![c] = Idle] /\ task[c].pc = "ended" /\ c \in Busy
  BY DEF Reap, Busy
<1>2. Idle.pc \notin Open
  BY IdleInv DEF Open, Reading, Writing
<1>3. TasksInv' /\ LockInv' /\ CardTypes' /\ AnsweredIsOnCard'
  BY <1>1, <1>2, IdleInv, TaskBecomes DEF Reap
<1>4. Busy' = Busy \ {c}
  BY <1>1, IdleInv DEF Busy, IInv, TasksInv
<1>5. Cardinality(Busy') = Cardinality(Busy) - 1
  BY <1>1, <1>4, Busies, FS_RemoveElement
<1>6. CountInv'
  BY <1>5, Busies, Assumed DEF IInv, CountInv, Reap, Destroyed
<1>7. Switches'
  BY DEF IInv, Switches, Reap
<1> QED BY <1>3, <1>6, <1>7 DEF IInv

LEMMA StartKeeps == ASSUME IInv, ListenerStarts PROVE IInv'
<1>1. TasksInv' /\ LockInv' /\ CardTypes' /\ AnsweredIsOnCard' /\ Busy' = Busy
  BY DEF ListenerStarts, IInv, TasksInv, LockInv, CardTypes, AnsweredIsOnCard, cardVars, Busy
<1>2. CountInv'
  BY <1>1, Busies DEF ListenerStarts, IInv, CountInv
<1>3. Switches'
  BY DEF IInv, Switches, ListenerStarts
<1> QED BY <1>1, <1>2, <1>3 DEF IInv

LEMMA ReturnKeeps == ASSUME IInv, MainReturns PROVE IInv'
<1>1. \A c \in Tasks : task'[c] = Idle
  BY DEF MainReturns
<1>2. TasksInv'
  <2>1. Idle \in WorkerType
    BY IdleInv DEF WorkerInv
  <2> QED BY <1>1, <2>1, IdleInv DEF TasksInv, MainReturns
<1>3. Busy' = {}
  BY <1>1, IdleInv DEF Busy
<1>4. CountInv'
  BY <1>3, FS_EmptySet, Assumed DEF CountInv, MainReturns
<1>5. LockInv'
  <2>1. \A c \in Tasks : task'[c].pc \notin Reading \cup Writing
    BY <1>1, IdleInv DEF Reading, Writing
  <2> QED BY <2>1 DEF LockInv
<1>6. CardTypes' /\ AnsweredIsOnCard' /\ Switches'
  BY DEF MainReturns, IInv, CardTypes, AnsweredIsOnCard, cardVars, Switches
<1> QED BY <1>2, <1>4, <1>5, <1>6 DEF IInv

LEMMA NextKeeps == IInv /\ [Next]_vars => IInv'
<1> SUFFICES ASSUME IInv, [Next]_vars PROVE IInv'
  OBVIOUS
<1>1. CASE ListenerStarts
  BY <1>1, StartKeeps
<1>2. CASE Accept
  BY <1>2, AcceptKeeps
<1>3. CASE MainReturns
  BY <1>3, ReturnKeeps
<1>4. ASSUME NEW c \in Tasks, Serve(c) PROVE IInv'
  BY <1>4, ServeKeeps
<1>5. ASSUME NEW c \in Tasks, Reap(c) PROVE IInv'
  BY <1>5, ReapKeeps
<1>6. CASE UNCHANGED vars
  BY <1>6 DEF vars, IInv, Switches, CardTypes, TasksInv, CountInv, Busy, LockInv, AnsweredIsOnCard
<1> QED BY <1>1, <1>2, <1>3, <1>4, <1>5, <1>6 DEF Next

LEMMA Invariant == Spec => []IInv
<1>1. Init => IInv
  BY InitInv
<1>2. IInv /\ [Next]_vars => IInv'
  BY NextKeeps
<1> QED BY <1>1, <1>2, PTL DEF Spec

(***************************************************************************)
(* What follows from the invariant.                                        *)
(***************************************************************************)
LEMMA InvTypeOK == IInv => TypeOK
<1> SUFFICES ASSUME IInv PROVE TypeOK
  OBVIOUS
<1>1. fsLock \in BOOLEAN /\ stopped \in BOOLEAN /\ listener \in {"new", "accepting", "ended"}
  BY DEF IInv, Switches
<1>2. /\ card \in [Paths -> {None, Directory} \cup Seq(Bytes)]
      /\ promised \in [Paths -> {None} \cup Seq(Bytes)] /\ excused \subseteq Paths
  BY DEF IInv, CardTypes, Contents
<1>3. instances \in 0..(MaxClients + 1)
  BY Busies, Assumed DEF IInv, CountInv
<1>4. ASSUME NEW c \in Tasks
      PROVE  /\ task[c].pc \in TaskStates
             /\ task[c].pc = "idle" => task[c] = Idle
             /\ task[c].pc \in {"put", "getHeader", "get", "reply"} =>
                   task[c].req \in Requests /\ task[c].got <= Len(Stream(task[c].req))
             /\ task[c].pc \notin {"put", "get"} => task[c].buf = <<>>
             /\ task[c].pc = "put" => Len(task[c].buf) < WriteBufSize
  <2>1. WorkerInv(task[c])
    BY DEF IInv, TasksInv
  <2> QED BY <2>1 DEF WorkerInv, WorkerType, Serving, Putting
<1> QED BY <1>1, <1>2, <1>3, <1>4 DEF TypeOK

LEMMA InvGetSendsFile == IInv => GetSendsFile
<1> SUFFICES ASSUME IInv, NEW c \in Tasks
             PROVE  LET t   == task[c]
                        out == t.sent \o t.buf
                    IN  /\ t.pc \in Reading /\ ~t.stale => out = SubSeq(t.file, 1, Len(out))
                        /\ t.pc \in Reading /\ fsLock => ~t.stale /\ card[t.req.path] = t.file
                        /\ t.pc = "ended" /\ t.status = 200 /\ ~t.cut /\ t.req.method = "GET" /\ ~t.stale =>
                              t.sent = t.file
  BY DEF GetSendsFile
<1> DEFINE t   == task[c]
           out == t.sent \o t.buf
<1>1. WorkerInv(t)
  BY DEF IInv, TasksInv
<1>2. t.pc \in Reading /\ fsLock => ~t.stale /\ card[t.req.path] = t.file
  BY DEF IInv, LockInv
<1>3. t.pc = "ended" /\ t.status = 200 /\ ~t.cut /\ t.req.method = "GET" /\ ~t.stale => t.sent = t.file
  BY <1>1 DEF WorkerInv, Finished
<1>4. ASSUME t.pc \in Reading, ~t.stale PROVE out = SubSeq(t.file, 1, Len(out))
  <2> HIDE DEF t
  <2>1. /\ t.sent \in Seq(Anything) /\ t.buf \in Seq(Anything) /\ t.file \in Seq(Anything)
        /\ Len(t.sent) \in Nat /\ Len(t.buf) \in Nat /\ Len(t.file) \in Nat
        /\ Len(t.sent) + Len(t.buf) <= Len(t.file)
        /\ \A i \in 1..Len(t.sent) : t.sent[i] = t.file[i]
        /\ \A i \in 1..Len(t.buf) : t.buf[i] = t.file[Len(t.sent) + i]
    BY <1>1, <1>4, LenProperties DEF WorkerInv, WorkerType, Getting, Reading, Contents, Anything
  <2>1a. /\ out \in Seq(Anything) /\ Len(out) = Len(t.sent) + Len(t.buf)
        /\ \A i \in 1..Len(t.sent) + Len(t.buf) :
              out[i] = IF i <= Len(t.sent) THEN t.sent[i] ELSE t.buf[i - Len(t.sent)]
    BY <2>1, ConcatProperties
  <2> HIDE DEF out
  <2>2. Len(out) \in Nat /\ Len(out) <= Len(out) /\ Len(out) <= Len(t.file)
    <3>1. Len(out) \in Nat
      BY <2>1a, LenProperties
    <3>2. Len(out) <= Len(out)
      BY <3>1
    <3>3. Len(out) <= Len(t.file)
      <4>1. Len(out) = Len(t.sent) + Len(t.buf) /\ Len(t.sent) + Len(t.buf) <= Len(t.file)
        BY <2>1, <2>1a
      <4> QED BY <4>1
    <3> QED BY <3>1, <3>2, <3>3
  <2>3. /\ SubSeq(t.file, 1, Len(out)) \in Seq(Anything) /\ Len(SubSeq(t.file, 1, Len(out))) = Len(out)
        /\ \A i \in 1..Len(out) : SubSeq(t.file, 1, Len(out))[i] = t.file[i]
    BY <2>1, <2>2, Prefixes
  <2>4. ASSUME NEW i \in 1..Len(out) PROVE out[i] = t.file[i]
    <3>0. i \in 1..(Len(t.sent) + Len(t.buf))
      BY <2>1a
    <3>1. CASE i <= Len(t.sent)
      <4>1. i \in 1..Len(t.sent)
        BY <2>1, <3>0, <3>1, Parts
      <4>2. out[i] = t.sent[i]
        BY <2>1a, <3>0, <3>1
      <4> QED BY <2>1, <4>1, <4>2
    <3>2. CASE ~(i <= Len(t.sent))
      <4>1. i - Len(t.sent) \in 1..Len(t.buf) /\ Len(t.sent) + (i - Len(t.sent)) = i
        BY <2>1, <3>0, <3>2, Beyond
      <4>2. out[i] = t.buf[i - Len(t.sent)]
        BY <2>1a, <3>0, <3>2
      <4>3. t.buf[i - Len(t.sent)] = t.file[Len(t.sent) + (i - Len(t.sent))]
        BY <2>1, <4>1
      <4> QED BY <4>1, <4>2, <4>3
    <3> QED BY <3>1, <3>2
  <2> QED BY <2>1a, <2>3, <2>4, SeqEqual
<1> QED BY <1>2, <1>3, <1>4

LEMMA InvAnswered == IInv => AnsweredUnlessCut
BY DEF IInv, TasksInv, WorkerInv, Finished, AnsweredUnlessCut

LEMMA InvClientLimit == IInv => ClientLimit
BY DEF IInv, CountInv, Busy, ClientLimit

(* Every variable has its type, and a worker keeps within its buffers and  *)
(* within what has arrived, in webdavserver.cpp.                           *)
THEOREM TypeCorrect == Spec => []TypeOK
BY Invariant, InvTypeOK, PTL

(* A PUT that was answered 201 or 204 by DoPut() is on the card whole, for *)
(* any split of the stream into receives and any workers beside it, as     *)
(* long as no request replaces or deletes it.                              *)
THEOREM AnsweredStaysOnCard == Spec => []AnsweredIsOnCard
<1>1. IInv => AnsweredIsOnCard
  BY DEF IInv
<1> QED BY <1>1, Invariant, PTL

(* What DoGet() sends is the file it has opened, block by block to its     *)
(* end, unless the file is deleted or replaced under it, which FF_FS_LOCK  *)
(* rules out.                                                              *)
THEOREM GetIsFaithful == Spec => []GetSendsFile
BY Invariant, InvGetSendsFile, PTL

(* Run() answers each request whose headers fit in m_pRecvBuf, wherever    *)
(* the receives cut them, and with 400 those alone which do not parse.     *)
THEOREM AnswersWhatFits == Spec => []AnsweredUnlessCut
BY Invariant, InvAnswered, PTL

(* s_nInstanceCount keeps the workers to MAX_CLIENTS, the listener being   *)
(* counted as well.                                                        *)
THEOREM ClientsAreLimited == Spec => []ClientLimit
BY Invariant, InvClientLimit, PTL

=============================================================================
