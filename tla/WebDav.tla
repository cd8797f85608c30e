------------------------------- MODULE WebDav -------------------------------
(***************************************************************************)
(* network-loader/webdavserver.cpp: the WebDAV server onto the SD card.    *)
(*                                                                         *)
(* One listener task creates a worker task per connection; a worker serves *)
(* one request and ends.  The scheduler is cooperative: a task is not      *)
(* interrupted but in Accept(), Receive() and Send().  FatFs calls do not  *)
(* yield, so a worker's stretch from one Receive() or Send() to the next   *)
(* is one action.  A client may fall silent or leave at any point: every   *)
(* Receive() and Send() may fail (its timeout is 30 seconds).  The loader  *)
(* hands off at any point, and no task runs after that.                    *)
(*                                                                         *)
(* FatFs is not part of the repository.  A file's directory entry takes    *)
(* its size when its handle is closed; until then it is empty.  Whether    *)
(* FatFs refuses to open or delete a file that is open (FF_FS_LOCK) is a   *)
(* matter of its configuration: fsLock.  Without it handles are            *)
(* independent: what is closed last is what the entry names.               *)
(***************************************************************************)
EXTENDS Integers, Sequences, FiniteSets

CONSTANTS
    Requests,       \* what clients may send: the records of RequestType
    Paths,          \* paths of the card below its root
    Above,          \* the directories a path is in, without the root
    Root,           \* "/"
    DotDot,         \* any path that contains ".."
    None, Directory, Garbage,
    Bytes,          \* the units of the byte stream
    Cr, Lf,         \* two of them
    RecvBufSize,    \* RECV_BUF_SIZE, in these units
    WriteBufSize,   \* WRITE_BUF_SIZE
    MaxClients,     \* MAX_CLIENTS
    Tasks           \* identities of worker tasks

(* LOCK stands for whatever the server does not know. *)
Methods == {"OPTIONS", "GET", "HEAD", "PUT", "DELETE", "MKCOL", "PROPFIND", "LOCK"}

(* A request is its header block, to the blank line if it has one, what    *)
(* follows it, and what ParseRequest() finds in it: whether there is a     *)
(* request line with a path, the method, the path with its escapes         *)
(* decoded and its query cut off, and Content-Length, 0 without one.       *)
RequestType ==
    [head : Seq(Bytes), body : Seq(Bytes), parses : BOOLEAN,
     method : Methods, path : Paths \cup {Root, DotDot}, length : Nat]

ASSUME WebDavAssumption ==
    /\ \A r \in Requests : r \in RequestType
    /\ \A p \in Paths : Above[p] \subseteq Paths \ {p} /\ \A q \in Above[p] : Above[q] \subseteq Above[p]
    /\ RecvBufSize \in Nat \ {0} /\ WriteBufSize \in Nat /\ WriteBufSize >= RecvBufSize
    /\ MaxClients \in Nat \ {0}
    /\ Tasks \subseteq Nat /\ IsFiniteSet(Tasks)
    /\ {Cr, Lf} \subseteq Bytes /\ Garbage \notin Bytes
    /\ {None, Directory} \cap Seq(Bytes) = {} /\ None # Directory
    /\ None \notin Requests
    /\ Root \notin Paths /\ DotDot \notin Paths

VARIABLES
    fsLock,     \* is FatFs built with FF_FS_LOCK?
    card,       \* the directory entries: None, Directory, or a file's content
    listener,   \* the listener task
    instances,  \* s_nInstanceCount
    task,       \* the workers: member variables, local ones, and the client's view
    promised,   \* history: per path, the body of the last PUT answered 201 or 204
    excused,    \* history: paths whose entry FatFs did not update when it closed them
    stopped     \* main() has returned: no task runs any more

vars == <<fsLock, card, listener, instances, task, promised, excused, stopped>>
cardVars == <<card, promised, excused>>

(* A worker: where it is, what it has heard of a request before the end of *)
(* the headers, the request, how many units of it Receive() has returned   *)
(* (got), where its body starts, the blocks under its open file, the       *)
(* buffer between card and socket (m_pWriteBuf of a PUT, m_pRecvBuf of a   *)
(* GET), bExisted, the status it answers, and what its client has received *)
(* of a file.  stale: FatFs has freed the blocks under its handle.         *)
(* cut: Receive(), Send() or f_read() has failed.                          *)
Idle == [pc |-> "idle", heard |-> <<>>, req |-> None, got |-> 0, bodyStart |-> 0, file |-> <<>>, buf |-> <<>>,
         existed |-> FALSE, status |-> 0, sent |-> <<>>, stale |-> FALSE, cut |-> FALSE]

Worker == [Idle EXCEPT !.pc = "headers"]

Stream(r) == r.head \o r.body

Lesser(m, n) == IF m < n THEN m ELSE n

(* How many units a Receive() with some room may return after got of them. *)
Arrivals(r, got, room) == 1..Lesser(Len(Stream(r)) - got, room)

(* What a PUT has to write: m_nContentLength units behind the headers. *)
Body(t) == SubSeq(Stream(t.req), t.bodyStart + 1, t.bodyStart + t.req.length)

BodyGot(t) == Lesser(t.got - t.bodyStart, t.req.length)

MinOf(S) == CHOOSE x \in S : \A y \in S : x <= y

Reading == {"getHeader", "get"}
Writing == {"put"}
OpenIn(at, p) == {x \in Tasks : task[x].pc \in at /\ task[x].req.path = p}

(* All workers after c became t and the handles hurt lost their chain. *)
TasksAfter(c, t, hurt) ==
    [x \in Tasks |-> IF x = c THEN t
                     ELSE IF x \in hurt THEN [task[x] EXCEPT !.stale = TRUE] ELSE task[x]]

(* What a worker still knows of its request once it has an answer for it. *)
Done(t, pc) == [Idle EXCEPT !.pc = pc, !.req = t.req, !.status = t.status, !.cut = t.cut]

Reply(t, status) == [Done(t, "reply") EXCEPT !.status = status]

Init ==
    /\ fsLock \in BOOLEAN
    /\ card = [p \in Paths |-> None]
    /\ listener = "new"
    /\ instances = 1
    /\ task = [c \in Tasks |-> Idle]
    /\ promised = [p \in Paths |-> None]
    /\ excused = {}
    /\ stopped = FALSE

-----------------------------------------------------------------------------
(* The listener, and the scheduler that deletes tasks which have ended. *)

(* Bind() or Listen() fails, and the task with it, or Accept() waits. *)
ListenerStarts ==
    /\ ~stopped /\ listener = "new"
    /\ \/ listener' = "accepting" /\ UNCHANGED instances
       \/ listener' = "ended" /\ instances' = instances - 1
    /\ UNCHANGED <<fsLock, task, cardVars, stopped>>

(* Mutant: the listener's own instance is not reckoned with. *)
SlotFreeOffByOne == instances <= MaxClients + 1

SlotFree == instances < MaxClients + 1

(* A client connects and gets a worker, which the scheduler gives the      *)
(* first free identity.  Without a free slot the connection is deleted.    *)
Accept ==
    /\ ~stopped /\ listener = "accepting" /\ SlotFree
    /\ LET free == {c \in Tasks : task[c] = Idle} IN
       /\ free # {}
       /\ task' = [task EXCEPT ![MinOf(free)] = Worker]
    /\ instances' = instances + 1
    /\ UNCHANGED <<fsLock, listener, cardVars, stopped>>

(* Mutant: the destructor forgets the count. *)
DestroyedStillCounts == instances

Destroyed == instances - 1

(* Run() has returned; the destructor runs some time later. *)
Reap(c) ==
    /\ ~stopped /\ task[c].pc = "ended"
    /\ task' = [task EXCEPT ![c] = Idle]
    /\ instances' = Destroyed
    /\ UNCHANGED <<fsLock, listener, cardVars, stopped>>

(* The network-loader boots what was pushed to it.  No task is waited for, *)
(* no file closed.                                                         *)
MainReturns ==
    /\ ~stopped
    /\ stopped' = TRUE
    /\ task' = [c \in Tasks |-> Idle]
    /\ instances' = 0 /\ listener' = "ended"
    /\ UNCHANGED <<fsLock, cardVars>>

-----------------------------------------------------------------------------
(* The methods, from the end of the headers to the first Send() or         *)
(* Receive().  t is the worker with its headers complete.                  *)

Becomes(c, t) == task' = [task EXCEPT ![c] = t] /\ UNCHANGED cardVars

Answers(c, t, status) == Becomes(c, Reply(t, status))

(* Of Paths and the root. *)
Exists(p) == p # Root => card[p] # None
IsDir(p)  == p # Root => card[p] = Directory
IsFile(p) == p # Root /\ card[p] \notin {None, Directory}

(* Any FatFs call may fail besides; f_stat() knows no entry for the root.  *)
DoPropfind(c, t) ==
    \/ Exists(t.req.path) /\ Answers(c, t, 207)
    \/ t.req.path # Root /\ Answers(c, t, 404)

(* f_open() refuses a file that is being written, if there is locking. *)
DoGet(c, t) ==
    LET p == t.req.path IN
    \/ Answers(c, t, 404)
    \/ p # Root /\ IsDir(p) /\ Answers(c, t, 405)
    \/ IsFile(p) /\ Answers(c, t, 500)
    \/ /\ IsFile(p) /\ ~(fsLock /\ OpenIn(Writing, p) # {})
       /\ Becomes(c, [t EXCEPT !.pc = "getHeader", !.status = 200, !.file = card[p]])

HasParent(p) == \A q \in Above[p] : card[q] = Directory

DoMkcol(c, t) ==
    LET p == t.req.path IN
    \/ Exists(p) /\ Answers(c, t, 405)
    \/ ~Exists(p) /\ ~HasParent(p) /\ Answers(c, t, 409)
    \/ Answers(c, t, 500)
    \/ /\ ~Exists(p) /\ HasParent(p)
       /\ card' = [card EXCEPT ![p] = Directory]
       /\ task' = [task EXCEPT ![c] = Reply(t, 201)]
       /\ UNCHANGED <<promised, excused>>

(* A file that is open is refused with FR_LOCKED, or deleted all the same. *)
DoDelete(c, t) ==
    LET p     == t.req.path
        open  == OpenIn(Reading \cup Writing, p)
        empty == \A q \in Paths : p \in Above[q] => ~Exists(q)
    IN
    \/ ~Exists(p) /\ Answers(c, t, 404)
    \/ IsDir(p) /\ ~empty /\ Answers(c, t, 409)
    \/ Answers(c, t, 500)
    \/ /\ Exists(p) /\ (IsDir(p) => empty)
       /\ ~(fsLock /\ open # {})
       /\ card' = [card EXCEPT ![p] = None]
       /\ task' = TasksAfter(c, Reply(t, 204), open)
       /\ promised' = [promised EXCEPT ![p] = None]
       /\ UNCHANGED excused

-----------------------------------------------------------------------------
(* PUT.  An outcome is what the handle's blocks, the write buffer and bOK  *)
(* may be after a step.                                                    *)

Outcome(file, buf, ok) == [file |-> file, buf |-> buf, ok |-> ok]

(* All of the buffer reaches the card, or only a part of it: the buffer is *)
(* empty either way.                                                       *)
FlushPutBuf(file, buf) ==
    {Outcome(file \o SubSeq(buf, 1, n), <<>>, n = Len(buf)) : n \in 0..Len(buf)}

(* Mutant: a full buffer waits for the next chunk. *)
BufFullLate(fill) == fill > WriteBufSize

BufFull(fill) == fill >= WriteBufSize

(* The chunk is shorter than the buffer, so it fills it once at most.  The *)
(* first one has to have the buffer allocated.                             *)
WritePutChunk(file, buf, chunk) ==
    LET all  == buf \o chunk
        rest == SubSeq(all, WriteBufSize + 1, Len(all))
    IN  IF chunk = <<>> THEN {Outcome(file, buf, TRUE)}
        ELSE (IF file \o buf = <<>> THEN {Outcome(file, buf, FALSE)} ELSE {})
             \cup (IF ~BufFull(Len(all)) THEN {Outcome(file, all, TRUE)}
                   ELSE {[o EXCEPT !.buf = IF o.ok THEN rest ELSE @] :
                            o \in FlushPutBuf(file, SubSeq(all, 1, WriteBufSize))})

(* Mutant: what is left in the buffer is not written. *)
LastFlushForgotten(o) == {o}

LastFlush(o) == IF o.ok THEN FlushPutBuf(o.file, o.buf) ELSE {o}

(* f_close() puts the file in its entry, if that is still there and the    *)
(* card takes it; what it returns is not looked at.  fs is the card before *)
(* it, hurt the handles the same step has hurt.                            *)
PutCloses(c, t, o, fs, hurt) ==
    LET p == t.req.path IN
    \E updated \in IF t.stale THEN {FALSE} ELSE BOOLEAN :
        /\ card' = IF updated THEN [fs EXCEPT ![p] = o.file] ELSE fs
        /\ promised' = [promised EXCEPT ![p] = IF o.ok THEN Body(t) ELSE None]
        /\ excused' = IF updated THEN excused \ {p} ELSE excused \cup {p}
        /\ task' = TasksAfter(c, Reply(t, IF ~o.ok THEN 500 ELSE IF t.existed THEN 204 ELSE 201), hurt)

(* chunk has arrived, as t.got says. *)
PutReceived(c, t, chunk, fs, hurt) ==
    \E o \in WritePutChunk(t.file, t.buf, chunk) :
        \/ /\ o.ok /\ BodyGot(t) < t.req.length
           /\ card' = fs
           /\ promised' = [promised EXCEPT ![t.req.path] = None]
           /\ task' = TasksAfter(c, [t EXCEPT !.pc = "put", !.file = o.file, !.buf = o.buf], hurt)
           /\ UNCHANGED excused
        \/ /\ o.ok => BodyGot(t) = t.req.length
           /\ \E last \in LastFlush(o) : PutCloses(c, t, last, fs, hurt)

(* Directories of the path which are not there are created from the top    *)
(* down, as far as the card takes them; made are those created.            *)
DirsMade(p, made) ==
    /\ \A q \in made : card[q] = None /\ \A a \in Above[q] : card[a] = Directory \/ a \in made
    /\ made \subseteq Above[p]

(* FA_CREATE_ALWAYS empties the file before the first byte of the new one. *)
DoPut(c, t) ==
    LET p == t.req.path IN
    IF p = Root THEN Answers(c, t, 409)
    ELSE \E made \in SUBSET Above[p] :
        LET fs   == [q \in Paths |-> IF q \in made THEN Directory ELSE card[q]]
            open == OpenIn(Reading \cup Writing, p)
        IN
        /\ DirsMade(p, made)
        /\ \/ card' = fs /\ task' = [task EXCEPT ![c] = Reply(t, 409)] /\ UNCHANGED <<promised, excused>>
           \/ /\ \A q \in Above[p] : fs[q] = Directory
              /\ card[p] # Directory
              /\ ~(fsLock /\ open # {})
              /\ PutReceived(c, [t EXCEPT !.existed = Exists(p)],
                             SubSeq(Stream(t.req), t.bodyStart + 1, t.bodyStart + BodyGot(t)),
                             [fs EXCEPT ![p] = <<>>], OpenIn(Reading, p))

-----------------------------------------------------------------------------
(* A worker's steps, each from one Receive() or Send() to the next. *)

(* A file and what was sent of it are kept to compare them; of a worker    *)
(* that was cut off nothing is promised.                                   *)
Ended(t) == [Done(t, "ended") EXCEPT !.file = t.file, !.sent = t.sent, !.stale = t.stale]
Cut(t) == [Idle EXCEPT !.pc = "ended", !.cut = TRUE]

Dispatch(c, t) ==
    LET m == t.req.method IN
    IF ~t.req.parses THEN Answers(c, t, 400)
    ELSE IF m = "OPTIONS" THEN Answers(c, t, 200)
    ELSE IF m = "LOCK" THEN Answers(c, t, 501)
    ELSE IF t.req.path \in {DotDot} \cup (IF m = "DELETE" THEN {Root} ELSE {}) THEN Answers(c, t, 403)
    ELSE CASE m \in {"GET", "HEAD"} -> DoGet(c, t)
           [] m = "PUT"      -> DoPut(c, t)
           [] m = "DELETE"   -> DoDelete(c, t)
           [] m = "MKCOL"    -> DoMkcol(c, t)
           [] m = "PROPFIND" -> DoPropfind(c, t)

(* Mutant: a blank line that arrives in two parts is not found. *)
SearchFromNew(fill) == fill

(* Where the search for the blank line goes on when more has arrived. *)
SearchFrom(fill) == IF fill >= 3 THEN fill - 3 ELSE 0

BlankLineAt(s, i) == SubSeq(s, i + 1, i + 4) = <<Cr, Lf, Cr, Lf>>

(* What may have been heard of which request after another Receive(). *)
Hearings(heard) ==
    UNION {{[req |-> r, now |-> SubSeq(Stream(r), 1, Len(heard) + n)] :
                n \in Arrivals(r, Len(heard), RecvBufSize - Len(heard))} :
           r \in {r \in Requests : SubSeq(Stream(r), 1, Len(heard)) = heard}}

ReceiveHeaders(c) ==
    LET t == task[c]
        found(now) == {i \in SearchFrom(Len(t.heard))..(Len(now) - 4) : BlankLineAt(now, i)}
        heard == Hearings(t.heard)
    IN
    /\ t.pc = "headers"
    /\ \/ Becomes(c, Cut(t))
       \/ \E h \in {h \in heard : found(h.now) # {}} :
            Dispatch(c, [t EXCEPT !.heard = <<>>, !.req = h.req, !.got = Len(h.now),
                                  !.bodyStart = MinOf(found(h.now)) + 4])
       \/ \E now \in {h.now : h \in heard} :
            /\ found(now) = {} /\ Len(now) < RecvBufSize
            /\ Becomes(c, [t EXCEPT !.heard = now])
       \/ \E h \in heard :                               \* header block too large
            /\ found(h.now) = {} /\ Len(h.now) = RecvBufSize
            /\ Becomes(c, Ended([t EXCEPT !.req = h.req]))

(* A PUT that is cut short is closed with what has reached the card. *)
ReceiveBody(c) ==
    LET t    == task[c]
        left == t.req.length - BodyGot(t)
    IN
    /\ t.pc = "put"
    /\ \/ PutCloses(c, [t EXCEPT !.cut = TRUE], Outcome(t.file, t.buf, FALSE), card, {})
       \/ \E n \in Arrivals(t.req, t.got, Lesser(left, RecvBufSize)) :
            PutReceived(c, [t EXCEPT !.got = @ + n],
                        SubSeq(Stream(t.req), t.got + 1, t.got + n), card, {})

SendReply(c) ==
    LET t == task[c] IN
    /\ t.pc = "reply"
    /\ \/ Becomes(c, IF t.cut THEN Cut(t) ELSE Done(t, "ended"))
       \/ Becomes(c, Cut(t))

(* f_read() of the next chunk, which may fail; none is left to be sent, or *)
(* Send() goes on with it.                                                 *)
ReadOn(c, t) ==
    LET from == Len(t.sent)
        n    == Lesser(Len(t.file) - from, RecvBufSize)
        read == [i \in 1..n |-> IF t.stale THEN Garbage ELSE t.file[from + i]]
    IN
    \/ Becomes(c, Cut(t))
    \/ Becomes(c, IF n = 0 THEN Ended(t) ELSE [t EXCEPT !.pc = "get", !.buf = read])

SendGetHeader(c) ==
    LET t == task[c] IN
    /\ t.pc = "getHeader"
    /\ \/ Becomes(c, Cut(t))
       \/ t.req.method = "HEAD" /\ Becomes(c, Done(t, "ended"))
       \/ t.req.method = "GET" /\ ReadOn(c, t)

(* Mutant: a full chunk ends the file. *)
MoreToReadNever(n) == n < RecvBufSize /\ n = RecvBufSize

(* do ... while (nRead == RECV_BUF_SIZE) *)
MoreToRead(n) == n = RecvBufSize

SendChunk(c) ==
    LET t    == task[c]
        done == [t EXCEPT !.sent = @ \o t.buf]
    IN
    /\ t.pc = "get"
    /\ \/ Becomes(c, Cut(t))
       \/ MoreToRead(Len(t.buf)) /\ ReadOn(c, done)
       \/ ~MoreToRead(Len(t.buf)) /\ Becomes(c, Ended(done))

Serve(c) ==
    /\ ~stopped
    /\ ReceiveHeaders(c) \/ ReceiveBody(c) \/ SendReply(c) \/ SendGetHeader(c) \/ SendChunk(c)
    /\ UNCHANGED <<fsLock, listener, instances, stopped>>

Next ==
    \/ ListenerStarts \/ Accept \/ MainReturns
    \/ \E c \in Tasks : Serve(c) \/ Reap(c)

Spec == Init /\ [][Next]_vars

(* Some task is scheduled: a timeout bounds each Receive() and Send() of a *)
(* client that stalls.                                                     *)
FairSpec == Spec /\ WF_vars(\E c \in Tasks : Serve(c) \/ Reap(c))

-----------------------------------------------------------------------------

TaskStates == {"idle", "headers", "put", "getHeader", "get", "reply", "ended"}

(* Every variable has its type, and a handle is open as long as its worker *)
(* needs it.                                                               *)
TypeOK ==
    /\ fsLock \in BOOLEAN /\ stopped \in BOOLEAN
    /\ card \in [Paths -> {None, Directory} \cup Seq(Bytes)]
    /\ listener \in {"new", "accepting", "ended"}
    /\ instances \in 0..(MaxClients + 1)
    /\ \A c \in Tasks :
          LET t == task[c] IN
          /\ t.pc \in TaskStates
          /\ t.pc = "idle" => t = Idle
          /\ t.pc \in {"put", "getHeader", "get", "reply"} =>
                t.req \in Requests /\ t.got <= Len(Stream(t.req))
          /\ t.pc \notin {"put", "get"} => t.buf = <<>>
          /\ t.pc = "put" => Len(t.buf) < WriteBufSize
    /\ promised \in [Paths -> {None} \cup Seq(Bytes)]
    /\ excused \subseteq Paths

(* A body whose PUT was answered with 201 or 204 is on the card, whole and *)
(* unchanged, until another request deletes or replaces it, whatever ran   *)
(* beside it and also once the loader has handed off.  DoPut() does not    *)
(* look at f_close(): a file whose entry was not updated is excused.       *)
AnsweredIsOnCard ==
    \A p \in Paths : promised[p] # None /\ p \notin excused => card[p] = promised[p]

(* A client that has received a GET to its end has the file as it was when *)
(* f_stat() took its length for the header, also if that is a multiple of  *)
(* the chunk's.  With FF_FS_LOCK the file cannot change meanwhile; without *)
(* it only an undisturbed one is promised.                                 *)
GetSendsFile ==
    \A c \in Tasks :
        LET t   == task[c]
            out == t.sent \o t.buf
        IN
        /\ t.pc \in Reading /\ ~t.stale => out = SubSeq(t.file, 1, Len(out))
        /\ t.pc \in Reading /\ fsLock => ~t.stale /\ card[t.req.path] = t.file
        /\ t.pc = "ended" /\ t.status = 200 /\ ~t.cut /\ t.req.method = "GET" /\ ~t.stale =>
              t.sent = t.file

(* A worker whose Receive() and Send() calls succeeded has answered,       *)
(* however the headers and the body were split between two receives,       *)
(* unless the headers exceed m_pRecvBuf; 400 is for what does not parse.   *)
HeadersFit(r) ==
    \E i \in 0..(Lesser(Len(Stream(r)), RecvBufSize) - 4) : BlankLineAt(Stream(r), i)

AnsweredUnlessCut ==
    \A c \in Tasks :
        LET t == task[c] IN
        t.pc = "ended" /\ ~t.cut =>
            /\ t.status # 0 <=> HeadersFit(t.req)
            /\ t.status = 400 <=> HeadersFit(t.req) /\ ~t.req.parses

(* At most MAX_CLIENTS requests are served at a time; a worker counts      *)
(* until it is deleted (s_nInstanceCount, in which the listener counts     *)
(* too).                                                                   *)
ClientLimit == Cardinality({c \in Tasks : task[c].pc # "idle"}) <= MaxClients

(* However its clients stall and whatever their requests run into, a full  *)
(* server has room for another client again.                               *)
SlotFreed == ~SlotFree ~> (SlotFree \/ stopped)

=============================================================================
