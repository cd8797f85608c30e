--------------------------- MODULE TftpBootServer --------------------------
(***************************************************************************)
(* network-loader/tftpbootserver.cpp: the TFTP server a client pushes      *)
(* kernels, defaults-strings and SD card files to.                         *)
(*                                                                         *)
(* CTFTPBootServer is a set of callbacks.  Circle's CTFTPDaemon (not part  *)
(* of the repository) calls them, one transfer at a time: FileCreate or    *)
(* FileOpen, a FileWrite or FileRead per block, then FileClose for         *)
(* completed, timed-out and aborted transfers alike (but not after a       *)
(* FileWrite that returned -1, which has closed already), and at last      *)
(* UpdateStatus with the verdict.  The variable xfer is that daemon with   *)
(* its current client.  Every callback is one action; the other tasks of   *)
(* the loader run between two callbacks.                                   *)
(***************************************************************************)
EXTENDS StagedImage

CONSTANTS
    MaxKernelSize,    \* m_nMaxKernelSize, in blocks
    Texts,            \* defaults-strings clients push to "inject"
    Newline,          \* the character FileClose trims
    BlockBytes,       \* characters of a string in one TFTP block: 512
    InjectBytes,      \* sizeof m_InjectText: 512
    Uploads,          \* files clients push to sd/<path>
    UploadLen,        \* blocks of each
    Paths,            \* the paths of the card they push to
    PathOf,           \* the path of each upload
    WriteBufBlocks,   \* WRITE_BUF_SIZE, in blocks
    PushWhileArmed    \* may a client push a kernel once one is armed?

ASSUME TftpAssumption ==
    /\ MaxKernelSize \in Nat /\ DefaultsCell <= MaxKernelSize
    /\ Texts \subseteq Seq(Chars)
    /\ InjectBytes \in Nat \ {0} /\ BlockBytes \in Nat /\ BlockBytes >= InjectBytes
    /\ \A f \in Uploads : UploadLen[f] \in Nat /\ PathOf[f] \in Paths
    /\ None \notin Paths /\ None \notin Seq(Uploads \X Nat)
    /\ WriteBufBlocks \in Nat \ {0}
    /\ PushWhileArmed \in BOOLEAN

VARIABLES
    mode,           \* m_Mode
    bufferReady,    \* m_pKernelBuffer # 0
    kernelBuffer,   \* the memory it points to
    currentOffset,  \* m_nCurrentOffset
    kernelHash,     \* m_nKernelHash: the blocks it was computed over
    kernelClosed,   \* m_bKernelClosed
    injectPending,  \* m_bInjectPending
    injectText,     \* m_InjectText and m_nInjectFill
    writeBufReady,  \* m_pWriteBuf # 0
    writeBuf,       \* m_pWriteBuf, m_nWriteBufFill blocks of it
    card,           \* the FAT filesystem: the blocks of each file, None if absent
    chainBoot,      \* what EnableChainBoot() was given last, by this server or by HTTP
    promised,       \* history: the string of the last completed inject push
    xfer            \* the daemon's current transfer

kernelVars == <<bufferReady, kernelBuffer, currentOffset, kernelHash, kernelClosed>>
injectVars == <<injectPending, injectText>>
cardVars   == <<writeBufReady, writeBuf, card>>
bootVars   == <<chainBoot, promised>>
vars == <<mode, kernelVars, injectVars, cardVars, bootVars, xfer>>

-----------------------------------------------------------------------------
(* The daemon (Circle) and its clients. *)

Idle == [op |-> "none", what |-> None, sent |-> 0, st |-> "idle"]

Transfer(op, what) == [op |-> op, what |-> what, sent |-> 0, st |-> "open"]

(* A TFTP transfer ends with the first block that is not full, so a string *)
(* takes one block more than it fills.                                     *)
BlocksOf(x) ==
    CASE x.op = "kernel"  -> KernelLen[x.what]
      [] x.op = "inject"  -> Len(x.what) \div BlockBytes + 1
      [] x.op = "sdwrite" -> UploadLen[x.what]

(* Block n of a pushed string. *)
Chunk(t, n) ==
    SubSeq(t, (n - 1) * BlockBytes + 1, IF n * BlockBytes < Len(t) THEN n * BlockBytes ELSE Len(t))

FileBlock(f, n) == <<f, n>>

Sent == [xfer EXCEPT !.sent = @ + 1]

(* FileWrite or FileRead returned -1. *)
Failed == [xfer EXCEPT !.st = "failed"]

(* The daemon calls FileClose when the client has sent its last block, or  *)
(* at any point before that when the client falls silent or sends ERROR.   *)
Verdict ==
    IF xfer.op = "sdread" THEN {"completed", "aborted"}
    ELSE IF xfer.sent = BlocksOf(xfer) THEN {"completed"} ELSE {"aborted"}

Receiving(op) ==
    /\ xfer.op = op /\ xfer.st = "open" /\ xfer.sent < BlocksOf(xfer)

NotArmed == [ptr |-> "none", size |-> 0]

-----------------------------------------------------------------------------

Init ==
    /\ mode = "ModeNone"
    /\ bufferReady = FALSE
    /\ kernelBuffer = [i \in 1..MaxKernelSize |-> BlankCell]
    /\ currentOffset = 0
    /\ kernelHash = <<>>
    /\ kernelClosed = FALSE
    /\ injectPending = FALSE
    /\ injectText = <<>>
    /\ writeBufReady = FALSE
    /\ writeBuf = <<>>
    /\ card = [p \in Paths |-> None]
    /\ chainBoot = NotArmed
    /\ promised = None
    /\ xfer = Idle

(***************************************************************************)
(* FileCreate: a client starts a push.  A refused name, a path f_open      *)
(* rejects and a kernel buffer StageAlloc() cannot place change nothing:   *)
(* the daemon answers the client with an error and stays idle.             *)
(***************************************************************************)

FileCreateInject(t) ==
    /\ xfer = Idle /\ mode = "ModeNone"
    /\ injectText' = <<>>
    /\ mode' = "ModeInject"
    /\ xfer' = Transfer("inject", t)
    /\ UNCHANGED <<kernelVars, injectPending, cardVars, bootVars>>

(* f_open truncates the file before the write buffer is asked for, which   *)
(* StageAlloc() may be unable to place.                                    *)
FileCreateSD(f) ==
    /\ xfer = Idle /\ mode = "ModeNone"
    /\ card' = [card EXCEPT ![PathOf[f]] = <<>>]
    /\ writeBufReady' \in {TRUE, writeBufReady}
    /\ writeBuf' = <<>>
    /\ mode' = "ModeSDWrite"
    /\ xfer' = Transfer("sdwrite", f)
    /\ UNCHANGED <<kernelVars, injectVars, bootVars>>

(* Mutant: the hash of a retried push goes on where the last one stopped. *)
HashBasisKept == kernelHash

(* The offset basis: nothing hashed yet. *)
HashBasis == <<>>

FileCreateKernel(k) ==
    /\ xfer = Idle /\ mode = "ModeNone"
    /\ PushWhileArmed \/ chainBoot.ptr # "tftp"
    /\ bufferReady' = TRUE
    /\ currentOffset' = 0
    /\ kernelHash' = HashBasis
    /\ mode' = "ModeKernel"
    /\ xfer' = Transfer("kernel", k)
    /\ UNCHANGED <<kernelBuffer, kernelClosed, injectVars, cardVars, bootVars>>

(* FileOpen: a client reads a file of the card. *)
FileOpen(p) ==
    /\ xfer = Idle /\ mode = "ModeNone"
    /\ card[p] # None
    /\ mode' = "ModeSDRead"
    /\ xfer' = Transfer("sdread", p)
    /\ UNCHANGED <<kernelVars, injectVars, cardVars, bootVars>>

-----------------------------------------------------------------------------
(* FileWrite: the client's next block. *)

(* Mutant: the server stays in the mode of the failed transfer. *)
RefuseKeepsMode == xfer' = Failed /\ UNCHANGED mode

(* -1 to the daemon, which will not call FileClose. *)
Refuse == xfer' = Failed /\ mode' = "ModeNone"

(* Mutant: the block that ends past the limit is accepted. *)
KernelFitsOffByOne == currentOffset <= MaxKernelSize

KernelFits == currentOffset + 1 <= MaxKernelSize

FileWriteKernel ==
    /\ Receiving("kernel") /\ mode = "ModeKernel"
    /\ LET cell == PushedCell(xfer.what, xfer.sent + 1) IN
       \/ /\ ~KernelFits
          /\ Refuse
          /\ UNCHANGED <<kernelBuffer, kernelHash, currentOffset>>
       \/ /\ KernelFits
          /\ kernelBuffer' = [kernelBuffer EXCEPT ![currentOffset + 1] = cell]
          /\ kernelHash' = Append(kernelHash, cell)
          /\ currentOffset' = currentOffset + 1
          /\ xfer' = Sent
          /\ UNCHANGED mode
    /\ UNCHANGED <<bufferReady, kernelClosed, injectVars, cardVars, bootVars>>

(* An over-long string is refused; m_bInjectPending keeps its value and    *)
(* m_InjectText what was received so far.                                  *)
FileWriteInject ==
    /\ Receiving("inject") /\ mode = "ModeInject"
    /\ LET chunk == Chunk(xfer.what, xfer.sent + 1) IN
       \/ /\ Len(injectText) + Len(chunk) > InjectBytes - 1
          /\ Refuse
          /\ UNCHANGED injectText
       \/ /\ Len(injectText) + Len(chunk) <= InjectBytes - 1
          /\ injectText' = injectText \o chunk
          /\ xfer' = Sent
          /\ UNCHANGED mode
    /\ UNCHANGED <<kernelVars, injectPending, cardVars, bootVars>>

(* FlushWriteBuf: f_write puts n of the buffered blocks on the card, all   *)
(* of them or, when the card fails or fills up, fewer.                     *)
FlushWriteBuf(p, n) == card' = [card EXCEPT ![p] = @ \o SubSeq(writeBuf, 1, n)]

(* Mutant: the fill is not reset by a flush. *)
FlushedKeepsFill == writeBuf

(* What the write buffer holds after a flush. *)
Flushed == <<>>

FileWriteSD ==
    /\ Receiving("sdwrite") /\ mode = "ModeSDWrite"
    /\ LET block == FileBlock(xfer.what, xfer.sent + 1)
           full  == Len(writeBuf) + 1 > WriteBufBlocks
       IN
       \/ /\ ~writeBufReady                                 \* no memory: close, -1
          /\ Refuse
          /\ UNCHANGED <<writeBuf, card>>
       \/ /\ writeBufReady /\ full                          \* f_write fails: close, -1
          /\ \E n \in 0..(Len(writeBuf) - 1) : FlushWriteBuf(PathOf[xfer.what], n)
          /\ writeBuf' = Flushed
          /\ Refuse
       \/ /\ writeBufReady /\ full
          /\ FlushWriteBuf(PathOf[xfer.what], Len(writeBuf))
          /\ writeBuf' = Append(Flushed, block)
          /\ xfer' = Sent
          /\ UNCHANGED mode
       \/ /\ writeBufReady /\ ~full
          /\ writeBuf' = Append(writeBuf, block)
          /\ xfer' = Sent
          /\ UNCHANGED <<card, mode>>
    /\ UNCHANGED <<kernelVars, injectVars, writeBufReady, bootVars>>

(* Mutant: at its end the file is read from the start again.               *)
FileReadAgain ==
    /\ xfer.op = "sdread" /\ xfer.st = "open" /\ mode = "ModeSDRead"
    /\ xfer.sent < Len(card[xfer.what])
    /\ xfer' = [xfer EXCEPT !.sent = (@ + 1) % Len(card[xfer.what])]
    /\ UNCHANGED <<mode, kernelVars, injectVars, cardVars, bootVars>>

(* FileRead: the next block of the file, a short one at its end, or -1.    *)
(* After -1 the mode is still ModeSDRead, so the daemon has to close.      *)
FileRead ==
    /\ xfer.op = "sdread" /\ xfer.st = "open" /\ mode = "ModeSDRead"
    /\ xfer.sent < Len(card[xfer.what])
    /\ xfer' = Sent
    /\ UNCHANGED <<mode, kernelVars, injectVars, cardVars, bootVars>>

-----------------------------------------------------------------------------
(* FileClose: every case ends with m_Mode = ModeNone.  A push ends here    *)
(* with its verdict, which FileClose itself is not told.                   *)

FileClose(m) ==
    /\ xfer.st = "open" /\ mode = m
    /\ mode' = "ModeNone"
    /\ \E v \in Verdict : xfer' = [xfer EXCEPT !.st = v]

FileCloseKernel ==
    /\ FileClose("ModeKernel")
    /\ kernelClosed' = (currentOffset > 0)
    /\ UNCHANGED <<bufferReady, kernelBuffer, currentOffset, kernelHash,
                   injectVars, cardVars, bootVars>>

(* The string without its trailing newlines. *)
Trimmed(t) ==
    LET n == CHOOSE n \in 0..Len(t) :
                /\ n > 0 => t[n] # Newline
                /\ \A i \in (n + 1)..Len(t) : t[i] = Newline
    IN  SubSeq(t, 1, n)

FileCloseInject ==
    /\ FileClose("ModeInject")
    /\ injectText' = Trimmed(injectText)
    /\ injectPending' = TRUE
    /\ UNCHANGED <<kernelVars, cardVars, bootVars>>

(* A final flush that fails is logged and otherwise ignored.               *)
FileCloseSDWrite ==
    /\ FileClose("ModeSDWrite")
    /\ \E n \in 0..Len(writeBuf) : FlushWriteBuf(PathOf[xfer.what], n)
    /\ writeBuf' = Flushed
    /\ UNCHANGED <<kernelVars, injectVars, writeBufReady, bootVars>>

FileCloseSDRead ==
    /\ FileClose("ModeSDRead")
    /\ UNCHANGED <<kernelVars, injectVars, cardVars, bootVars>>

-----------------------------------------------------------------------------
(* UpdateStatus: the daemon's verdict on a transfer that is over.  It      *)
(* reports WriteAborted for a FileWrite that failed.                       *)

(* Nothing received, or not a kernel: the callback returns at once. *)
UpdateStatusIgnored ==
    /\ xfer.st \in {"completed", "aborted", "failed"} /\ ~kernelClosed
    /\ xfer' = Idle
    /\ promised' = IF xfer.op = "inject" /\ xfer.st = "completed"
                   THEN Trimmed(xfer.what) ELSE promised
    /\ UNCHANGED <<mode, kernelVars, injectVars, cardVars, chainBoot>>

(* Mutant: every closed transfer counts as completed. *)
AnyVerdict == xfer.st \in {"completed", "aborted", "failed"}

StatusWriteCompleted == xfer.st = "completed"

(* Mutant: the injection survives the boot it was armed for. *)
StaysArmed == UNCHANGED injectVars

DisarmInject == injectPending' = FALSE /\ injectText' = <<>>

(* StatusWriteCompleted: BootImageWithDefaults() stamps the pending string *)
(* where the image takes it and arms the image either way.                 *)
UpdateStatusCompleted ==
    /\ StatusWriteCompleted /\ kernelClosed
    /\ kernelClosed' = FALSE
    /\ LET s == IF injectPending THEN injectText ELSE None IN
       /\ kernelBuffer' = Stamped(kernelBuffer, currentOffset, s)
       /\ chainBoot' = [ptr |-> "tftp", size |-> currentOffset]
    /\ DisarmInject
    /\ promised' = None
    /\ xfer' = Idle
    /\ UNCHANGED <<mode, bufferReady, currentOffset, kernelHash, cardVars>>

(* Mutant: the verdict of an abort is forgotten, the bytes are not. *)
DiscardKeepsClosed == UNCHANGED <<kernelClosed, currentOffset>>

Discard == kernelClosed' = FALSE /\ currentOffset' = 0

(* StatusWriteAborted: a truncated push is discarded; a pending injection  *)
(* stays armed for the retry.                                              *)
UpdateStatusAborted ==
    /\ xfer.st \in {"aborted", "failed"} /\ kernelClosed
    /\ Discard
    /\ xfer' = Idle
    /\ UNCHANGED <<mode, bufferReady, kernelBuffer, kernelHash, injectVars, cardVars, bootVars>>

-----------------------------------------------------------------------------

(* A client opens a transfer. *)
Request ==
    \/ \E k \in Kernels : FileCreateKernel(k)
    \/ \E t \in Texts : FileCreateInject(t)
    \/ \E f \in Uploads : FileCreateSD(f)
    \/ \E p \in Paths : FileOpen(p)

(* The daemon carries its current transfer on. *)
Serve ==
    \/ FileWriteKernel \/ FileWriteInject \/ FileWriteSD \/ FileRead
    \/ FileCloseKernel \/ FileCloseInject \/ FileCloseSDWrite \/ FileCloseSDRead
    \/ UpdateStatusIgnored \/ UpdateStatusCompleted \/ UpdateStatusAborted

Next == Request \/ Serve

Spec == Init /\ [][Next]_vars

(* The daemon task is scheduled and its receive timeout bounds the wait    *)
(* for a silent client.                                                    *)
FairSpec == Spec /\ WF_vars(Serve)

-----------------------------------------------------------------------------

TransfersOf(op, whats) ==
    [op : {op}, what : whats, sent : Nat, st : {"open", "completed", "aborted", "failed"}]

(* Every variable has its type. *)
TypeOK ==
    /\ mode \in {"ModeNone", "ModeKernel", "ModeInject", "ModeSDWrite", "ModeSDRead"}
    /\ bufferReady \in BOOLEAN
    /\ kernelBuffer \in [1..MaxKernelSize -> Cells]
    /\ currentOffset \in 0..MaxKernelSize
    /\ kernelHash \in Seq(Cells)
    /\ kernelClosed \in BOOLEAN
    /\ injectPending \in BOOLEAN
    /\ injectText \in Seq(Chars)
    /\ writeBufReady \in BOOLEAN
    /\ writeBuf \in Seq(Uploads \X Nat)
    /\ card \in [Paths -> Seq(Uploads \X Nat) \cup {None}]
    /\ chainBoot \in [ptr : {"none", "tftp", "http"}, size : 0..MaxKernelSize]
    /\ promised \in Seq(Chars) \cup {None}
    /\ xfer \in {Idle} \cup TransfersOf("kernel", Kernels) \cup TransfersOf("inject", Texts)
            \cup TransfersOf("sdwrite", Uploads) \cup TransfersOf("sdread", Paths)

(* "A truncated payload must never boot" (tftpbootserver.h): whenever      *)
(* EnableChainBoot() is given another image, the memory it is given holds  *)
(* one push from its first block to its last, however earlier pushes into  *)
(* the same buffer ended.                                                  *)
ArmedIsWholePush ==
    [][chainBoot' # chainBoot => IsWholePush(kernelBuffer', chainBoot'.size)]_vars

(* During a kernel push and until its verdict, the buffer holds the blocks *)
(* received so far, each once and in order, whatever an earlier push left  *)
(* there; a completed push is there to its last block, and FileClose's     *)
(* mark for UpdateStatus outlives no transfer (m_bKernelClosed,            *)
(* m_nCurrentOffset).                                                      *)
KernelBufferHoldsPush ==
    (mode = "ModeKernel" \/ kernelClosed) =>
        /\ xfer.op = "kernel" /\ currentOffset = xfer.sent
        /\ \A i \in 1..currentOffset : kernelBuffer[i] = PushedCell(xfer.what, i)
        /\ mode = "ModeKernel" => ~kernelClosed
        /\ kernelClosed => currentOffset > 0 /\ xfer.st \in {"completed", "aborted"}
        /\ xfer.st = "completed" => currentOffset = KernelLen[xfer.what]

(* Between two inject pushes an armed string is the promised one or empty, *)
(* and during one it is all of the string or nothing: the 512 bytes that   *)
(* m_InjectText holds are one TFTP block, so no string is armed in part    *)
(* even though a push that ends early arms what it has.                    *)
InjectIsAllOrNothing ==
    IF xfer.op # "inject"
    THEN injectPending => injectText \in {<<>>, promised}
    ELSE CASE xfer.st = "completed" -> injectText = Trimmed(xfer.what)
           [] xfer.st # "completed" /\ xfer.sent = 0 -> injectText = <<>>
           [] OTHER -> /\ xfer.st = "open" /\ injectText = xfer.what
                       /\ xfer.sent = BlocksOf(xfer)

(* What EnableChainBoot() was given stays what it was until the hand-off   *)
(* reads it, as long as clients do not push again (UpdateStatus arms a     *)
(* pointer into the buffer the next FileCreate reuses).                    *)
ArmedStaysWhole ==
    chainBoot.ptr = "tftp" => IsWholePush(kernelBuffer, chainBoot.size)

(* A string stamped into an image is the one the last completed inject     *)
(* push carried, and no other push has used it: never a refused string, a  *)
(* truncated one, or one left over from an earlier boot (m_bInjectPending  *)
(* is one-shot).                                                           *)
StampIsPromised ==
    [][LET text == kernelBuffer'[DefaultsCell].text IN
       text \notin {None, kernelBuffer[DefaultsCell].text} => text = promised]_vars

(* The hash logged at FileClose is over exactly the blocks of the image it *)
(* is logged with, so the host can compare it with the file it pushed      *)
(* (FileWrite hashes block by block, FileCreate resets).                   *)
HashCoversImage ==
    (mode = "ModeKernel" \/ kernelClosed) =>
        /\ Len(kernelHash) = currentOffset
        /\ \A i \in 1..currentOffset : kernelHash[i] = kernelBuffer[i]

(* While a file is being pushed, the card and the write buffer together    *)
(* hold the blocks received so far, each once and in order.                *)
CardHoldsPrefix ==
    mode = "ModeSDWrite" =>
        LET received == card[PathOf[xfer.what]] \o writeBuf IN
        /\ Len(received) = xfer.sent
        /\ \A i \in 1..xfer.sent : received[i] = FileBlock(xfer.what, i)

(* m_Mode follows the transfer, so FileClose never meets its assert (0),   *)
(* no callback meets the mode of another transfer, and no transfer is      *)
(* refused because an earlier one left the server busy.                    *)
ModeFollowsTransfer ==
    mode = IF xfer.st # "open" THEN "ModeNone"
           ELSE CASE xfer.op = "kernel"  -> "ModeKernel"
                  [] xfer.op = "inject"  -> "ModeInject"
                  [] xfer.op = "sdwrite" -> "ModeSDWrite"
                  [] xfer.op = "sdread"  -> "ModeSDRead"

(* Whatever a transfer runs into, the server is free for the next one      *)
(* again.                                                                  *)
ServerRecovers == mode # "ModeNone" ~> (mode = "ModeNone" /\ xfer = Idle)

(* tftpbootserver.h: an "inject" push arms its string, and "the very next  *)
(* kernel push patches it into the image's 0x800 block".                   *)
NextPushCarriesPromised ==
    [][(UpdateStatusCompleted /\ BootVerdict(kernelBuffer, currentOffset, promised) = "PatchOK")
        => kernelBuffer'[DefaultsCell].text = promised]_vars

=============================================================================
