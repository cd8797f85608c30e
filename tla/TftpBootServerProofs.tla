------------------------ MODULE TftpBootServerProofs -----------------------
(***************************************************************************)
(* Proofs about TftpBootServer, for every value of its constants.          *)
(***************************************************************************)
EXTENDS TftpBootServer, SequenceTheorems, WellFoundedInduction, TLAPS

-----------------------------------------------------------------------------
(* The operators the server is built from. *)

(* Every non-empty set of naturals has a least member. *)
LEMMA LeastNatural ==
    ASSUME NEW S, S \subseteq Nat, S # {}
    PROVE  \E n \in S : \A m \in S : n <= m
<1>1. PICK n \in S : \A m \in S : ~(<<m, n>> \in OpToRel(<, Nat))
    BY NatLessThanWellFounded, WFMin
<1>2. \A m \in S : ~(m < n)
    BY <1>1 DEF OpToRel
<1> QED BY <1>2

(* FileClose leaves a string whose last character is no newline, and cuts  *)
(* nothing but newlines.                                                   *)
LEMMA TrimmedProperties ==
    ASSUME NEW t \in Seq(Chars)
    PROVE  /\ Trimmed(t) \in Seq(Chars)
           /\ Len(Trimmed(t)) <= Len(t)
           /\ t = <<>> => Trimmed(t) = <<>>
<1> DEFINE Cut(n) == /\ n > 0 => t[n] # Newline
                     /\ \A i \in (n + 1)..Len(t) : t[i] = Newline
           C == {n \in 0..Len(t) : \A i \in (n + 1)..Len(t) : t[i] = Newline}
<1>1. \E n \in 0..Len(t) : Cut(n)
  <2>1. Len(t) \in C
    OBVIOUS
  <2>2. PICK n \in C : \A m \in C : n <= m
    <3>1. C \subseteq Nat /\ C # {}
      BY <2>1
    <3> HIDE DEF C
    <3> QED BY <3>1, LeastNatural
  <2>3. n > 0 => t[n] # Newline
    <3> SUFFICES ASSUME n > 0, t[n] = Newline PROVE FALSE
      OBVIOUS
    <3>1. n - 1 \in C
      BY <2>2
    <3>2. n \in Nat
      BY <2>2
    <3>3. n <= n - 1
      BY <3>1, <2>2
    <3> QED BY <3>2, <3>3
  <2> QED BY <2>2, <2>3
<1> DEFINE m == CHOOSE n \in 0..Len(t) : Cut(n)
<1>2. m \in 0..Len(t)
  BY <1>1
<1>3. Trimmed(t) = SubSeq(t, 1, m)
  BY DEF Trimmed
<1> HIDE DEF m
<1>4. \A i \in 1..m : t[i] \in Chars
  BY <1>2, ElementOfSeq
<1>5. /\ SubSeq(t, 1, m) \in Seq(Chars)
      /\ Len(SubSeq(t, 1, m)) = IF 1 <= m THEN m - 1 + 1 ELSE 0
  BY <1>2, <1>4, SubSeqProperties
<1>6. Len(t) \in Nat
  BY LenProperties
<1>7. t = <<>> => SubSeq(t, 1, m) = <<>>
  <2> SUFFICES ASSUME t = <<>> PROVE SubSeq(t, 1, m) = <<>>
    OBVIOUS
  <2>1. m = 0
    BY <1>2
  <2> QED BY <2>1, SubSeqEmpty
<1> QED BY <1>2, <1>3, <1>5, <1>6, <1>7

(* A data block of a pushed string holds characters. *)
LEMMA ChunkInSeq ==
    ASSUME NEW t \in Seq(Chars), NEW n \in Nat \ {0}
    PROVE  Chunk(t, n) \in Seq(Chars)
<1> DEFINE first == (n - 1) * BlockBytes + 1
           last  == IF n * BlockBytes < Len(t) THEN n * BlockBytes ELSE Len(t)
<1>1. BlockBytes \in Nat /\ Len(t) \in Nat
  BY TftpAssumption, LenProperties
<1>2. (n - 1) * BlockBytes \in Nat /\ n * BlockBytes \in Nat
  BY <1>1
<1>3. first \in Nat \ {0} /\ last \in Nat /\ last <= Len(t)
  BY <1>1, <1>2
<1>4. Chunk(t, n) = SubSeq(t, first, last)
  BY DEF Chunk
<1> HIDE DEF first, last
<1>5. \A i \in first..last : t[i] \in Chars
  BY <1>1, <1>3, ElementOfSeq
<1>6. SubSeq(t, first, last) \in Seq(Chars)
  BY <1>3, <1>5, SubSeqProperties
<1> QED BY <1>4, <1>6

(* Stamping changes one block of an image, and only its text. *)
LEMMA StampedProperties ==
    ASSUME NEW memory \in [1..MaxKernelSize -> Cells], NEW size,
           NEW s \in Seq(Chars) \cup {None}
    PROVE  /\ Stamped(memory, size, s) \in [1..MaxKernelSize -> Cells]
           /\ \A i \in 1..MaxKernelSize :
                /\ Stamped(memory, size, s)[i].of = memory[i].of
                /\ Stamped(memory, size, s)[i].no = memory[i].no
                /\ i # DefaultsCell => Stamped(memory, size, s)[i].text = memory[i].text
           /\ Stamped(memory, size, s)[DefaultsCell].text \in {s, memory[DefaultsCell].text}
<1>1. DefaultsCell \in 1..MaxKernelSize
  BY TftpAssumption, StagedImageAssumption
<1>2. CASE BootVerdict(memory, size, s) = "PatchOK"
  <2>1. Stamped(memory, size, s) = [memory EXCEPT ![DefaultsCell].text = s]
    BY <1>2 DEF Stamped
  <2> QED BY <1>1, <2>1 DEF Cells
<1>3. CASE BootVerdict(memory, size, s) # "PatchOK"
  BY <1>1, <1>3 DEF Stamped
<1> QED BY <1>2, <1>3

-----------------------------------------------------------------------------
(* Type correctness.  The types alone are not inductive: what a callback   *)
(* does to the card and to the daemon's transfer is typed only because the *)
(* mode tells which transfer is under way and the file being written is    *)
(* there.                                                                  *)

OpenFile == xfer.op = "sdwrite" /\ xfer.st = "open" => card[PathOf[xfer.what]] # None

TypeInv == TypeOK /\ ModeFollowsTransfer /\ OpenFile

(* The mode tells what the current transfer carries. *)
LEMMA ModeTells ==
    ASSUME TypeOK, ModeFollowsTransfer
    PROVE  /\ mode = "ModeKernel"  => xfer \in TransfersOf("kernel", Kernels) /\ xfer.st = "open"
           /\ mode = "ModeInject"  => xfer \in TransfersOf("inject", Texts) /\ xfer.st = "open"
           /\ mode = "ModeSDWrite" => xfer \in TransfersOf("sdwrite", Uploads) /\ xfer.st = "open"
           /\ mode = "ModeSDRead"  => xfer \in TransfersOf("sdread", Paths) /\ xfer.st = "open"
           /\ mode = "ModeNone"    => xfer.st # "open"
BY DEF TypeOK, ModeFollowsTransfer, TransfersOf, Idle

(* A transfer over whose FileWrite refused a block is typed, and the mode  *)
(* follows it.                                                             *)
LEMMA RefuseKeepsTypes ==
    ASSUME NEW op \in {"kernel", "inject", "sdwrite"}, NEW whats,
           xfer \in TransfersOf(op, whats), Refuse
    PROVE  xfer' \in TransfersOf(op, whats) /\ xfer'.st = "failed" /\ mode' = "ModeNone"
BY DEF Refuse, Failed, TransfersOf

(* An acknowledged block leaves the transfer open. *)
LEMMA SentKeepsTypes ==
    ASSUME NEW op, NEW whats, xfer \in TransfersOf(op, whats)
    PROVE  /\ Sent \in TransfersOf(op, whats)
           /\ Sent.op = xfer.op /\ Sent.what = xfer.what /\ Sent.st = xfer.st
           /\ Sent.sent = xfer.sent + 1
BY DEF Sent, TransfersOf

(* FileClose ends the transfer. *)
LEMMA FileCloseTypes ==
    ASSUME NEW op, NEW whats, NEW m, xfer \in TransfersOf(op, whats), FileClose(m)
    PROVE  /\ xfer' \in TransfersOf(op, whats)
           /\ xfer'.what = xfer.what /\ xfer'.sent = xfer.sent
           /\ xfer'.st \in Verdict
           /\ Verdict \subseteq {"completed", "aborted"}
           /\ mode' = "ModeNone"
<1>1. Verdict \subseteq {"completed", "aborted"}
  BY DEF Verdict
<1>2. PICK v \in Verdict : xfer' = [xfer EXCEPT !.st = v]
  BY DEF FileClose
<1> QED BY <1>1, <1>2 DEF FileClose, TransfersOf

(* A server that has just started is typed. *)
LEMMA InitTypes == Init => TypeInv
<1> SUFFICES ASSUME Init PROVE TypeInv
  OBVIOUS
<1>1. TypeOK
  <2>1. kernelBuffer \in [1..MaxKernelSize -> Cells]
    BY DEF Init, Cells, BlankCell
  <2>2. /\ kernelHash \in Seq(Cells) /\ injectText \in Seq(Chars)
        /\ writeBuf \in Seq(Uploads \X Nat)
    BY DEF Init
  <2>3. currentOffset \in 0..MaxKernelSize
    BY TftpAssumption DEF Init
  <2>4. chainBoot \in [ptr : {"none", "tftp", "http"}, size : 0..MaxKernelSize]
    BY TftpAssumption DEF Init, NotArmed
  <2> QED BY <2>1, <2>2, <2>3, <2>4 DEF Init, TypeOK
<1>2. ModeFollowsTransfer /\ OpenFile
  BY DEF Init, ModeFollowsTransfer, OpenFile, Idle
<1> QED BY <1>1, <1>2 DEF TypeInv

(* FileCreate and FileOpen keep the types. *)
LEMMA RequestKeepsTypes ==
    ASSUME TypeInv, Request
    PROVE  TypeInv'
<1> USE DEF TypeInv, TypeOK, ModeFollowsTransfer, OpenFile, Idle, Transfer, TransfersOf,
            kernelVars, injectVars, cardVars, bootVars
<1>1. ASSUME NEW k \in Kernels, FileCreateKernel(k) PROVE TypeInv'
  BY <1>1, TftpAssumption DEF FileCreateKernel, HashBasis
<1>2. ASSUME NEW t \in Texts, FileCreateInject(t) PROVE TypeInv'
  BY <1>2 DEF FileCreateInject
<1>3. ASSUME NEW f \in Uploads, FileCreateSD(f) PROVE TypeInv'
  <2>1. PathOf[f] \in Paths /\ None # <<>> /\ <<>> \in Seq(Uploads \X Nat)
    <3>1. <<>> \in Seq(Uploads \X Nat)
      BY EmptySeq
    <3> QED BY <3>1, TftpAssumption
  <2>2. /\ card' \in [Paths -> Seq(Uploads \X Nat) \cup {None}]
        /\ card'[PathOf[f]] # None
    BY <1>3, <2>1 DEF FileCreateSD
  <2>3. xfer' = [op |-> "sdwrite", what |-> f, sent |-> 0, st |-> "open"] /\ mode' = "ModeSDWrite"
    BY <1>3 DEF FileCreateSD
  <2>4. xfer'.op = "sdwrite" /\ xfer'.what = f /\ xfer'.st = "open"
    BY <2>3
  <2>5. ModeFollowsTransfer' /\ OpenFile'
    BY <2>2, <2>3, <2>4
  <2>6. xfer' \in TransfersOf("sdwrite", Uploads)
    BY <2>3
  <2>7. writeBufReady' \in BOOLEAN /\ writeBuf' \in Seq(Uploads \X Nat)
    BY <1>3, <2>1 DEF FileCreateSD
  <2> HIDE DEF TransfersOf
  <2>8. TypeOK'
    BY <1>3, <2>2, <2>3, <2>6, <2>7 DEF FileCreateSD
  <2> QED BY <2>5, <2>8
<1>4. ASSUME NEW p \in Paths, FileOpen(p) PROVE TypeInv'
  BY <1>4 DEF FileOpen
<1> QED BY <1>1, <1>2, <1>3, <1>4 DEF Request

CardTyped(p) == card \in [Paths -> Seq(Uploads \X Nat) \cup {None}] /\ card[p] # None

(* A flush, complete or not, appends blocks to a file that is there. *)
LEMMA FlushKeepsTypes ==
    ASSUME TypeOK, NEW p \in Paths, card[p] \in Seq(Uploads \X Nat),
           NEW n \in 0..Len(writeBuf), FlushWriteBuf(p, n)
    PROVE  CardTyped(p)'
<1>1. writeBuf \in Seq(Uploads \X Nat) /\ Len(writeBuf) \in Nat
  BY LenProperties DEF TypeOK
<1>2. \A i \in 1..n : writeBuf[i] \in Uploads \X Nat
  BY <1>1, ElementOfSeq
<1>3. SubSeq(writeBuf, 1, n) \in Seq(Uploads \X Nat)
  BY <1>2, SubSeqProperties
<1>4. card[p] \o SubSeq(writeBuf, 1, n) \in Seq(Uploads \X Nat)
  BY <1>3, ConcatProperties
<1> QED BY <1>4, TftpAssumption DEF FlushWriteBuf, TypeOK, CardTyped

(* FileWrite and FileRead keep the types. *)
LEMMA TransferKeepsTypes ==
    ASSUME TypeInv,
           FileWriteKernel \/ FileWriteInject \/ FileWriteSD \/ FileRead
    PROVE  TypeInv'
<1> USE DEF TypeInv, ModeFollowsTransfer, OpenFile, kernelVars, injectVars, cardVars, bootVars
<1>1. CASE FileWriteKernel
  <2>1. xfer \in TransfersOf("kernel", Kernels) /\ xfer.st = "open"
    BY <1>1, ModeTells DEF FileWriteKernel
  <2>2. PushedCell(xfer.what, xfer.sent + 1) \in Cells
    BY <2>1 DEF PushedCell, Cells, TransfersOf
  <2>3. CASE Refuse /\ UNCHANGED <<kernelBuffer, kernelHash, currentOffset>>
    BY <1>1, <2>1, <2>3, RefuseKeepsTypes DEF FileWriteKernel, TypeOK, TransfersOf
  <2>4. CASE /\ KernelFits /\ xfer' = Sent /\ UNCHANGED mode
             /\ kernelBuffer' = [kernelBuffer EXCEPT ![currentOffset + 1] =
                                                   PushedCell(xfer.what, xfer.sent + 1)]
             /\ kernelHash' = Append(kernelHash, PushedCell(xfer.what, xfer.sent + 1))
             /\ currentOffset' = currentOffset + 1
    <3>1. kernelBuffer' \in [1..MaxKernelSize -> Cells]
      BY <2>2, <2>4 DEF TypeOK
    <3>2. kernelHash' \in Seq(Cells)
      BY <2>2, <2>4, AppendProperties DEF TypeOK
    <3>3. currentOffset' \in 0..MaxKernelSize
      BY <2>4, TftpAssumption DEF TypeOK, KernelFits
    <3>4. xfer' \in TransfersOf("kernel", Kernels) /\ xfer'.st = "open"
      BY <2>1, <2>4, SentKeepsTypes
    <3> QED BY <1>1, <2>4, <3>1, <3>2, <3>3, <3>4 DEF FileWriteKernel, TypeOK, TransfersOf
  <2> QED BY <1>1, <2>3, <2>4 DEF FileWriteKernel
<1>2. CASE FileWriteInject
  <2>1. xfer \in TransfersOf("inject", Texts) /\ xfer.st = "open"
    BY <1>2, ModeTells DEF FileWriteInject
  <2>2. Chunk(xfer.what, xfer.sent + 1) \in Seq(Chars)
    <3>1. xfer.what \in Seq(Chars) /\ xfer.sent + 1 \in Nat \ {0}
      BY <2>1, TftpAssumption DEF TransfersOf
    <3> QED BY <3>1, ChunkInSeq
  <2>3. CASE Refuse /\ UNCHANGED injectText
    BY <1>2, <2>1, <2>3, RefuseKeepsTypes DEF FileWriteInject, TypeOK, TransfersOf
  <2>4. CASE /\ injectText' = injectText \o Chunk(xfer.what, xfer.sent + 1)
             /\ xfer' = Sent /\ UNCHANGED mode
    <3>1. injectText' \in Seq(Chars)
      BY <2>2, <2>4, ConcatProperties DEF TypeOK
    <3>2. xfer' \in TransfersOf("inject", Texts) /\ xfer'.st = "open"
      BY <2>1, <2>4, SentKeepsTypes
    <3> QED BY <1>2, <2>4, <3>1, <3>2 DEF FileWriteInject, TypeOK, TransfersOf
  <2> QED BY <1>2, <2>3, <2>4 DEF FileWriteInject
<1>3. CASE FileWriteSD
  <2>1. xfer \in TransfersOf("sdwrite", Uploads) /\ xfer.st = "open"
    BY <1>3, ModeTells DEF FileWriteSD
  <2>2. PICK p \in Paths : p = PathOf[xfer.what]
    BY <2>1, TftpAssumption DEF TransfersOf
  <2>3. PICK block \in Uploads \X Nat : block = FileBlock(xfer.what, xfer.sent + 1)
    <3>1. xfer.what \in Uploads /\ xfer.sent + 1 \in Nat
      BY <2>1 DEF TransfersOf
    <3>2. FileBlock(xfer.what, xfer.sent + 1) \in Uploads \X Nat
      BY <3>1 DEF FileBlock
    <3> QED BY <3>2
  <2>4. card[p] \in Seq(Uploads \X Nat) /\ CardTyped(p)
    <3>1. xfer.op = "sdwrite" /\ xfer.st = "open"
      BY <2>1 DEF TransfersOf
    <3>2. card[p] # None /\ card \in [Paths -> Seq(Uploads \X Nat) \cup {None}]
      BY <2>2, <3>1 DEF TypeOK
    <3> QED BY <3>2 DEF CardTyped
  <2>f. \A n \in 0..Len(writeBuf) : FlushWriteBuf(p, n) => CardTyped(p)'
    BY <2>4, FlushKeepsTypes
  <2>g. <<>> \in Seq(Uploads \X Nat) /\ Len(writeBuf) \in Nat
    BY LenProperties, EmptySeq DEF TypeOK
  <2>5. CASE Refuse /\ UNCHANGED <<writeBuf, card>>
    BY <1>3, <2>1, <2>5, RefuseKeepsTypes DEF FileWriteSD, TypeOK, TransfersOf
  <2>6. CASE /\ \E n \in 0..(Len(writeBuf) - 1) : FlushWriteBuf(p, n)
             /\ writeBuf' = Flushed /\ Refuse
    <3>1. CardTyped(p)' /\ writeBuf' \in Seq(Uploads \X Nat)
      BY <2>f, <2>g, <2>6 DEF Flushed
    <3>2. xfer' \in TransfersOf("sdwrite", Uploads) /\ xfer'.st = "failed" /\ mode' = "ModeNone"
      BY <2>1, <2>6, RefuseKeepsTypes
    <3> QED BY <1>3, <3>1, <3>2 DEF FileWriteSD, TypeOK, TransfersOf, CardTyped
  <2>7. CASE /\ FlushWriteBuf(p, Len(writeBuf)) \/ UNCHANGED card
             /\ writeBuf' = Append(Flushed, block) \/ writeBuf' = Append(writeBuf, block)
             /\ xfer' = Sent /\ UNCHANGED mode
    <3>1. CardTyped(p)'
      BY <2>4, <2>f, <2>g, <2>7 DEF CardTyped
    <3>2. writeBuf' \in Seq(Uploads \X Nat)
      <4>1. Append(<<>>, block) \in Seq(Uploads \X Nat)
        BY <2>g, AppendProperties
      <4>2. Append(writeBuf, block) \in Seq(Uploads \X Nat)
        BY AppendProperties DEF TypeOK
      <4> QED BY <2>7, <4>1, <4>2 DEF Flushed
    <3>3. xfer' \in TransfersOf("sdwrite", Uploads) /\ xfer'.st = "open" /\ xfer'.what = xfer.what
      BY <2>1, <2>7, SentKeepsTypes
    <3> QED BY <1>3, <2>2, <2>7, <3>1, <3>2, <3>3 DEF FileWriteSD, TypeOK, TransfersOf, CardTyped
  <2> QED BY <1>3, <2>2, <2>3, <2>5, <2>6, <2>7 DEF FileWriteSD
<1>4. CASE FileRead
  <2>1. xfer \in TransfersOf("sdread", Paths) /\ xfer.st = "open"
    BY <1>4, ModeTells DEF FileRead
  <2>2. xfer' \in TransfersOf("sdread", Paths) /\ xfer'.st = "open"
    BY <1>4, <2>1, SentKeepsTypes DEF FileRead
  <2> QED BY <1>4, <2>1, <2>2 DEF FileRead, TypeOK, TransfersOf
<1> QED BY <1>1, <1>2, <1>3, <1>4

(* FileClose keeps the types. *)
LEMMA CloseKeepsTypes ==
    ASSUME TypeInv,
           FileCloseKernel \/ FileCloseInject \/ FileCloseSDWrite \/ FileCloseSDRead
    PROVE  TypeInv'
<1> USE DEF TypeInv, ModeFollowsTransfer, OpenFile, kernelVars, injectVars, cardVars, bootVars
<1>1. CASE FileCloseKernel
  <2>1. xfer \in TransfersOf("kernel", Kernels)
    BY <1>1, ModeTells DEF FileCloseKernel, FileClose
  <2>2. /\ xfer' \in TransfersOf("kernel", Kernels) /\ mode' = "ModeNone"
        /\ xfer'.st \in {"completed", "aborted"}
    BY <1>1, <2>1, FileCloseTypes DEF FileCloseKernel
  <2> QED BY <1>1, <2>2 DEF FileCloseKernel, TypeOK, TransfersOf
<1>2. CASE FileCloseInject
  <2>1. xfer \in TransfersOf("inject", Texts)
    BY <1>2, ModeTells DEF FileCloseInject, FileClose
  <2>2. /\ xfer' \in TransfersOf("inject", Texts) /\ mode' = "ModeNone"
        /\ xfer'.st \in {"completed", "aborted"}
    BY <1>2, <2>1, FileCloseTypes DEF FileCloseInject
  <2>3. Trimmed(injectText) \in Seq(Chars)
    BY TrimmedProperties DEF TypeOK
  <2> QED BY <1>2, <2>2, <2>3 DEF FileCloseInject, TypeOK, TransfersOf
<1>3. CASE FileCloseSDWrite
  <2>1. xfer \in TransfersOf("sdwrite", Uploads) /\ xfer.op = "sdwrite" /\ xfer.st = "open"
    BY <1>3, ModeTells DEF FileCloseSDWrite, FileClose, TransfersOf
  <2>2. PICK p \in Paths : p = PathOf[xfer.what]
    BY <2>1, TftpAssumption DEF TransfersOf
  <2>3. card[p] \in Seq(Uploads \X Nat)
    BY <2>1, <2>2 DEF TypeOK
  <2>4. /\ xfer' \in TransfersOf("sdwrite", Uploads) /\ mode' = "ModeNone"
        /\ xfer'.st \in {"completed", "aborted"}
    BY <1>3, <2>1, FileCloseTypes DEF FileCloseSDWrite
  <2>5. CardTyped(p)'
    BY <1>3, <2>2, <2>3, FlushKeepsTypes DEF FileCloseSDWrite
  <2>6. writeBuf' \in Seq(Uploads \X Nat)
    BY <1>3, EmptySeq DEF FileCloseSDWrite, Flushed
  <2> QED BY <1>3, <2>4, <2>5, <2>6
       DEF FileCloseSDWrite, TypeOK, TransfersOf, CardTyped
<1>4. CASE FileCloseSDRead
  <2>1. xfer \in TransfersOf("sdread", Paths)
    BY <1>4, ModeTells DEF FileCloseSDRead, FileClose
  <2>2. /\ xfer' \in TransfersOf("sdread", Paths) /\ mode' = "ModeNone"
        /\ xfer'.st \in {"completed", "aborted"}
    BY <1>4, <2>1, FileCloseTypes DEF FileCloseSDRead
  <2> QED BY <1>4, <2>2 DEF FileCloseSDRead, TypeOK, TransfersOf
<1> QED BY <1>1, <1>2, <1>3, <1>4

(* UpdateStatus keeps the types. *)
LEMMA StatusKeepsTypes ==
    ASSUME TypeInv,
           UpdateStatusIgnored \/ UpdateStatusCompleted \/ UpdateStatusAborted
    PROVE  TypeInv'
<1> USE DEF TypeInv, ModeFollowsTransfer, OpenFile, kernelVars, injectVars, cardVars, bootVars
<1>1. CASE UpdateStatusIgnored
  <2>1. promised' \in Seq(Chars) \cup {None}
    <3>1. CASE xfer.op = "inject" /\ xfer.st = "completed"
      <4>1. xfer \in TransfersOf("inject", Texts)
        BY <3>1 DEF TypeOK, Idle, TransfersOf
      <4>2. xfer.what \in Seq(Chars)
        BY <4>1, TftpAssumption DEF TransfersOf
      <4> QED BY <1>1, <3>1, <4>2, TrimmedProperties DEF UpdateStatusIgnored
    <3>2. CASE ~(xfer.op = "inject" /\ xfer.st = "completed")
      BY <1>1, <3>2 DEF UpdateStatusIgnored, TypeOK
    <3> QED BY <3>1, <3>2
  <2>2. mode = "ModeNone"
    BY <1>1 DEF UpdateStatusIgnored, TypeOK
  <2> QED BY <1>1, <2>1, <2>2 DEF UpdateStatusIgnored, TypeOK, Idle
<1>2. CASE UpdateStatusCompleted
  <2>1. PICK s \in Seq(Chars) \cup {None} : s = IF injectPending THEN injectText ELSE None
    BY DEF TypeOK
  <2>2. kernelBuffer' \in [1..MaxKernelSize -> Cells]
    BY <1>2, <2>1, StampedProperties DEF UpdateStatusCompleted, TypeOK
  <2>3. chainBoot' \in [ptr : {"none", "tftp", "http"}, size : 0..MaxKernelSize]
    BY <1>2 DEF UpdateStatusCompleted, TypeOK
  <2>4. injectPending' \in BOOLEAN /\ injectText' \in Seq(Chars)
    BY <1>2, EmptySeq DEF UpdateStatusCompleted, DisarmInject
  <2>5. mode = "ModeNone"
    BY <1>2 DEF UpdateStatusCompleted, StatusWriteCompleted, TypeOK
  <2> QED BY <1>2, <2>2, <2>3, <2>4, <2>5 DEF UpdateStatusCompleted, TypeOK, Idle
<1>3. CASE UpdateStatusAborted
  <2>1. currentOffset' \in 0..MaxKernelSize
    BY <1>3, TftpAssumption DEF UpdateStatusAborted, Discard
  <2>2. mode = "ModeNone"
    BY <1>3 DEF UpdateStatusAborted, TypeOK
  <2> QED BY <1>3, <2>1, <2>2 DEF UpdateStatusAborted, Discard, TypeOK, Idle
<1> QED BY <1>1, <1>2, <1>3

(* Every step of the server keeps the types. *)
LEMMA NextKeepsTypes == TypeInv /\ [Next]_vars => TypeInv'
<1> SUFFICES ASSUME TypeInv, [Next]_vars PROVE TypeInv'
  OBVIOUS
<1>1. CASE Request
  BY <1>1, RequestKeepsTypes
<1>2. CASE Serve
  BY <1>2, TransferKeepsTypes, CloseKeepsTypes, StatusKeepsTypes DEF Serve
<1>3. CASE UNCHANGED vars
  <2>1. TypeOK'
    BY <1>3 DEF vars, kernelVars, injectVars, cardVars, bootVars, TypeInv, TypeOK
  <2>2. ModeFollowsTransfer'
    BY <1>3 DEF vars, TypeInv, ModeFollowsTransfer
  <2>3. OpenFile'
    BY <1>3 DEF vars, cardVars, TypeInv, OpenFile
  <2> QED BY <2>1, <2>2, <2>3 DEF TypeInv
<1> QED BY <1>1, <1>2, <1>3 DEF Next

(* The types, the mode and the open file together are invariant. *)
LEMMA TypeInvariance == Spec => []TypeInv
BY InitTypes, NextKeepsTypes, PTL DEF Spec

(* Every variable of the TFTP server keeps its type, for any kernels,      *)
(* strings, files and sizes.                                               *)
THEOREM TypeCorrect == Spec => []TypeOK
<1>1. TypeInv => TypeOK
  BY DEF TypeInv
<1> QED BY <1>1, TypeInvariance, PTL

(* m_Mode follows the daemon's transfer: FileClose never meets its assert  *)
(* (0), and a transfer that is over leaves the server free.                *)
THEOREM ModeAlwaysFollowsTransfer == Spec => []ModeFollowsTransfer
<1>1. TypeInv => ModeFollowsTransfer
  BY DEF TypeInv
<1> QED BY <1>1, TypeInvariance, PTL

-----------------------------------------------------------------------------
(* A truncated push never boots.  ArmedIsWholePush is about one step; what *)
(* makes it hold is what the buffer contains before it.                    *)

PushInv == KernelBufferHoldsPush /\ HashCoversImage

(* Each kernel callback keeps the buffer, the hash and the daemon's count  *)
(* of blocks together; the others run only when neither is in use.         *)
LEMMA NextKeepsPush == TypeInv /\ TypeInv' /\ PushInv /\ [Next]_vars => PushInv'
<1> SUFFICES ASSUME TypeInv, TypeInv', PushInv, [Next]_vars PROVE PushInv'
  OBVIOUS
<1> USE DEF PushInv, KernelBufferHoldsPush, HashCoversImage,
            kernelVars, injectVars, cardVars, bootVars
<1>1. ASSUME NEW k \in Kernels, FileCreateKernel(k) PROVE PushInv'
  BY <1>1 DEF FileCreateKernel, Transfer, HashBasis, Idle
<1>2. ASSUME NEW t \in Texts, FileCreateInject(t) PROVE PushInv'
  BY <1>2 DEF FileCreateInject, Idle
<1>3. ASSUME NEW f \in Uploads, FileCreateSD(f) PROVE PushInv'
  BY <1>3 DEF FileCreateSD, Idle
<1>4. ASSUME NEW p \in Paths, FileOpen(p) PROVE PushInv'
  BY <1>4 DEF FileOpen, Idle
<1>5. CASE FileWriteKernel
  <2>1. xfer \in TransfersOf("kernel", Kernels) /\ xfer.st = "open"
    BY <1>5, ModeTells DEF FileWriteKernel, TypeInv
  <2>2. CASE Refuse
    BY <1>5, <2>1, <2>2, RefuseKeepsTypes DEF FileWriteKernel, TransfersOf
  <2>3. CASE /\ KernelFits /\ xfer' = Sent /\ UNCHANGED mode
             /\ kernelBuffer' = [kernelBuffer EXCEPT ![currentOffset + 1] =
                                                   PushedCell(xfer.what, xfer.sent + 1)]
             /\ kernelHash' = Append(kernelHash, PushedCell(xfer.what, xfer.sent + 1))
             /\ currentOffset' = currentOffset + 1
    <3> DEFINE cell == PushedCell(xfer.what, xfer.sent + 1)
    <3>1. /\ xfer'.op = "kernel" /\ xfer'.what = xfer.what /\ xfer'.st = "open"
          /\ xfer'.sent = xfer.sent + 1
      BY <2>1, <2>3, SentKeepsTypes DEF TransfersOf
    <3>2. /\ currentOffset \in Nat /\ currentOffset + 1 \in 1..MaxKernelSize
          /\ currentOffset = xfer.sent /\ ~kernelClosed /\ Len(kernelHash) = currentOffset
      BY <1>5, <2>3, TftpAssumption DEF FileWriteKernel, KernelFits, TypeInv, TypeOK
    <3>3. cell \in Cells
      BY <2>1 DEF PushedCell, Cells, TransfersOf
    <3>4. \A i \in 1..currentOffset' :
            kernelBuffer'[i] = IF i = currentOffset + 1 THEN cell ELSE kernelBuffer[i]
      BY <2>3, <3>2 DEF TypeInv, TypeOK
    <3>5. /\ Len(kernelHash') = currentOffset + 1
          /\ \A i \in 1..currentOffset' :
            kernelHash'[i] = IF i = currentOffset + 1 THEN cell ELSE kernelHash[i]
      <4>1. kernelHash \in Seq(Cells) /\ kernelHash' = Append(kernelHash, cell)
        BY <2>3 DEF TypeInv, TypeOK
      <4> HIDE DEF cell
      <4>2. /\ Len(Append(kernelHash, cell)) = Len(kernelHash) + 1
            /\ \A i \in 1..Len(kernelHash) : Append(kernelHash, cell)[i] = kernelHash[i]
            /\ Append(kernelHash, cell)[Len(kernelHash) + 1] = cell
        BY <3>3, <4>1, AppendProperties
      <4> QED BY <2>3, <3>2, <4>1, <4>2
    <3>6. \A i \in 1..currentOffset :
            kernelBuffer[i] = PushedCell(xfer.what, i) /\ kernelHash[i] = kernelBuffer[i]
      BY <1>5 DEF FileWriteKernel
    <3>7. \A i \in 1..currentOffset' :
            /\ kernelBuffer'[i] = PushedCell(xfer.what, i)
            /\ kernelHash'[i] = kernelBuffer'[i]
      <4> HIDE DEF cell
      <4>1. cell = PushedCell(xfer.what, currentOffset + 1)
        BY <3>2 DEF cell
      <4> QED BY <2>3, <3>2, <3>4, <3>5, <3>6, <4>1
    <3> QED BY <1>5, <2>3, <3>1, <3>2, <3>5, <3>7 DEF FileWriteKernel
  <2> QED BY <1>5, <2>2, <2>3 DEF FileWriteKernel
<1>6. CASE FileWriteInject \/ FileWriteSD \/ FileRead
  <2>1. ~kernelClosed /\ mode # "ModeKernel"
    BY <1>6, ModeTells DEF FileWriteInject, FileWriteSD, FileRead, TypeInv, TransfersOf
  <2>2. kernelClosed' = kernelClosed /\ mode' \in {mode, "ModeNone"}
    BY <1>6 DEF FileWriteInject, FileWriteSD, FileRead, Refuse
  <2> QED BY <2>1, <2>2
<1>7. CASE FileCloseKernel
  <2>1. xfer \in TransfersOf("kernel", Kernels) /\ mode = "ModeKernel"
    BY <1>7, ModeTells DEF FileCloseKernel, FileClose, TypeInv
  <2>2. /\ xfer' \in TransfersOf("kernel", Kernels)
        /\ xfer'.what = xfer.what /\ xfer'.sent = xfer.sent
        /\ xfer'.st \in Verdict
        /\ Verdict \subseteq {"completed", "aborted"}
        /\ mode' = "ModeNone"
    BY <1>7, <2>1, FileCloseTypes DEF FileCloseKernel
  <2>3. xfer'.st = "completed" => xfer.sent = KernelLen[xfer.what]
    BY <2>1, <2>2 DEF Verdict, BlocksOf, TransfersOf
  <2> QED BY <1>7, <2>1, <2>2, <2>3 DEF FileCloseKernel, TransfersOf
<1>8. CASE FileCloseInject \/ FileCloseSDWrite \/ FileCloseSDRead
  <2>1. ~kernelClosed /\ mode # "ModeKernel"
    BY <1>8, ModeTells DEF FileCloseInject, FileCloseSDWrite, FileCloseSDRead, FileClose,
                           TypeInv, TransfersOf
  <2>2. kernelClosed' = kernelClosed /\ mode' = "ModeNone"
    BY <1>8 DEF FileCloseInject, FileCloseSDWrite, FileCloseSDRead, FileClose
  <2> QED BY <2>1, <2>2
<1>9. CASE UpdateStatusIgnored \/ UpdateStatusCompleted \/ UpdateStatusAborted
  <2>1. mode' = mode /\ mode # "ModeKernel"
    BY <1>9, ModeTells DEF UpdateStatusIgnored, UpdateStatusCompleted, UpdateStatusAborted,
                           StatusWriteCompleted, TypeInv
  <2>2. ~kernelClosed'
    BY <1>9 DEF UpdateStatusIgnored, UpdateStatusCompleted, UpdateStatusAborted, Discard
  <2> QED BY <2>1, <2>2
<1>10. CASE UNCHANGED vars
  BY <1>10 DEF vars
<1> QED BY <1>1, <1>2, <1>3, <1>4, <1>5, <1>6, <1>7, <1>8, <1>9, <1>10 DEF Next, Request, Serve

(* The buffer and the hash follow the push in every reachable state. *)
LEMMA PushInvariance == Spec => [](TypeInv /\ PushInv)
<1>1. Init => PushInv
  BY DEF Init, PushInv, KernelBufferHoldsPush, HashCoversImage
<1> QED BY <1>1, InitTypes, NextKeepsTypes, NextKeepsPush, PTL DEF Spec

(* The staging buffer always holds the blocks of the push it is receiving, *)
(* for every image size and every buffer.                                  *)
THEOREM KernelBufferAlwaysHoldsPush == Spec => []KernelBufferHoldsPush
<1>1. PushInv => KernelBufferHoldsPush
  BY DEF PushInv
<1> QED BY <1>1, PushInvariance, PTL

(* The hash the loader logs is always over the image it logs it for.       *)
THEOREM HashAlwaysCoversImage == Spec => []HashCoversImage
<1>1. PushInv => HashCoversImage
  BY DEF PushInv
<1> QED BY <1>1, PushInvariance, PTL

(* What UpdateStatus arms is the whole push it has been told is complete.  *)
LEMMA CompletedArmsWhole ==
    ASSUME TypeInv, PushInv, UpdateStatusCompleted
    PROVE  /\ chainBoot' = [ptr |-> "tftp", size |-> currentOffset]
           /\ IsWholePush(kernelBuffer', currentOffset)
<1>1. /\ xfer.op = "kernel" /\ xfer.st = "completed" /\ currentOffset > 0
      /\ currentOffset = KernelLen[xfer.what]
      /\ \A i \in 1..currentOffset : kernelBuffer[i] = PushedCell(xfer.what, i)
  BY DEF UpdateStatusCompleted, StatusWriteCompleted, PushInv, KernelBufferHoldsPush
<1>2. xfer.what \in Kernels
  BY <1>1 DEF TypeInv, TypeOK, TransfersOf, Idle
<1>3. PICK s \in Seq(Chars) \cup {None} : s = IF injectPending THEN injectText ELSE None
  BY DEF TypeInv, TypeOK
<1>4. \A i \in 1..MaxKernelSize :
        /\ kernelBuffer'[i].of = kernelBuffer[i].of
        /\ kernelBuffer'[i].no = kernelBuffer[i].no
        /\ i # DefaultsCell => kernelBuffer'[i].text = kernelBuffer[i].text
  <2>1. kernelBuffer' = Stamped(kernelBuffer, currentOffset, s)
    BY <1>3 DEF UpdateStatusCompleted
  <2>2. kernelBuffer \in [1..MaxKernelSize -> Cells]
    BY DEF TypeInv, TypeOK
  <2>3. \A i \in 1..MaxKernelSize :
            /\ Stamped(kernelBuffer, currentOffset, s)[i].of = kernelBuffer[i].of
            /\ Stamped(kernelBuffer, currentOffset, s)[i].no = kernelBuffer[i].no
            /\ i # DefaultsCell =>
                Stamped(kernelBuffer, currentOffset, s)[i].text = kernelBuffer[i].text
    BY <2>2, StampedProperties
  <2> QED BY <2>1, <2>3
<1>5. 1..currentOffset \subseteq 1..MaxKernelSize
  BY TftpAssumption DEF TypeInv, TypeOK
<1>6. \A i \in 1..currentOffset :
        /\ kernelBuffer'[i].of = xfer.what /\ kernelBuffer'[i].no = i
        /\ kernelBuffer'[i].text # None => i = DefaultsCell
  <2> SUFFICES ASSUME NEW i \in 1..currentOffset
               PROVE  /\ kernelBuffer'[i].of = xfer.what /\ kernelBuffer'[i].no = i
                      /\ kernelBuffer'[i].text # None => i = DefaultsCell
    OBVIOUS
  <2>1. kernelBuffer[i] = [of |-> xfer.what, no |-> i, text |-> None]
    BY <1>1 DEF PushedCell
  <2>2. kernelBuffer[i].of = xfer.what /\ kernelBuffer[i].no = i /\ kernelBuffer[i].text = None
    BY <2>1
  <2>3. i \in 1..MaxKernelSize
    BY <1>5
  <2> QED BY <1>4, <2>2, <2>3
<1> QED BY <1>1, <1>2, <1>6 DEF IsWholePush, UpdateStatusCompleted

(* Nothing else arms an image. *)
LEMMA OnlyCompletedArms ==
    ASSUME [Next]_vars, chainBoot' # chainBoot
    PROVE  UpdateStatusCompleted
BY DEF Next, Request, Serve, FileCreateKernel, FileCreateInject, FileCreateSD, FileOpen,
       FileWriteKernel, FileWriteInject, FileWriteSD, FileRead, FileCloseKernel,
       FileCloseInject, FileCloseSDWrite, FileCloseSDRead, UpdateStatusIgnored,
       UpdateStatusAborted, vars, bootVars

(* "A truncated payload must never boot": every image the server arms is a *)
(* whole push, whatever pushes were cut off, refused or repeated before.   *)
THEOREM TruncatedNeverArmed == Spec => ArmedIsWholePush
<1>1. TypeInv /\ PushInv /\ [Next]_vars
        => [chainBoot' # chainBoot => IsWholePush(kernelBuffer', chainBoot'.size)]_vars
  BY CompletedArmsWhole, OnlyCompletedArms
<1> QED BY <1>1, PushInvariance, PTL DEF Spec, ArmedIsWholePush

-----------------------------------------------------------------------------
(* The armed image until the hand-off reads it. *)

Undisturbed ==
    chainBoot.ptr = "tftp" =>
        IsWholePush(kernelBuffer, chainBoot.size) /\ mode # "ModeKernel" /\ ~kernelClosed

(* A step of clients that leave an armed kernel alone keeps it whole. *)
LEMMA NextKeepsArmed ==
    ASSUME ~PushWhileArmed, TypeInv, TypeInv', PushInv, Undisturbed, [Next]_vars
    PROVE  Undisturbed'
<1> USE DEF Undisturbed, kernelVars, injectVars, cardVars, bootVars
<1>1. CASE UpdateStatusCompleted
  <2>1. IsWholePush(kernelBuffer', chainBoot'.size)
    BY <1>1, CompletedArmsWhole
  <2>2. mode' # "ModeKernel" /\ ~kernelClosed'
    BY <1>1, ModeTells DEF UpdateStatusCompleted, StatusWriteCompleted, TypeInv
  <2> QED BY <2>1, <2>2
<1>2. ASSUME NEW k \in Kernels, FileCreateKernel(k) PROVE Undisturbed'
  BY <1>2 DEF FileCreateKernel
<1>3. CASE (\E t \in Texts : FileCreateInject(t)) \/ (\E f \in Uploads : FileCreateSD(f))
             \/ (\E p \in Paths : FileOpen(p))
  BY <1>3 DEF FileCreateInject, FileCreateSD, FileOpen
<1>4. CASE FileWriteKernel \/ FileCloseKernel
  BY <1>4 DEF FileWriteKernel, FileCloseKernel, FileClose
<1>5. CASE FileWriteInject \/ FileWriteSD \/ FileRead
  BY <1>5 DEF FileWriteInject, FileWriteSD, FileRead, Refuse
<1>6. CASE FileCloseInject \/ FileCloseSDWrite \/ FileCloseSDRead
  BY <1>6 DEF FileCloseInject, FileCloseSDWrite, FileCloseSDRead, FileClose
<1>7. CASE UpdateStatusIgnored \/ UpdateStatusAborted
  BY <1>7 DEF UpdateStatusIgnored, UpdateStatusAborted, Discard
<1>8. CASE UNCHANGED vars
  BY <1>8 DEF vars
<1> QED BY <1>1, <1>2, <1>3, <1>4, <1>5, <1>6, <1>7, <1>8 DEF Next, Request, Serve

(* When clients stop pushing kernels once one is armed, the armed memory   *)
(* is the whole push it was armed for until the hand-off copies it.        *)
THEOREM ArmedRemainsWhole == ~PushWhileArmed => (Spec => []ArmedStaysWhole)
<1> SUFFICES ASSUME ~PushWhileArmed PROVE Spec => []ArmedStaysWhole
  OBVIOUS
<1>1. Init => Undisturbed
  BY DEF Init, Undisturbed, NotArmed
<1>2. TypeInv /\ TypeInv' /\ PushInv /\ Undisturbed /\ [Next]_vars => Undisturbed'
  BY NextKeepsArmed
<1>3. Undisturbed => ArmedStaysWhole
  BY DEF Undisturbed, ArmedStaysWhole
<1> QED BY <1>1, <1>2, <1>3, PushInvariance, PTL DEF Spec

-----------------------------------------------------------------------------
(* What is stamped.  A string that m_InjectText holds fits one data block, *)
(* so a push of it is there whole or not at all.                           *)

(* The first data block of a pushed string is all of it or fills the block,*)
(* which is as long as m_InjectText.                                       *)
LEMMA FirstChunk ==
    ASSUME NEW t \in Seq(Chars), Len(Chunk(t, 1)) <= InjectBytes - 1
    PROVE  Chunk(t, 1) = t /\ Len(t) \div BlockBytes = 0
<1>1. /\ Len(t) \in Nat /\ BlockBytes \in Nat /\ InjectBytes \in Nat \ {0}
      /\ BlockBytes >= InjectBytes
  BY LenProperties, TftpAssumption
<1> DEFINE last == IF BlockBytes < Len(t) THEN BlockBytes ELSE Len(t)
<1>2. Chunk(t, 1) = SubSeq(t, 1, last)
  <2>1. (1 - 1) * BlockBytes + 1 = 1 /\ 1 * BlockBytes = BlockBytes
    BY <1>1
  <2> QED BY <2>1 DEF Chunk
<1>3. last \in Nat /\ last <= Len(t)
  BY <1>1
<1>4. Len(Chunk(t, 1)) = last
  <2> HIDE DEF last
  <2>1. \A i \in 1..last : t[i] \in Chars
    BY <1>1, <1>3, ElementOfSeq
  <2>2. Len(SubSeq(t, 1, last)) = IF 1 <= last THEN last - 1 + 1 ELSE 0
    BY <1>3, <2>1, SubSeqProperties
  <2> QED BY <1>2, <1>3, <2>2
<1>5. Len(t) < BlockBytes /\ last = Len(t)
  BY <1>1, <1>4
<1>6. Chunk(t, 1) = t
  BY <1>2, <1>5, SubSeqFull
<1>7. Len(t) \div BlockBytes = 0
  BY <1>1, <1>5
<1> QED BY <1>6, <1>7

(* A null or empty string stamps nothing. *)
LEMMA EmptyStampsNothing ==
    ASSUME NEW memory, NEW size, NEW s \in {None, <<>>}
    PROVE  Stamped(memory, size, s) = memory
BY DEF Stamped, BootVerdict

(* A quotient of naturals is one. *)
LEMMA DivNat ==
    ASSUME NEW n \in Nat, NEW d \in Nat \ {0}
    PROVE  n \div d \in Nat
OBVIOUS

(* A pushed string takes at least one data block. *)
LEMMA OneBlockAtLeast ==
    ASSUME NEW whats, whats \subseteq Seq(Chars), xfer \in TransfersOf("inject", whats)
    PROVE  BlocksOf(xfer) \in Nat \ {0}
<1>1. xfer.what \in Seq(Chars) /\ BlockBytes \in Nat /\ BlockBytes > 0
  BY TftpAssumption DEF TransfersOf
<1>2. Len(xfer.what) \in Nat
  BY <1>1, LenProperties
<1>3. Len(xfer.what) \div BlockBytes \in Nat
  <2>1. PICK n \in Nat : n = Len(xfer.what)
    BY <1>2
  <2>2. n \div BlockBytes \in Nat
    BY <1>1, DivNat
  <2> QED BY <2>1, <2>2
<1> QED BY <1>3 DEF BlocksOf, TransfersOf

(* An inject push that is under way has all of its string or nothing yet.  *)
LEMMA InjectNextKeeps ==
    ASSUME TypeInv, PushInv, InjectIsAllOrNothing, [Next]_vars
    PROVE  InjectIsAllOrNothing'
<1> USE DEF InjectIsAllOrNothing, kernelVars, injectVars, cardVars, bootVars
<1>1. ASSUME NEW k \in Kernels, FileCreateKernel(k) PROVE InjectIsAllOrNothing'
  BY <1>1 DEF FileCreateKernel, Idle, Transfer
<1>2. ASSUME NEW t \in Texts, FileCreateInject(t) PROVE InjectIsAllOrNothing'
  BY <1>2 DEF FileCreateInject, Transfer
<1>3. ASSUME NEW f \in Uploads, FileCreateSD(f) PROVE InjectIsAllOrNothing'
  BY <1>3 DEF FileCreateSD, Idle, Transfer
<1>4. ASSUME NEW p \in Paths, FileOpen(p) PROVE InjectIsAllOrNothing'
  BY <1>4 DEF FileOpen, Idle, Transfer
<1>5. CASE FileWriteKernel \/ FileWriteSD \/ FileRead
  <2>1. xfer.op # "inject"
    BY <1>5, ModeTells DEF FileWriteKernel, FileWriteSD, FileRead, TypeInv, TransfersOf
  <2>2. xfer'.op = xfer.op
    <3>1. Sent.op = xfer.op /\ Failed.op = xfer.op
      BY <1>5, ModeTells DEF FileWriteKernel, FileWriteSD, FileRead, TypeInv, TransfersOf,
                             Sent, Failed
    <3>2. xfer' \in {Sent, Failed}
      BY <1>5 DEF FileWriteKernel, FileWriteSD, FileRead, Refuse
    <3> QED BY <3>1, <3>2
  <2>3. UNCHANGED <<injectPending, injectText, promised>>
    BY <1>5 DEF FileWriteKernel, FileWriteSD, FileRead
  <2> QED BY <2>1, <2>2, <2>3
<1>6. CASE FileWriteInject
  <2>1. xfer \in TransfersOf("inject", Texts) /\ xfer.st = "open" /\ xfer.op = "inject"
    BY <1>6, ModeTells DEF FileWriteInject, TypeInv, TransfersOf
  <2>2. xfer.sent = 0 /\ injectText = <<>>
    <3>1. xfer.sent < BlocksOf(xfer)
      BY <1>6 DEF FileWriteInject, Receiving
    <3>2. xfer.sent \in Nat /\ BlocksOf(xfer) # xfer.sent
      <4>1. BlocksOf(xfer) \in Nat
        BY <2>1, OneBlockAtLeast, TftpAssumption
      <4> QED BY <2>1, <3>1, <4>1 DEF TransfersOf
    <3> QED BY <2>1, <3>2
  <2>3. PICK t \in Seq(Chars) : t = xfer.what
    BY <2>1, TftpAssumption DEF TransfersOf
  <2>4. xfer.sent + 1 = 1
    BY <2>2
  <2>5. CASE Refuse /\ UNCHANGED injectText
    BY <2>1, <2>2, <2>5 DEF Refuse, Failed, TransfersOf
  <2>6. CASE /\ Len(injectText) + Len(Chunk(t, 1)) <= InjectBytes - 1
             /\ injectText' = injectText \o Chunk(t, 1)
             /\ xfer' = Sent
    <3>1. Chunk(t, 1) \in Seq(Chars)
      BY ChunkInSeq
    <3>2. Len(Chunk(t, 1)) <= InjectBytes - 1
      <4>1. Len(injectText) = 0 /\ Len(Chunk(t, 1)) \in Nat
        BY <2>2, <3>1, LenProperties, EmptySeq
      <4> QED BY <2>6, <4>1
    <3>3. Chunk(t, 1) = t /\ Len(t) \div BlockBytes = 0
      BY <3>2, FirstChunk
    <3>4. injectText' = t
      BY <2>2, <2>6, <3>3, ConcatEmptySeq
    <3>5. /\ xfer'.op = "inject" /\ xfer'.what = t /\ xfer'.st = "open" /\ xfer'.sent = 1
      BY <2>1, <2>2, <2>3, <2>6, SentKeepsTypes
    <3>6. BlocksOf(xfer') = 1
      BY <3>3, <3>5 DEF BlocksOf
    <3> QED BY <3>4, <3>5, <3>6
  <2> QED BY <1>6, <2>3, <2>4, <2>5, <2>6 DEF FileWriteInject
<1>7. CASE FileCloseInject
  <2>1. xfer \in TransfersOf("inject", Texts) /\ xfer.st = "open" /\ xfer.op = "inject"
    BY <1>7, ModeTells DEF FileCloseInject, FileClose, TypeInv, TransfersOf
  <2>2. /\ xfer' \in TransfersOf("inject", Texts)
        /\ xfer'.what = xfer.what /\ xfer'.sent = xfer.sent
        /\ xfer'.st \in Verdict
    BY <1>7, <2>1, FileCloseTypes DEF FileCloseInject
  <2>3. Verdict = IF xfer.sent = BlocksOf(xfer) THEN {"completed"} ELSE {"aborted"}
    BY <2>1 DEF Verdict
  <2>4. injectText' = Trimmed(injectText)
    BY <1>7 DEF FileCloseInject
  <2>5. CASE xfer.sent = 0 /\ injectText = <<>>
    <3>1. BlocksOf(xfer) # 0
      BY <2>1, OneBlockAtLeast, TftpAssumption
    <3>2. Trimmed(injectText) = <<>>
      BY <2>5, TrimmedProperties, EmptySeq
    <3> QED BY <2>1, <2>2, <2>3, <2>4, <2>5, <3>1, <3>2 DEF TransfersOf
  <2>6. CASE injectText = xfer.what /\ xfer.sent = BlocksOf(xfer)
    BY <2>1, <2>2, <2>3, <2>4, <2>6 DEF TransfersOf
  <2> QED BY <2>1, <2>5, <2>6
<1>8. CASE FileCloseKernel \/ FileCloseSDWrite \/ FileCloseSDRead
  <2>1. PICK m \in {"ModeKernel", "ModeSDWrite", "ModeSDRead"} : FileClose(m)
    BY <1>8 DEF FileCloseKernel, FileCloseSDWrite, FileCloseSDRead
  <2>2. PICK op \in {"kernel", "sdwrite", "sdread"} :
          xfer \in TransfersOf(op, Kernels \cup Uploads \cup Paths)
    BY <2>1, ModeTells DEF FileClose, TypeInv, TransfersOf
  <2>3. xfer.op = op /\ xfer'.op = op
    BY <2>1, <2>2, FileCloseTypes DEF TransfersOf
  <2>4. UNCHANGED <<injectPending, injectText, promised>>
    BY <1>8 DEF FileCloseKernel, FileCloseSDWrite, FileCloseSDRead
  <2> QED BY <2>2, <2>3, <2>4
<1>9. CASE UpdateStatusIgnored
  BY <1>9 DEF UpdateStatusIgnored, Idle
<1>10. CASE UpdateStatusCompleted
  BY <1>10 DEF UpdateStatusCompleted, DisarmInject, Idle
<1>11. CASE UpdateStatusAborted
  BY <1>11 DEF UpdateStatusAborted, PushInv, KernelBufferHoldsPush, Idle
<1>12. CASE UNCHANGED vars
  <2>1. UNCHANGED <<xfer, injectPending, injectText, promised>>
    BY <1>12 DEF vars
  <2> QED BY <2>1 DEF BlocksOf
<1> QED BY <1>1, <1>2, <1>3, <1>4, <1>5, <1>6, <1>7, <1>8, <1>9, <1>10, <1>11, <1>12
     DEF Next, Request, Serve

(* No string is held in part in any reachable state. *)
LEMMA InjectInvariance == Spec => [](TypeInv /\ PushInv /\ InjectIsAllOrNothing)
<1>1. Init => InjectIsAllOrNothing
  BY DEF Init, InjectIsAllOrNothing, Idle
<1> QED BY <1>1, InjectNextKeeps, PushInvariance, PTL DEF Spec

(* An armed string is the one promised last, in full, or none.             *)
THEOREM InjectAlwaysAllOrNothing == Spec => []InjectIsAllOrNothing
BY InjectInvariance, PTL

(* Whatever else was pushed before, the only string ever stamped into an   *)
(* image is that of the last completed inject push, and it is stamped once.*)
THEOREM StampAlwaysPromised == Spec => StampIsPromised
<1> DEFINE A == LET text == kernelBuffer'[DefaultsCell].text IN
                text \notin {None, kernelBuffer[DefaultsCell].text} => text = promised
<1>1. ASSUME TypeInv, PushInv, InjectIsAllOrNothing, [Next]_vars PROVE [A]_vars
  <2>1. CASE UpdateStatusCompleted
    <3>1. xfer.op = "kernel"
      BY <1>1, <2>1 DEF UpdateStatusCompleted, PushInv, KernelBufferHoldsPush
    <3>2. PICK s \in Seq(Chars) \cup {None} : s = IF injectPending THEN injectText ELSE None
      BY <1>1 DEF TypeInv, TypeOK
    <3>3. s \in {None, <<>>, promised}
      BY <1>1, <3>1, <3>2 DEF InjectIsAllOrNothing
    <3>4. kernelBuffer' = Stamped(kernelBuffer, currentOffset, s)
      BY <2>1, <3>2 DEF UpdateStatusCompleted
    <3>5. CASE s \in {None, <<>>}
      BY <3>4, <3>5, EmptyStampsNothing
    <3>6. CASE s = promised
      <4>1. kernelBuffer \in [1..MaxKernelSize -> Cells]
        BY <1>1 DEF TypeInv, TypeOK
      <4>2. Stamped(kernelBuffer, currentOffset, s)[DefaultsCell].text
                \in {s, kernelBuffer[DefaultsCell].text}
        BY <4>1, StampedProperties
      <4> QED BY <3>4, <3>6, <4>2
    <3> QED BY <3>3, <3>5, <3>6
  <2>2. CASE FileWriteKernel
    <3>1. kernelBuffer' \in {kernelBuffer, [kernelBuffer EXCEPT ![currentOffset + 1] =
                                              PushedCell(xfer.what, xfer.sent + 1)]}
      BY <2>2 DEF FileWriteKernel
    <3>2. PushedCell(xfer.what, xfer.sent + 1).text = None
      BY DEF PushedCell
    <3>3. DefaultsCell \in 1..MaxKernelSize
      BY TftpAssumption, StagedImageAssumption
    <3>4. kernelBuffer'[DefaultsCell] \in {kernelBuffer[DefaultsCell],
                                           PushedCell(xfer.what, xfer.sent + 1)}
      BY <1>1, <3>1, <3>3 DEF TypeInv, TypeOK
    <3> QED BY <3>2, <3>4
  <2>3. CASE kernelBuffer' = kernelBuffer
    BY <2>3
  <2>4. UpdateStatusCompleted \/ FileWriteKernel \/ kernelBuffer' = kernelBuffer
    BY <1>1 DEF Next, Request, Serve, FileCreateKernel, FileCreateInject, FileCreateSD, FileOpen,
                FileWriteInject, FileWriteSD, FileRead, FileCloseKernel, FileCloseInject,
                FileCloseSDWrite, FileCloseSDRead, UpdateStatusIgnored, UpdateStatusAborted,
                vars, kernelVars
  <2> QED BY <2>1, <2>2, <2>3, <2>4
<1> QED BY <1>1, InjectInvariance, PTL DEF Spec, StampIsPromised

-----------------------------------------------------------------------------
(* Files on the card.                                                      *)

Received(blocks, f, n) ==
    Len(blocks) = n /\ \A i \in 1..n : blocks[i] = FileBlock(f, i)

(* One block more, in the buffer or behind a flush. *)
LEMMA ReceivedMore ==
    ASSUME NEW B, NEW onCard \in Seq(B), NEW inBuf \in Seq(B), NEW n \in Nat, NEW f,
           FileBlock(f, n + 1) \in B, Received(onCard \o inBuf, f, n)
    PROVE  /\ Received(onCard \o Append(inBuf, FileBlock(f, n + 1)), f, n + 1)
           /\ Received((onCard \o inBuf) \o Append(<<>>, FileBlock(f, n + 1)), f, n + 1)
<1> DEFINE block == FileBlock(f, n + 1)
           so    == onCard \o inBuf
           more  == Append(inBuf, block)
           one   == Append(<<>>, block)
<1>1. /\ Len(onCard) \in Nat /\ Len(inBuf) \in Nat /\ so \in Seq(B)
      /\ Len(so) = Len(onCard) + Len(inBuf)
      /\ \A i \in 1..(Len(onCard) + Len(inBuf)) :
            so[i] = IF i <= Len(onCard) THEN onCard[i] ELSE inBuf[i - Len(onCard)]
  BY LenProperties, ConcatProperties
<1>2. Len(so) = n /\ \A i \in 1..n : so[i] = FileBlock(f, i)
  BY DEF Received
<1>3. /\ <<>> \in Seq(B) /\ Len(<<>>) = 0
  BY EmptySeq
<1>4. one \in Seq(B) /\ Len(one) = 1 /\ one[1] = block
  <2> HIDE DEF block
  <2>1. block \in B
    BY DEF block
  <2>2. /\ Append(<<>>, block) \in Seq(B) /\ Len(Append(<<>>, block)) = Len(<<>>) + 1
        /\ Append(<<>>, block)[Len(<<>>) + 1] = block
    BY <1>3, <2>1, AppendProperties
  <2> QED BY <1>3, <2>2
<1>5. /\ more \in Seq(B) /\ Len(more) = Len(inBuf) + 1
      /\ \A i \in 1..Len(inBuf) : more[i] = inBuf[i]
      /\ more[Len(inBuf) + 1] = block
  <2> HIDE DEF block
  <2>1. block \in B
    BY DEF block
  <2> QED BY <2>1, AppendProperties
<1> HIDE DEF so, more, one
<1>6. /\ Len(onCard \o more) = Len(onCard) + Len(more)
      /\ \A i \in 1..(Len(onCard) + Len(more)) :
            (onCard \o more)[i] = IF i <= Len(onCard) THEN onCard[i] ELSE more[i - Len(onCard)]
  BY <1>5, ConcatProperties
<1>7. /\ Len(so \o one) = Len(so) + Len(one)
      /\ \A i \in 1..(Len(so) + Len(one)) :
            (so \o one)[i] = IF i <= Len(so) THEN so[i] ELSE one[i - Len(so)]
  <2>1. so \in Seq(B) /\ one \in Seq(B)
    BY <1>1, <1>4
  <2> QED BY <2>1, ConcatProperties
<1>8. Received(so \o one, f, n + 1)
  <2>1. \A i \in 1..(n + 1) : (so \o one)[i] = FileBlock(f, i)
    <3> SUFFICES ASSUME NEW i \in 1..(n + 1) PROVE (so \o one)[i] = FileBlock(f, i)
      OBVIOUS
    <3>1. CASE i <= n
      BY <1>2, <1>4, <1>7, <3>1
    <3>2. CASE i = n + 1
      BY <1>2, <1>4, <1>7, <3>2
    <3>3. i <= n \/ i = n + 1
      OBVIOUS
    <3> QED BY <3>1, <3>2, <3>3
  <2> QED BY <1>2, <1>4, <1>7, <2>1 DEF Received
<1>9. Received(onCard \o more, f, n + 1)
  <2>1. \A i \in 1..(n + 1) : (onCard \o more)[i] = FileBlock(f, i)
    <3> SUFFICES ASSUME NEW i \in 1..(n + 1) PROVE (onCard \o more)[i] = FileBlock(f, i)
      OBVIOUS
    <3>1. CASE i <= Len(onCard)
      <4>1. i \in 1..(Len(onCard) + Len(inBuf)) /\ i \in 1..(Len(onCard) + Len(more))
        BY <1>1, <1>5, <3>1
      <4>2. (onCard \o more)[i] = onCard[i]
        BY <1>6, <3>1, <4>1
      <4>3. so[i] = onCard[i] /\ i \in 1..n
        BY <1>1, <1>2, <3>1, <4>1
      <4> QED BY <1>2, <4>2, <4>3
    <3>2. CASE i > Len(onCard) /\ i <= n
      <4>1. i - Len(onCard) \in 1..Len(inBuf)
        BY <1>1, <1>2, <3>2
      <4>2. (onCard \o more)[i] = inBuf[i - Len(onCard)]
        BY <1>1, <1>2, <1>5, <1>6, <3>2, <4>1
      <4>3. so[i] = inBuf[i - Len(onCard)]
        BY <1>1, <1>2, <3>2
      <4> QED BY <1>2, <3>2, <4>2, <4>3
    <3>3. CASE i = n + 1
      <4>1. i - Len(onCard) = Len(inBuf) + 1 /\ ~(i <= Len(onCard))
        <5>1. PICK a \in Nat, b \in Nat : a = Len(onCard) /\ b = Len(inBuf)
          BY <1>1
        <5>2. n = a + b
          BY <1>1, <1>2, <5>1
        <5>3. i - a = b + 1 /\ ~(i <= a)
          BY <3>3, <5>2
        <5> QED BY <5>1, <5>3
      <4>2. (onCard \o more)[i] = more[Len(inBuf) + 1]
        BY <1>1, <1>2, <1>5, <1>6, <3>3, <4>1
      <4> QED BY <1>5, <3>3, <4>2
    <3>4. i <= Len(onCard) \/ (i > Len(onCard) /\ i <= n) \/ i = n + 1
      BY <1>1
    <3> QED BY <3>1, <3>2, <3>3, <3>4
  <2>2. Len(onCard \o more) = n + 1
    <3>1. Len(onCard) + Len(inBuf) = n
      BY <1>1, <1>2
    <3>2. Len(more) = Len(inBuf) + 1
      BY <1>5
    <3>3. Len(onCard \o more) = Len(onCard) + Len(more)
      BY <1>6
    <3>4. Len(onCard) \in Nat /\ Len(inBuf) \in Nat
      BY <1>1
    <3> QED BY <3>1, <3>2, <3>3, <3>4
  <2> QED BY <2>1, <2>2 DEF Received
<1> QED BY <1>8, <1>9 DEF so, more, one

(* Every callback of an SD transfer keeps what was received in order.      *)
LEMMA NextKeepsCard ==
    ASSUME TypeInv, CardHoldsPrefix, [Next]_vars
    PROVE  CardHoldsPrefix'
<1> USE DEF kernelVars, injectVars, cardVars, bootVars
<1>1. ASSUME NEW f \in Uploads, FileCreateSD(f) PROVE CardHoldsPrefix'
  <2>1. /\ PathOf[f] \in Paths /\ card \in [Paths -> Seq(Uploads \X Nat) \cup {None}]
        /\ xfer' = Transfer("sdwrite", f)
        /\ card' = [card EXCEPT ![PathOf[f]] = <<>>] /\ writeBuf' = <<>>
    BY <1>1, TftpAssumption DEF FileCreateSD, TypeInv, TypeOK
  <2>2. xfer'.what = f /\ xfer'.sent = 0
    BY <2>1 DEF Transfer
  <2>3. card'[PathOf[f]] = <<>>
    BY <2>1
  <2>4. Len(<<>> \o <<>>) = 0
    OBVIOUS
  <2> QED BY <2>1, <2>2, <2>3, <2>4 DEF CardHoldsPrefix
<1>2. CASE FileWriteSD
  <2>1. xfer \in TransfersOf("sdwrite", Uploads) /\ xfer.st = "open" /\ mode = "ModeSDWrite"
    BY <1>2, ModeTells DEF FileWriteSD, TypeInv
  <2>2. CASE Refuse
    BY <2>2 DEF Refuse, CardHoldsPrefix
  <2>3. CASE /\ xfer' = Sent
             /\ \/ /\ FlushWriteBuf(PathOf[xfer.what], Len(writeBuf))
                   /\ writeBuf' = Append(Flushed, FileBlock(xfer.what, xfer.sent + 1))
                \/ /\ writeBuf' = Append(writeBuf, FileBlock(xfer.what, xfer.sent + 1))
                   /\ UNCHANGED card
    <3>1. PICK f \in Uploads : f = xfer.what
      BY <2>1 DEF TransfersOf
    <3>2. PICK p \in Paths : p = PathOf[f]
      BY TftpAssumption
    <3>3. PICK n \in Nat : n = xfer.sent
      BY <2>1 DEF TransfersOf
    <3>4. /\ card[p] \in Seq(Uploads \X Nat) /\ writeBuf \in Seq(Uploads \X Nat)
          /\ card \in [Paths -> Seq(Uploads \X Nat) \cup {None}]
      BY <2>1, <3>1, <3>2 DEF TypeInv, TypeOK, OpenFile, TransfersOf
    <3>5. Received(card[p] \o writeBuf, f, n)
      BY <2>1, <3>1, <3>2, <3>3 DEF CardHoldsPrefix, Received
    <3>6. FileBlock(f, n + 1) \in Uploads \X Nat
      BY DEF FileBlock
    <3>7. /\ Received(card[p] \o Append(writeBuf, FileBlock(f, n + 1)), f, n + 1)
          /\ Received((card[p] \o writeBuf) \o Append(<<>>, FileBlock(f, n + 1)), f, n + 1)
      BY <3>4, <3>5, <3>6, ReceivedMore
    <3>8. xfer'.what = f /\ xfer'.sent = n + 1
      BY <2>1, <2>3, <3>1, <3>3, SentKeepsTypes
    <3>9. Received(card'[p] \o writeBuf', f, n + 1)
      <4>1. CASE /\ FlushWriteBuf(p, Len(writeBuf))
                 /\ writeBuf' = Append(Flushed, FileBlock(f, n + 1))
        <5>1. SubSeq(writeBuf, 1, Len(writeBuf)) = writeBuf
          BY <3>4, SubSeqFull
        <5>2. card' = [card EXCEPT ![p] = card[p] \o writeBuf]
          BY <4>1, <5>1 DEF FlushWriteBuf
        <5>3. card'[p] = card[p] \o writeBuf
          BY <3>4, <5>2, Zenon
        <5> QED BY <3>7, <4>1, <5>3 DEF Flushed
      <4>2. CASE writeBuf' = Append(writeBuf, FileBlock(f, n + 1)) /\ UNCHANGED card
        BY <3>7, <4>2
      <4> QED BY <2>3, <3>1, <3>2, <3>3, <4>1, <4>2
    <3> QED BY <3>1, <3>2, <3>8, <3>9 DEF CardHoldsPrefix, Received
  <2> QED BY <1>2, <2>2, <2>3 DEF FileWriteSD
<1>3. CASE ~FileWriteSD /\ ~\E f \in Uploads : FileCreateSD(f)
  <2>1. mode' = "ModeSDWrite" => UNCHANGED <<xfer, card, writeBuf, mode>>
    <3>1. CASE (\E k \in Kernels : FileCreateKernel(k)) \/ (\E t \in Texts : FileCreateInject(t))
                 \/ (\E p \in Paths : FileOpen(p))
      BY <3>1 DEF FileCreateKernel, FileCreateInject, FileOpen
    <3>2. CASE FileWriteKernel \/ FileWriteInject \/ FileRead
      BY <3>2 DEF FileWriteKernel, FileWriteInject, FileRead, Refuse
    <3>3. CASE FileCloseKernel \/ FileCloseInject \/ FileCloseSDWrite \/ FileCloseSDRead
      BY <3>3 DEF FileCloseKernel, FileCloseInject, FileCloseSDWrite, FileCloseSDRead, FileClose
    <3>4. CASE UpdateStatusIgnored \/ UpdateStatusCompleted \/ UpdateStatusAborted
      <4>1. mode' = mode /\ xfer.st # "open"
        BY <3>4 DEF UpdateStatusIgnored, UpdateStatusCompleted, StatusWriteCompleted,
                    UpdateStatusAborted
      <4>2. mode # "ModeSDWrite"
        BY <4>1, ModeTells DEF TypeInv
      <4> QED BY <4>1, <4>2
    <3>5. CASE UNCHANGED vars
      BY <3>5 DEF vars
    <3> QED BY <1>3, <3>1, <3>2, <3>3, <3>4, <3>5 DEF Next, Request, Serve
  <2> QED BY <2>1 DEF CardHoldsPrefix
<1> QED BY <1>1, <1>2, <1>3

(* Card and write buffer together hold what was received of the file being *)
(* pushed, whatever the sizes of file and buffer and however batches fell. *)
THEOREM CardAlwaysHoldsPrefix == Spec => []CardHoldsPrefix
<1>1. Init => CardHoldsPrefix
  BY DEF Init, CardHoldsPrefix
<1> QED BY <1>1, NextKeepsCard, TypeInvariance, PTL DEF Spec

=============================================================================
