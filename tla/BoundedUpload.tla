--------------------------- MODULE BoundedUpload ----------------------------
(***************************************************************************)
(* jobupload.Service.Upload up to the commit of the input file: Peek,      *)
(* boundedReader and the copy loop of LocalStorage.Put. Contents and reads *)
(* are counted in bytes; what the readers below (bufio, a multipart file)  *)
(* return is their choice: any number of bytes up to what was asked for,   *)
(* the end of the content together with the last bytes or on its own, or   *)
(* an error, with or without bytes. The usual names are prefixed: the      *)
(* module is extended together with UploadErrors, which has them too.      *)
(***************************************************************************)
EXTENDS Integers

CONSTANTS
    MaxUploadBytes,     \* the largest content that is accepted
    BufferSize,         \* localCopyBufferSize
    MaxSize             \* bound on the contents looked at

ASSUME BoundedAssumption ==
    /\ MaxUploadBytes \in Nat
    /\ BufferSize \in Nat \ {0}
    /\ MaxSize \in Nat

VARIABLES
    size,               \* the length of the content
    left,               \* what the reader below has not handed out yet
    remaining,          \* boundedReader.remaining
    stored,             \* bytes in the temporary file
    step                \* peek, copy, commit, or how Upload ended

copyVars == <<size, left, remaining, stored, step>>

Ends == {"stored", "empty", "large", "error"}

CopyTypeOK ==
    /\ size \in Nat
    /\ left \in Nat
    /\ remaining \in Int
    /\ stored \in Nat
    /\ step \in {"peek", "copy", "commit"} \union Ends

CopyInit ==
    /\ size \in 0 .. MaxSize
    /\ left = size
    /\ remaining = MaxUploadBytes
    /\ stored = 0
    /\ step = "peek"

Goto(s) == step' = s /\ UNCHANGED <<size, left, remaining, stored>>

\* Peek(1) tells an empty content (ErrInvalidInput) from one that has bytes.
Peek ==
    /\ step = "peek"
    /\ Goto(IF size = 0 THEN "empty" ELSE "copy")

\* A step fails that has nothing to do with the length: the content cannot be
\* read, the context is done, the file cannot be written, synced or renamed.
Fails ==
    /\ step \in {"peek", "copy", "commit"}
    /\ Goto("error")

\* Variant: the buffer is cut to what remains, without the byte that tells.
RoomWithoutProbe == IF BufferSize > remaining THEN remaining ELSE BufferSize

\* boundedReader.Read asks for at most one byte more than remains.
Room == IF BufferSize > remaining + 1 THEN remaining + 1 ELSE BufferSize

\* Variant: what remains may not reach zero.
OutcomeAtZero(n, err) == IF remaining - n <= 0 THEN "large" ELSE err

\* Variant: an error of the reader below, such as io.EOF, comes first.
OutcomeErrorFirst(n, err) ==
    IF err = "nil" /\ remaining - n < 0 THEN "large" ELSE err

\* What boundedReader returns with n bytes: ErrUploadTooLarge, or what it got.
Outcome(n, err) == IF remaining - n < 0 THEN "large" ELSE err

\* One round of copyWithContext: the bytes are written before the error that
\* came with them is looked at.
Read(n, err) ==
    /\ step = "copy"
    /\ n <= left
    /\ err = "eof" => n = left
    /\ err = "nil" => n > 0 \/ Room = 0
    /\ left' = left - n
    /\ remaining' = remaining - n
    /\ stored' = stored + n
    /\ step' = CASE Outcome(n, err) = "nil" -> "copy"
                 [] Outcome(n, err) = "eof" -> "commit"
                 [] OTHER -> Outcome(n, err)
    /\ UNCHANGED size

\* Sync, Close and Rename succeed.
Commit ==
    /\ step = "commit"
    /\ Goto("stored")

CopyNext ==
    \/ Peek \/ Fails \/ Commit
    \/ \E n \in 0 .. Room, err \in {"nil", "eof", "error"} : Read(n, err)

CopySpec == CopyInit /\ [][CopyNext]_copyVars

\* Every call returns in the end, and need not fail.
FairCopySpec ==
    /\ CopySpec
    /\ WF_copyVars(Peek) /\ WF_copyVars(Commit)
    /\ WF_copyVars(\E n \in 0 .. Room : Read(n, "nil") \/ Read(n, "eof"))

-----------------------------------------------------------------------------
\* An input file that is put in place is the whole content, not empty and
\* within the limit, wherever the reads fell and however the end showed.
StoredIsWholeAndBounded ==
    step = "stored" => stored = size /\ size \in 1 .. MaxUploadBytes

\* 413 is only for contents over the limit: one of exactly the limit, which ends
\* with the byte that uses it up, is not refused.
LargeIsTooLarge == step = "large" => size > MaxUploadBytes

\* However long the content is, no more than the limit and one byte of it is
\* read or written.
ReadsAreBounded == size - left <= MaxUploadBytes + 1

\* Upload comes to an end: a reader asked for no bytes at all would never tell.
UploadEnds == step \in {"peek", "copy", "commit"} ~> step \in Ends

\* The three counters agree, and one byte over the limit ends the copy.
BoundInv ==
    /\ CopyTypeOK
    /\ left + stored = size
    /\ remaining = MaxUploadBytes - stored
    /\ remaining >= -1
    /\ remaining = -1 => step \in {"large", "error"}
    /\ step \in {"copy", "commit"} => size > 0
    /\ step = "commit" => left = 0
    /\ StoredIsWholeAndBounded
    /\ LargeIsTooLarge
=============================================================================
