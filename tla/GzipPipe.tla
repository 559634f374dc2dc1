------------------------------ MODULE GzipPipe ------------------------------
(***************************************************************************)
(* gzipResponse: a goroutine compresses the body of an answer into a pipe, *)
(* whose other end is the new body.  Its reader is the reverse proxy       *)
(* (external), which copies to the client until the end or an error, and   *)
(* closes the body when the client is gone.                                *)
(*                                                                         *)
(* The body has parts chunks.  The compressor keeps chunks and writes them *)
(* when it likes; a write to the pipe waits for the reader.                *)
(***************************************************************************)
EXTENDS Naturals

CONSTANT MaxParts       \* bound: chunks of a body

ASSUME GzipAssumption == MaxParts \in Nat

VARIABLES
    parts,      \* chunks of the body of this answer
    taken,      \* chunks read from the origin
    body,       \* the origin's body: more, failed, closed
    kept,       \* chunks in the compressor
    offered,    \* chunks in the pipe: a write in progress, 0 when there is none
    work,       \* the goroutine: off, copying, closing, last, done
    copyErr,    \* io.Copy returned an error
    pipe,       \* for the reader: open, eof, error
    reader,     \* reading, ended (saw eof), broken (saw the error), left
    read        \* chunks the reader got

gz == <<parts, taken, body, kept, offered, work, copyErr, pipe, reader, read>>

GzInit == /\ parts = 0 /\ taken = 0 /\ kept = 0 /\ offered = 0 /\ read = 0
          /\ body = "more" /\ work = "off" /\ pipe = "open" /\ reader = "reading"
          /\ copyErr = FALSE

Compress(n) ==
    /\ work = "off" /\ work' = "copying"
    /\ parts' = n
    /\ UNCHANGED <<taken, body, kept, offered, copyErr, pipe, reader, read>>

Chunk == /\ work = "copying" /\ offered = 0 /\ body = "more" /\ taken < parts
         /\ taken' = taken + 1 /\ kept' = kept + 1
         /\ UNCHANGED <<parts, body, offered, work, copyErr, pipe, reader, read>>

Offer == /\ work = "copying" /\ offered = 0 /\ kept > 0
         /\ offered' = kept /\ kept' = 0
         /\ UNCHANGED <<parts, taken, body, work, copyErr, pipe, reader, read>>

(* The origin breaks off, or the request was cancelled. *)
BodyFails == /\ body = "more" /\ work = "copying" /\ taken < parts
             /\ body' = "failed"
             /\ UNCHANGED <<parts, taken, kept, offered, work, copyErr, pipe, reader, read>>

(* io.Copy returns: the end of the body, its error, or that of the pipe.    *)
CopyReturns ==
    /\ work = "copying"
    /\ \/ offered = 0 /\ taken = parts /\ copyErr' = FALSE
       \/ offered = 0 /\ body = "failed" /\ copyErr' = TRUE
       \/ offered > 0 /\ reader = "left" /\ copyErr' = TRUE
    /\ work' = "closing"
    /\ UNCHANGED <<parts, taken, body, kept, offered, pipe, reader, read>>

(* gz.Close writes what is kept and the trailer, unless the compressor has  *)
(* met an error of the pipe before.                                         *)
CloseGzip ==
    /\ work = "closing" /\ work' = "last"
    /\ IF offered > 0 THEN UNCHANGED <<kept, offered>>
                      ELSE offered' = kept + 1 /\ kept' = 0
    /\ UNCHANGED <<parts, taken, body, copyErr, pipe, reader, read>>

(* Mutant: only the error of gz.Close ends the pipe. *)
PipeEndOfClose(failed) == IF failed THEN "error" ELSE "eof"

PipeEnd(failed) == IF copyErr \/ failed THEN "error" ELSE "eof"

(* Mutant: the origin's body stays open. *)
BodyKept == UNCHANGED body

CloseBody == body' = "closed"

(* The last write has been read, or nobody reads: body.Close, then          *)
(* CloseWithError, in which no error stands for the end of the stream.      *)
EndPipe ==
    /\ work = "last" /\ (offered = 0 \/ reader = "left")
    /\ CloseBody
    /\ pipe' = PipeEnd(offered > 0)
    /\ work' = "done"
    /\ UNCHANGED <<parts, taken, kept, offered, copyErr, reader, read>>

Goroutine == Chunk \/ Offer \/ CopyReturns \/ CloseGzip \/ EndPipe

(* The reader: gzip's trailer, written last, is no chunk of the body. *)
ReadPipe == /\ reader = "reading" /\ offered > 0
            /\ read' = read + (IF work = "last" THEN offered - 1 ELSE offered)
            /\ offered' = 0
            /\ UNCHANGED <<parts, taken, body, kept, work, copyErr, pipe, reader>>

ReadEnd == /\ reader = "reading" /\ offered = 0 /\ pipe # "open"
           /\ reader' = (IF pipe = "eof" THEN "ended" ELSE "broken")
           /\ UNCHANGED <<parts, taken, body, kept, offered, work, copyErr, pipe, read>>

(* The client is gone: the reverse proxy closes the body it was reading,    *)
(* and the server cancels the request, which ends the origin's answer.      *)
Leave == /\ work # "off" /\ reader = "reading" /\ reader' = "left"
         /\ UNCHANGED <<parts, taken, body, kept, offered, work, copyErr, pipe, read>>

Cancel == reader = "left" /\ BodyFails

GzReader == ReadPipe \/ ReadEnd \/ Cancel

GzNext == \/ \E n \in 0 .. MaxParts : Compress(n)
          \/ Goroutine \/ BodyFails \/ GzReader \/ Leave

-----------------------------------------------------------------------------
(* Properties. *)

(* Type correctness; no chunk is in two places. *)
GzTypeOK ==
    /\ parts \in 0 .. MaxParts /\ taken \in 0 .. parts
    /\ kept \in Nat /\ offered \in Nat /\ read \in Nat
    /\ kept + read <= taken
    /\ body \in {"more", "failed", "closed"}
    /\ work \in {"off", "copying", "closing", "last", "done"}
    /\ copyErr \in BOOLEAN
    /\ pipe \in {"open", "eof", "error"}
    /\ reader \in {"reading", "ended", "broken", "left"}

(* An answer that ends without an error is the whole body: a body that      *)
(* breaks off ends in an error even though gz.Close has written a valid     *)
(* trailer after what there was of it, so the reverse proxy aborts.         *)
EndIsWhole == reader = "ended" => read = parts

(* Liveness: when the reader has left or the origin has ended, the          *)
(* goroutine ends, and the origin's body is closed.                         *)
GoroutineEnds ==
    (work # "off" /\ (reader = "left" \/ body = "failed" \/ taken = parts))
       ~> (work = "done" /\ body = "closed")
=============================================================================
