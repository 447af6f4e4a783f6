----------------------------- MODULE PackageDownload -----------------------------
(***************************************************************************)
(* PackageDownloadService.stream (apps/api/app/packages.py): a package is  *)
(* passed on chunk by chunk while it is read from the drive, and checked   *)
(* against its record before, during and after.  The file on the drive may *)
(* change at any time.  A content is a sequence of chunks and stands for   *)
(* its hash, which has no collisions.                                      *)
(***************************************************************************)
EXTENDS ApiProcess, Sequences

CONSTANTS
  Chunks,      \* chunks of a file, all of one size
  MaxChunks,   \* longest file on the drive
  MaxLength    \* max_size_bytes, in chunks

ASSUME LengthAssumption == MaxLength \in Nat /\ MaxChunks \in Nat

VARIABLES
  package,   \* the package record that is streamed
  drive,     \* the content of its file on the drive
  stream     \* the stream: where it is and what it has handed out

packageVars == <<package, drive, stream>>

-----------------------------------------------------------------------------

Contents == UNION {[1 .. n -> Chunks] : n \in 0 .. MaxChunks}

Package == [approved : BOOLEAN, winget : BOOLEAN, signatureRequired : BOOLEAN,
            onDrive : BOOLEAN, expected : Contents, sized : BOOLEAN]

PackageInit ==
  /\ package \in Package
  /\ drive \in Contents
  /\ stream = [step |-> "new", sent |-> <<>>, verified |-> FALSE]

NeedsVerifier == package.signatureRequired /\ ~ package.winget

\* A slip: packages without a required signature are taken for approved.
ApprovedOrUnsigned == package.approved \/ ~ package.signatureRequired

Approved == package.approved

\* The record is checked before anything is read; the verifier says valid.
Open(valid) ==
  /\ stream.step = "new"
  /\ stream' =
       IF Approved /\ package.onDrive /\ (NeedsVerifier => valid)
       THEN [stream EXCEPT !.step = "open", !.verified = valid]
       ELSE [stream EXCEPT !.step = "refused"]
  /\ UNCHANGED <<package, drive, clock>>

TooLong(n) == n > MaxLength \/ (package.sized /\ n > Len(package.expected))

\* The next chunk counts, and is handed out unless it is too much.
PassChunk ==
  LET n == Len(stream.sent) + 1
  IN /\ stream.step = "open"
     /\ n <= Len(drive)
     /\ stream' = IF TooLong(n) THEN [stream EXCEPT !.step = "broken"]
                  ELSE [stream EXCEPT !.sent = Append(@, drive[n])]
     /\ UNCHANGED <<package, drive, clock>>

\* A slip: the size is all that is compared.
SizeMatches(content) == Len(content) = Len(package.expected)

\* The size, where the record has one, and the hash.
Matches(content) ==
  /\ package.sized => Len(content) = Len(package.expected)
  /\ content = package.expected

\* The drive has no more chunks.
EndOf(content) == IF Matches(content) THEN "complete" ELSE "broken"

EndStream ==
  /\ stream.step = "open"
  /\ Len(stream.sent) >= Len(drive)
  /\ stream' = [stream EXCEPT !.step = EndOf(stream.sent)]
  /\ UNCHANGED <<package, drive, clock>>

\* The drive fails.
BreakStream ==
  /\ stream.step = "open"
  /\ stream' = [stream EXCEPT !.step = "broken"]
  /\ UNCHANGED <<package, drive, clock>>

\* Somebody replaces the file on the drive.
ChangeDrive(content) ==
  /\ drive' = content
  /\ UNCHANGED <<package, stream, clock>>

PackageNext ==
  \/ \E valid \in BOOLEAN : Open(valid)
  \/ PassChunk
  \/ EndStream
  \/ BreakStream
  \/ \E content \in Contents : ChangeDrive(content)

PackageSpec == PackageInit /\ ClockInit /\ [][PackageNext]_packageVars

-----------------------------------------------------------------------------

PackageTypeOK ==
  /\ package \in Package
  /\ drive \in Contents
  /\ stream.step \in {"new", "refused", "open", "broken", "complete"}
  /\ stream.sent \in Seq(Chunks)

\* Chunks are handed out before their hash is known, so a receiver must wait for
\* the end: a stream that ended normally gave exactly the content of the record,
\* whatever the drive did meanwhile.  Before that it never gave more than the
\* limits allow, and nothing of a package that is not approved or whose
\* signature was not trusted.
CompleteStreamsAreExact ==
  /\ stream.step = "complete" => stream.sent = package.expected
  /\ ~ TooLong(Len(stream.sent))
  /\ stream.sent # <<>> => package.approved /\ (NeedsVerifier => stream.verified)
=============================================================================
