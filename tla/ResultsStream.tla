--------------------------- MODULE ResultsStream ---------------------------
(***************************************************************************)
(* The results stream: a file of JSON lines to which one run after another  *)
(* appends a record per execution.  Writes can fail half way, a run can die *)
(* in the middle of one, and the node can go and take what was not synced.  *)
(* A record is two pieces here, and a line its pieces and a newline.        *)
(***************************************************************************)
EXTENDS Naturals, Sequences

CONSTANTS
  MaxWrites, \* bound: attempts to write a record
  MaxRuns    \* bound: runs that open the file

VARIABLES
  file,     \* the pieces in the file
  synced,   \* how many of them have reached the disk
  open,     \* a run has the file open
  torn,     \* Stream.torn
  writes,   \* records that were tried
  runs,     \* runs that were started
  written,  \* records whose Write succeeded and that a crash has not taken
  durable   \* those of them that were synced

vars == <<file, synced, open, torn, writes, runs, written, durable>>

NL == <<0, 0>>
Record(k) == <<<<k, 1>>, <<k, 2>>>>

TypeOK ==
  /\ file \in Seq(((1 .. MaxWrites) \X {1, 2}) \union {NL})
  /\ synced \in 0 .. Len(file)
  /\ {open, torn} \subseteq BOOLEAN
  /\ writes \in 0 .. MaxWrites /\ runs \in 0 .. MaxRuns
  /\ durable \subseteq written /\ written \subseteq 1 .. writes

Init ==
  /\ file = <<>> /\ synced = 0 /\ open = FALSE /\ torn = FALSE
  /\ writes = 0 /\ runs = 0 /\ written = {} /\ durable = {}

EndsMidLine == file # <<>> /\ file[Len(file)] # NL

\* openStream: a line left unfinished is closed, or the run refused.
OpenStream ==
  /\ ~open /\ runs < MaxRuns
  /\ runs' = runs + 1
  /\ \/ /\ open' = TRUE /\ torn' = FALSE
        /\ file' = IF EndsMidLine THEN Append(file, NL) ELSE file
     \/ EndsMidLine /\ UNCHANGED <<open, torn, file>>
  /\ UNCHANGED <<synced, writes, written, durable>>

\* What ExecutionFinished writes for the k-th record, in one Write.
Line(k) == (IF torn THEN <<NL>> ELSE <<>>) \o Append(Record(k), NL)

\* Fault: a write that took nothing clears the mark.
TornAfterForgets(n) == n > 0

TornAfter(n) == n > 0 \/ torn

\* syncedFile.Write: a sync that fails is reported, and the write is good.
Sync(ok) ==
  IF ok THEN synced' = Len(file') /\ durable' = written'
  ELSE UNCHANGED <<synced, durable>>

Written(ok) ==
  /\ open /\ writes < MaxWrites
  /\ writes' = writes + 1
  /\ file' = file \o Line(writes + 1)
  /\ torn' = FALSE
  /\ written' = written \union {writes + 1}
  /\ Sync(ok)
  /\ UNCHANGED <<open, runs>>

\* The write fails after n pieces.
WriteFails(n) ==
  /\ open /\ writes < MaxWrites /\ n < Len(Line(writes + 1))
  /\ writes' = writes + 1
  /\ file' = file \o SubSeq(Line(writes + 1), 1, n)
  /\ torn' = TornAfter(n)
  /\ UNCHANGED <<open, synced, runs, written, durable>>

\* The run ends, or dies after n pieces of a write.
Close ==
  /\ open /\ open' = FALSE
  /\ UNCHANGED <<file, synced, torn, writes, runs, written, durable>>

Dies(n) ==
  /\ open /\ writes < MaxWrites /\ n <= Len(Line(writes + 1))
  /\ open' = FALSE /\ writes' = writes + 1
  /\ file' = file \o SubSeq(Line(writes + 1), 1, n)
  /\ UNCHANGED <<synced, torn, runs, written, durable>>

\* The node goes, and with it an end of the file that was not synced.
NodeGoes(kept) ==
  /\ kept \in synced .. Len(file)
  /\ open' = FALSE /\ file' = SubSeq(file, 1, kept)
  /\ synced' = kept /\ written' = durable
  /\ UNCHANGED <<torn, writes, runs, durable>>

Next ==
  \/ OpenStream \/ Close
  \/ \E ok \in BOOLEAN : Written(ok)
  \/ \E n \in 0 .. 4 : WriteFails(n) \/ Dies(n)
  \/ \E kept \in 0 .. Len(file) : NodeGoes(kept)

Spec == Init /\ [][Next]_vars

----------------------------------------------------------------------------
\* Line i .. j of the file: between newlines, or the file's ends.
IsLine(i, j) ==
  /\ i = 1 \/ file[i - 1] = NL
  /\ j = Len(file) \/ file[j + 1] = NL
  /\ \A k \in i .. j : file[k] # NL

\* A record that was written is a line of its own, with its newline, as long as
\* the file exists: not joined to what a failed write, a run that died or a
\* node that went left before it, and not to what comes after.
WrittenIsLine ==
  \A r \in written : \E i \in 1 .. Len(file) - 2 :
    IsLine(i, i + 1) /\ SubSeq(file, i, i + 1) = Record(r) /\ file[i + 2] = NL

\* Every line is a record or the start of one; none is made of two.
NoLineJoined ==
  \A i \in DOMAIN file : file[i] # NL /\ i > 1 /\ file[i - 1] # NL => file[i][1] = file[i - 1][1]

============================================================================
