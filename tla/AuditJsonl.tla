----------------------------- MODULE AuditJsonl -----------------------------
(***************************************************************************)
(* The audit log as JSON Lines files (infrastructure/src/audit_jsonl.rs).  *)
(*                                                                         *)
(* File 0 is the active one, file n the nth oldest.  A line is the record  *)
(* it holds, or what a cut-off write left of one.  Appends and reads hold  *)
(* the state lock for their whole duration, so only a crash or a failing   *)
(* call is seen between the steps of an append.  Sizes are in lines, times *)
(* in ticks of the clock.                                                  *)
(***************************************************************************)
EXTENDS Integers, Sequences, FiniteSets, SequencesExt

CONSTANTS
    max_file_lines,  \* lines after which the active file is rotated
    max_files,       \* files kept, the active one included
    MARGIN,          \* CLOCK_MARGIN_MILLIS
    MaxRecords, MaxFaults, MaxClock

ASSUME AuditAssumption ==
    /\ max_file_lines \in Nat \ {0} /\ max_files \in Nat \ {0} /\ MARGIN \in Nat
    /\ MaxRecords \in Nat /\ MaxFaults \in Nat /\ MaxClock \in Nat

VARIABLES
    files,      \* index -> [lines, mtime]
    next_seq,   \* the next sequence number, {} until worked out
    writer,     \* the open active file's length in lines, {} when closed
    pc,         \* "idle", "rotating" or "writing"
    todo,       \* the indices a rotation has still to move
    record,     \* the record being appended
    clock, setback,
    appended,   \* records handed to append so far
    faults,     \* failing calls and crashes so far
    acked,      \* history: records whose append returned Ok, with durability
    removed     \* history: records a rotation deleted

avars == <<files, next_seq, writer, pc, todo, record, clock, setback,
           appended, faults, acked, removed>>

(***************************************************************************)
(* Lines.  kind is "record", "foreign" (a schema or event this code does   *)
(* not know) or "torn" (cut short, not JSON); ended tells whether the      *)
(* newline was written, safe whether it is synced.                         *)
(***************************************************************************)
Line(kind, seq, id, at, ended) ==
    [kind |-> kind, seq |-> seq, id |-> id, at |-> at, ended |-> ended, safe |-> FALSE]

Decodes(line) == line.kind # "torn"
Usable(line) == line.kind = "record"

(* What reading makes of a file: a line without its newline runs on into   *)
(* the next one, and neither can be read.                                  *)
read_lines(lines) ==
    LET Joined(i) == i > 1 /\ ~lines[i - 1].ended
        Runs(i) == ~lines[i].ended /\ i < Len(lines)
    IN  [i \in DOMAIN lines |->
           IF Joined(i) \/ Runs(i) THEN [lines[i] EXCEPT !.kind = "torn"] ELSE lines[i]]

list_files == DOMAIN files
ReadBack(i) == read_lines(files[i].lines)
Decoded(i) == {l \in ToSet(ReadBack(i)) : Decodes(l)}

SetMax(S) == CHOOSE x \in S : \A y \in S : x >= y
SetMin(S) == CHOOSE x \in S : \A y \in S : x <= y

\* Mutated form: the oldest file is read.
highest_seq_Oldest ==
    LET numbered == {i \in list_files : Decoded(i) # {}}
    IN  IF numbered = {} THEN 0 ELSE SetMax({l.seq : l \in Decoded(SetMax(numbered))})

(* The highest number in the newest file that has one. *)
highest_seq ==
    LET numbered == {i \in list_files : Decoded(i) # {}}
    IN  IF numbered = {} THEN 0 ELSE SetMax({l.seq : l \in Decoded(SetMin(numbered))})

(***************************************************************************)
(* Reading.                                                                *)
(***************************************************************************)
\* Mutated form: no second is allowed for the file system's clock.
last_written_before_Strict(i, from) == files[i].mtime < from
last_written_before(i, from) == files[i].mtime + MARGIN < from

since_locked(from) ==
    UNION {{l.id : l \in {m \in ToSet(ReadBack(i)) : Usable(m) /\ m.at >= from}} :
             i \in {j \in list_files : ~last_written_before(j, from)}}

(* Every usable line, oldest first. *)
AllLines ==
    FlattenSeq([k \in 1 .. max_files |->
        IF max_files - k \in list_files THEN SelectSeq(ReadBack(max_files - k), Usable) ELSE <<>>])

(* One page, newest first: at most limit entries numbered below the cursor *)
(* ({} for the first page), and the next cursor when older ones remain.    *)
query_locked(limit, cursor) ==
    LET before(l) == \A c \in cursor : l.seq < c
        found == Reverse(SelectSeq(AllLines, before))
        page == SubSeq(found, 1, IF Len(found) > limit THEN limit ELSE Len(found))
    IN  [entries |-> page,
         next |-> IF Len(found) > limit THEN {page[limit].seq} ELSE {}]

(***************************************************************************)
(* Appending.                                                              *)
(***************************************************************************)
NoRecord == [id |-> 0, at |-> 0, sync |-> FALSE]
Idle == pc' = "idle" /\ todo' = {} /\ record' = NoRecord

Fault == faults < MaxFaults /\ faults' = faults + 1

(* The active file after open_writer: created, and a cut line ended. *)
EndLine(lines) ==
    IF lines # <<>> /\ ~Last(lines).ended
    THEN [lines EXCEPT ![Len(lines)].ended = TRUE] ELSE lines

Active(fs) == IF 0 \in DOMAIN fs THEN fs[0].lines ELSE <<>>

Put(fs, i, lines) ==
    [j \in DOMAIN fs \cup {i} |-> IF j = i THEN [lines |-> lines, mtime |-> clock] ELSE fs[j]]

open_writer(fs) ==
    LET lines == EndLine(Active(fs))
    IN  [files |-> IF 0 \in DOMAIN fs /\ lines = Active(fs) THEN fs ELSE Put(fs, 0, lines),
         len |-> Len(lines)]

Needs_rotation(len) == len > 0 /\ len + 1 > max_file_lines

AppendBegin(sync) ==
    /\ pc = "idle" /\ appended < MaxRecords
    /\ appended' = appended + 1
    /\ record' = [id |-> appended + 1, at |-> clock, sync |-> sync]
    /\ next_seq' = IF next_seq = {} THEN {highest_seq + 1} ELSE next_seq
    /\ LET opened == IF writer = {} THEN open_writer(files)
                     ELSE [files |-> files, len |-> SetMax(writer)]
       IN  /\ files' = opened.files
           /\ IF Needs_rotation(opened.len)
              THEN /\ pc' = "rotating" /\ writer' = {}
                   /\ todo' = DOMAIN opened.files
              ELSE /\ pc' = "writing" /\ writer' = {opened.len}
                   /\ UNCHANGED todo
    /\ UNCHANGED <<clock, setback, faults, acked, removed>>

(* The directory or the active file cannot be read or opened. *)
AppendCannotOpen ==
    /\ pc = "idle" /\ appended < MaxRecords /\ Fault
    /\ appended' = appended + 1
    /\ next_seq' \in {next_seq, IF next_seq = {} THEN {highest_seq + 1} ELSE next_seq}
    /\ UNCHANGED <<files, writer, pc, todo, record, clock, setback, acked, removed>>

keep == max_files - 1

Ids(lines) == {l.id : l \in ToSet(lines)}

(* Move a file one place older, or delete it past the count. *)
Moved(i) ==
    IF i + 1 > keep
    THEN [j \in DOMAIN files \ {i} |-> files[j]]
    ELSE [j \in (DOMAIN files \ {i}) \cup {i + 1} |-> IF j = i + 1 THEN files[i] ELSE files[j]]

(* Move or delete one file of a rotation. *)
Shift(i) ==
    /\ pc = "rotating"
    /\ files' = Moved(i)
    /\ removed' = IF i + 1 > keep THEN removed \cup Ids(files[i].lines) ELSE removed
    /\ todo' = todo \ {i}
    /\ UNCHANGED <<next_seq, writer, pc, record, clock, setback, appended, faults, acked>>

\* Mutated form: the newest file is moved first.
rotate_Newest == todo # {} /\ Shift(SetMin(todo))

(* The oldest file that is left is moved first. *)
rotate == todo # {} /\ Shift(SetMax(todo))

RotateFails ==
    /\ pc = "rotating" /\ Fault
    /\ Idle
    /\ UNCHANGED <<files, next_seq, writer, clock, setback, appended, acked, removed>>

Rotated ==
    /\ pc = "rotating" /\ todo = {}
    /\ files' = open_writer(files).files
    /\ writer' = {open_writer(files).len}
    /\ pc' = "writing"
    /\ UNCHANGED <<next_seq, todo, record, clock, setback, appended, faults, acked, removed>>

Safe(lines) == [i \in DOMAIN lines |-> [lines[i] EXCEPT !.safe = TRUE]]

NextSeq == SetMax(next_seq)

Whole == Line("record", NextSeq, record.id, record.at, TRUE)

Write ==
    /\ pc = "writing"
    /\ LET lines == Append(files[0].lines, Whole)
       IN  files' = Put(files, 0, IF record.sync THEN Safe(lines) ELSE lines)
    /\ writer' = {SetMax(writer) + 1}
    /\ next_seq' = {NextSeq + 1}
    /\ acked' = acked \cup {record}
    /\ Idle
    /\ UNCHANGED <<clock, setback, appended, faults, removed>>

(* What a write that failed, or was cut off, has left in the file: nothing,*)
(* part of the line, all of it but the newline, or all of it.              *)
Remains ==
    {<<>>, <<Line("torn", NextSeq, record.id, record.at, FALSE)>>,
     <<[Whole EXCEPT !.ended = FALSE]>>, <<Whole>>}

WriteFails ==
    /\ pc = "writing" /\ Fault
    /\ \E rest \in Remains : files' = Put(files, 0, files[0].lines \o rest)
    /\ writer' = {}
    /\ Idle
    /\ UNCHANGED <<next_seq, clock, setback, appended, acked, removed>>

(***************************************************************************)
(* The program is killed, or the machine loses what was not synced.        *)
(***************************************************************************)
Forgotten ==
    /\ next_seq' = {} /\ writer' = {} /\ Idle
    /\ UNCHANGED <<clock, setback, appended, acked, removed>>

Killed ==
    /\ Fault /\ Forgotten
    /\ IF pc = "writing"
       THEN \E rest \in Remains : files' = Put(files, 0, files[0].lines \o rest)
       ELSE UNCHANGED files

Survives(lines) ==
    LET safe == {0} \cup {i \in DOMAIN lines : lines[i].safe}
    IN  {SubSeq(lines, 1, n) : n \in SetMax(safe) .. Len(lines)}

MachineCrash ==
    /\ Fault /\ Forgotten
    /\ \E lost \in [list_files -> 0 .. max_file_lines] :
         /\ \A i \in list_files : \E kept \in Survives(files[i].lines) :
               Len(kept) + lost[i] = Len(files[i].lines)
         /\ files' = [i \in list_files |->
               [files[i] EXCEPT !.lines = SubSeq(@, 1, Len(@) - lost[i])]]

Tick ==
    /\ clock < MaxClock /\ clock' = clock + 1
    /\ UNCHANGED <<files, next_seq, writer, pc, todo, record, setback, appended, faults,
                   acked, removed>>

(* A clock that disagrees with itself a little. *)
SetBack ==
    /\ setback = 0 /\ clock >= MARGIN /\ MARGIN > 0
    /\ clock' = clock - MARGIN /\ setback' = 1
    /\ UNCHANGED <<files, next_seq, writer, pc, todo, record, appended, faults, acked, removed>>

(* The files found at the start: none, or one another version wrote. *)
AuditInit ==
    /\ files \in {<<>>, [i \in {0} |-> [lines |-> <<Line("foreign", 1, 0, 0, TRUE)>>, mtime |-> 0]]}
    /\ next_seq = {} /\ writer = {} /\ pc = "idle" /\ todo = {}
    /\ record = NoRecord
    /\ clock = 0 /\ setback = 0 /\ appended = 0 /\ faults = 0
    /\ acked = {} /\ removed = {}

AuditNext ==
    \/ \E sync \in BOOLEAN : AppendBegin(sync)
    \/ AppendCannotOpen \/ rotate \/ RotateFails \/ Rotated \/ Write \/ WriteFails
    \/ Killed \/ MachineCrash \/ Tick \/ SetBack

AuditSpec == AuditInit /\ [][AuditNext]_avars

(***************************************************************************)
(* Properties.                                                             *)
(***************************************************************************)
(* A record whose synced append was answered Ok can be read until a        *)
(* rotation deletes it, and is older then than all that is kept: no torn   *)
(* line, failed or half-done rotation or crash takes it.                   *)
SyncedKept ==
    LET readable == UNION {{l.id : l \in {m \in ToSet(ReadBack(i)) : Usable(m)}} : i \in list_files}
    IN  \A r \in acked : r.sync =>
          \/ r.id \in readable
          \/ r.id \in removed /\ \A id \in readable : r.id < id

(* Among the records answered Ok that the files still hold, the sequence   *)
(* number rises from each to every later one, restarts and rotations       *)
(* included.  <<i, n>> is the nth line of file i.                          *)
Older(p, q) == p[1] > q[1] \/ (p[1] = q[1] /\ p[2] < q[2])
AckedPlaces ==
    UNION {{<<i, n>> : n \in {k \in DOMAIN files[i].lines :
                /\ Usable(ReadBack(i)[k])
                /\ \E r \in acked : r.id = files[i].lines[k].id}} : i \in list_files}
AckedSeqRises ==
    \A p, q \in AckedPlaces :
        Older(p, q) => files[p[1]].lines[p[2]].seq < files[q[1]].lines[q[2]].seq

(* since leaves out no record of its range: a file it does not open for    *)
(* its age holds none, even when the clock was set back by the margin.     *)
SinceComplete ==
    LET readable == UNION {{l \in ToSet(ReadBack(i)) : Usable(l)} : i \in list_files}
    IN  \A from \in 0 .. MaxClock + MARGIN + 1 :
          since_locked(from) = {l.id : l \in {r \in readable : r.at >= from}}

(* The number rises from each readable line to the next, those of failed   *)
(* appends included (AuditEntry: "seq rises with every append").  It does  *)
(* not hold: a line that was written whole and whose sync failed keeps the *)
(* number the next record is given.                                        *)
SeqRises ==
    LET all == AllLines
    IN  \A i \in DOMAIN all : i > 1 => all[i - 1].seq < all[i].seq
=============================================================================
