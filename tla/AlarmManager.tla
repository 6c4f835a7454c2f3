----------------------------- MODULE AlarmManager -----------------------------
(***************************************************************************)
(* SvcKit/subsystems/alarm: AlarmManager (alarm_manager.cpp).  Events are  *)
(* published by any thread, posted to the EventLoop, filtered and acted on *)
(* there, recorded, and appended to a journal that the next process loads. *)
(*                                                                         *)
(* Critical sections of State::mutex are single steps.  A record is known  *)
(* by its event's id, which publish() makes up; callers that choose ids    *)
(* are taken to choose new ones.  Whether the rules accept an event and    *)
(* what the actions return is data: any outcome.  A line of the journal is *)
(* a record, <<"E", id>>, an acknowledgement, <<"A", id>>, or Torn: the    *)
(* beginning of a line that a full disk or a crash cut off, to which the   *)
(* next line is glued, so that reading fails there.                        *)
(***************************************************************************)
EXTENDS Integers, Sequences, SequencesExt

CONSTANTS
  Publishers,   \* threads that publish events
  MaxEvents,    \* bound on the events ever published
  MaxRecords,   \* AlarmConfig::maximumRecords
  Faults,       \* what may go wrong, of {"append", "torn", "crash"}
  MaxFaults,    \* bound on the appends that fail
  MaxLines      \* bound on the journal: behind a torn line it loses every
                \* acknowledgement, which can be made again and again

Ids == 1 .. MaxEvents

Torn == <<"T", 0>>
Lines == ({"E", "A"} \X Ids) \cup {Torn}
NoEvent == 0

VARIABLES
  nextId,       \* State::nextId, over all processes
  publishing,   \* of each publisher: the event it has named and not posted yet
  posted,       \* events in the EventLoop's queue
  acting,       \* the event whose actions run in the loop's thread
  records,      \* State::records: ids and whether acknowledged
  journal,      \* the lines of the file
  missing,      \* history: lines that were not written...
  faults        \* ...and how many appends have failed

fileVars == <<journal, missing, faults>>
vars == <<nextId, publishing, posted, acting, records, journal, missing, faults>>

\* The last n elements of s.
LastOf(s, n) == SubSeq(s, IF Len(s) > n THEN Len(s) - n + 1 ELSE 1, Len(s))

\* What a line adds to the records: one more, or that one is acknowledged.
ReadLine(read, line) ==
  IF line[1] = "E" THEN Append(read, [id |-> line[2], acked |-> FALSE])
  ELSE [i \in DOMAIN read |-> [read[i] EXCEPT !.acked = @ \/ read[i].id = line[2]]]

\* The records that loadJournal() reads; behind a torn line it reads nothing.
RecordsIn(lines) ==
  LET read[n \in 0 .. Len(lines)] ==
        IF n = 0 THEN <<>>
        ELSE IF \E m \in 1 .. n : lines[m] = Torn THEN read[n - 1]
        ELSE ReadLine(read[n - 1], lines[n])
  IN read[Len(lines)]

\* Mutant of Loaded: the first records are kept.
LoadedFirst(lines) ==
  LET all == RecordsIn(lines) IN
  SubSeq(all, 1, IF Len(all) > MaxRecords THEN MaxRecords ELSE Len(all))

\* loadJournal(): the last of the records that can be read.
Loaded(lines) == LastOf(RecordsIn(lines), MaxRecords)

Init ==
  /\ nextId = 1 /\ publishing = [p \in Publishers |-> NoEvent]
  /\ posted = <<>> /\ acting = NoEvent /\ records = <<>>
  /\ journal = <<>> /\ missing = {} /\ faults = 0

-----------------------------------------------------------------------------
\* An append to the journal: it succeeds, fails, or is cut off.
Write(line) ==
  \/ /\ journal' = Append(journal, line) /\ missing' = missing \ {line}
     /\ UNCHANGED faults
  \/ /\ faults < MaxFaults /\ faults' = faults + 1
     /\ missing' = missing \cup {line}
     /\ \/ "append" \in Faults /\ UNCHANGED journal
        \/ "torn" \in Faults /\ journal' = Append(journal, Torn)

(* publish() names the event under the lock and posts it outside. *)
Publish(p) ==
  /\ publishing[p] = NoEvent /\ nextId <= MaxEvents
  /\ publishing' = [publishing EXCEPT ![p] = nextId] /\ nextId' = nextId + 1
  /\ UNCHANGED <<posted, acting, records, fileVars>>

Post(p) ==
  /\ publishing[p] # NoEvent
  /\ posted' = Append(posted, publishing[p])
  /\ publishing' = [publishing EXCEPT ![p] = NoEvent]
  /\ UNCHANGED <<nextId, acting, records, fileVars>>

(* processEvent(), up to the rules: the event is suppressed or acted on. *)
ProcessEvent ==
  /\ acting = NoEvent /\ posted # <<>>
  /\ posted' = Tail(posted)
  /\ acting' \in {NoEvent, Head(posted)}
  /\ UNCHANGED <<nextId, publishing, records, fileVars>>

\* An action throws: the loop catches it, and there is no record.
ActionThrows ==
  /\ acting # NoEvent /\ acting' = NoEvent
  /\ UNCHANGED <<nextId, publishing, posted, records, fileVars>>

\* Mutant of RecordEvent: the limit is forgotten.
RecordEventUntrimmed ==
  /\ acting # NoEvent /\ acting' = NoEvent
  /\ records' = Append(records, [id |-> acting, acked |-> FALSE])
  /\ Write(<<"E", acting>>)
  /\ UNCHANGED <<nextId, publishing, posted>>

(* The actions are done: the record is kept, the oldest given up for it if *)
(* need be, and appended to the journal, whatever becomes of that.         *)
RecordEvent ==
  /\ acting # NoEvent /\ acting' = NoEvent
  /\ records' = LastOf(Append(records, [id |-> acting, acked |-> FALSE]), MaxRecords)
  /\ Write(<<"E", acting>>)
  /\ UNCHANGED <<nextId, publishing, posted>>

\* acknowledge(); of an acknowledged record it does nothing.
Acknowledge(i) ==
  /\ i \in DOMAIN records /\ ~records[i].acked /\ Len(journal) < MaxLines
  /\ records' = [records EXCEPT ![i].acked = TRUE]
  /\ Write(<<"A", records[i].id>>)
  /\ UNCHANGED <<nextId, publishing, posted, acting>>

(* The process dies and the next one loads the journal; events that are    *)
(* under way are lost.                                                     *)
Crash ==
  /\ "crash" \in Faults
  /\ records' = Loaded(journal)
  /\ publishing' = [p \in Publishers |-> NoEvent] /\ posted' = <<>> /\ acting' = NoEvent
  /\ UNCHANGED <<nextId, fileVars>>

Next ==
  \/ \E p \in Publishers : Publish(p) \/ Post(p)
  \/ ProcessEvent \/ ActionThrows \/ RecordEvent
  \/ \E i \in 1 .. MaxRecords : Acknowledge(i)
  \/ Crash

Spec == Init /\ [][Next]_vars

-----------------------------------------------------------------------------
(* Correctness. *)

TypeOK ==
  /\ nextId \in 1 .. MaxEvents + 1 /\ publishing \in [Publishers -> Ids \cup {NoEvent}]
  /\ posted \in Seq(Ids) /\ acting \in Ids \cup {NoEvent}
  /\ records \in Seq([id : Ids, acked : BOOLEAN]) /\ Len(records) <= MaxRecords
  /\ journal \in Seq(Lines) /\ missing \subseteq Lines
  /\ faults \in 0 .. MaxFaults

\* The state of r is what the next process would load, but for lines missing.
Recovered(r) ==
  <<"E", r.id>> \notin missing =>
    \E k \in DOMAIN Loaded(journal) :
      LET q == Loaded(journal)[k] IN
        q.id = r.id /\ (q.acked = r.acked \/ <<"A", r.id>> \in missing)

(* Whatever is dropped from the list, acknowledged or not written, the     *)
(* journal stays in step with the records in memory: each one whose lines  *)
(* were written would be found by the next process in the same state, as   *)
(* long as no line was cut off.                                            *)
Recoverable ==
  Torn \notin ToSet(journal) => \A i \in DOMAIN records : Recovered(records[i])

-----------------------------------------------------------------------------
(* What the subsystem's readme says and the code does not do. *)

\* Records are made persistent by the append-only journal - also those that
\* are appended after a line was cut off.
JournalPersists == \A i \in DOMAIN records : Recovered(records[i])
=============================================================================
