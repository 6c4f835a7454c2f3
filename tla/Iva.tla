--------------------------------- MODULE Iva ---------------------------------
(***************************************************************************)
(* SvcKit/subsystems/iva: the analysis manager (iva_manager.cpp), its      *)
(* tracker (byte_track_tracker.cpp), the region rules (intrusion_rule.cpp) *)
(* and the line rule (line_cross_rule.cpp).  The manager's lock makes each *)
(* call atomic.  Targets are on a strip of positions: two boxes overlap    *)
(* the more the nearer they are, the region begins at Border, the line is  *)
(* at Line / 2.  Frames are one time unit apart.                           *)
(***************************************************************************)
EXTENDS Integers, Sequences, FiniteSets

CONSTANTS
  Width,       \* positions 0 .. Width - 1
  Border, Line,
  Reach,       \* the farthest that two boxes still overlap enough, minimumIou
  maximumMissedFrames, dwellTime,
  MaxTargets,  \* bound on the detections of a frame
  MaxFrames    \* bound on the frames

VARIABLES
  tracks,      \* the tracker's states_, of each id: they are in the order of the
               \* ids, as a new one is appended and none moves
  nextId,
  states,      \* what the region rules remember of a target
  now,
  frames       \* what each frame has been since the rules are there
vars == <<tracks, nextId, states, now, frames>>

Positions == 0 .. Width - 1
Inside(p) == p >= Border
Side(p) == CASE 2 * p < Line -> -1 [] 2 * p = Line -> 0 [] OTHER -> 1

Init == tracks = <<>> /\ nextId = 1 /\ states = <<>> /\ now = 0 /\ frames = <<>>

-----------------------------------------------------------------------------
(* The tracker. *)

Distance(p, q) == IF p < q THEN q - p ELSE p - q

\* Mutant of Candidates: a detection may serve two tracks.
CandidatesAll(track, detections, used) ==
  {i \in DOMAIN detections : Distance(track.center, detections[i]) <= Reach}

Candidates(track, detections, used) ==
  {i \in DOMAIN detections \ used : Distance(track.center, detections[i]) <= Reach}

\* The nearest detection that is not used, the last of several.
Best(track, detections, used) ==
  LET c == Candidates(track, detections, used) IN
  CHOOSE i \in c : \A j \in c :
    LET di == Distance(track.center, detections[i])
        dj == Distance(track.center, detections[j]) IN di < dj \/ (di = dj /\ i >= j)

\* The detection that track id takes, of those that the ones before it left.
Taken(id, detections, used) ==
  IF id \in DOMAIN tracks /\ Candidates(tracks[id], detections, used) # {}
  THEN {Best(tracks[id], detections, used)} ELSE {}

\* The detections that are used when the tracks up to id have been looked at.
Used(detections) ==
  LET used[id \in 0 .. nextId - 1] ==
        IF id = 0 THEN {} ELSE used[id - 1] \cup Taken(id, detections, used[id - 1])
  IN used

\* Mutant of Matched: a track that misses keeps its movement.
MatchedMoves(track, detections, used) ==
  IF Candidates(track, detections, used) = {} THEN [track EXCEPT !.missed = 0]
  ELSE [center |-> detections[Best(track, detections, used)], previous |-> track.center,
        hasPrevious |-> TRUE, missed |-> 0]

\* A track takes its best detection, or has missed one frame more.
Matched(track, detections, used) ==
  IF Candidates(track, detections, used) = {}
  THEN [track EXCEPT !.missed = @ + 1, !.hasPrevious = FALSE]
  ELSE [center |-> detections[Best(track, detections, used)], previous |-> track.center,
        hasPrevious |-> TRUE, missed |-> 0]

NewTrack(p) == [center |-> p, previous |-> p, hasPrevious |-> FALSE, missed |-> 0]

\* Mutant of Retained: a lost track is kept for ever.
RetainedAll(all) == DOMAIN all

Retained(all) == {id \in DOMAIN all : all[id].missed <= maximumMissedFrames}

\* What no track took begins new ones, in the order of the detections.
Left(detections) == DOMAIN detections \ Used(detections)[nextId - 1]
NewId(i, detections) == nextId + Cardinality({j \in Left(detections) : j < i})

\* update(): match in order, drop what is lost, begin a track for what is left.
Update(detections) ==
  LET matched == [id \in DOMAIN tracks |->
                    Matched(tracks[id], detections, Used(detections)[id - 1])]
      new == {NewId(i, detections) : i \in Left(detections)} IN
  [id \in Retained(matched) \cup new |->
     IF id \in DOMAIN tracks THEN matched[id]
     ELSE NewTrack(detections[CHOOSE i \in Left(detections) : NewId(i, detections) = id])]

\* The rules are given the tracks that this frame supports.
Supported(all) == {id \in DOMAIN all : all[id].missed = 0}

-----------------------------------------------------------------------------
(* The rules: enter, leave and intrusion of one region, and the line.       *)

Remembered(id) == id \in DOMAIN states

\* Mutant of StateOf: a target first seen inside begins no stay.
StateOfInside(id, t, time) ==
  [inside |-> FALSE, triggered |-> FALSE, enteredAt |-> 0]

\* The state with which a target is looked at: of a first sight, or remembered.
StateOf(id, t, time) ==
  IF Remembered(id) THEN states[id]
  ELSE [inside |-> Inside(t.center), triggered |-> FALSE,
        enteredAt |-> IF Inside(t.center) THEN time ELSE 0]

\* Mutant of Moved: leaving does not end the stay.
MovedStays(s, inside, time) ==
  IF ~s.inside /\ inside THEN [s EXCEPT !.enteredAt = IF @ = 0 THEN time ELSE @]
  ELSE s

\* Entering begins a stay, leaving ends it.
Moved(s, inside, time) ==
  IF ~s.inside /\ inside THEN [s EXCEPT !.enteredAt = time, !.triggered = FALSE]
  ELSE IF s.inside /\ ~inside THEN [s EXCEPT !.enteredAt = 0, !.triggered = FALSE]
  ELSE s

\* Mutant of Intrudes: the alarm repeats.
IntrudesAgain(s, inside, time) ==
  inside /\ s.enteredAt # 0 /\ time >= s.enteredAt /\ time - s.enteredAt >= dwellTime

Intrudes(s, inside, time) ==
  /\ inside /\ ~s.triggered /\ s.enteredAt # 0
  /\ time >= s.enteredAt /\ time - s.enteredAt >= dwellTime

\* RegionRule::evaluate() of one track: at a first sight there is no event.
RegionStep(id, t, time) ==
  LET s == StateOf(id, t, time)
      inside == Inside(t.center)
      m == Moved(s, inside, time)
      intrudes == Remembered(id) /\ Intrudes(m, inside, time) IN
  [state |-> [inside |-> inside, triggered |-> m.triggered \/ intrudes, enteredAt |-> m.enteredAt],
   events |-> (IF ~s.inside /\ inside THEN {"entered"} ELSE {})
              \cup (IF s.inside /\ ~inside THEN {"left"} ELSE {})
              \cup (IF intrudes THEN {"intrusion"} ELSE {})]

\* LineCrossRule::evaluate() of one track, of any direction.
Crosses(t) == t.hasPrevious /\ Side(t.previous) * Side(t.center) < 0

EventsOf(id, t, time) ==
  RegionStep(id, t, time).events \cup (IF Crosses(t) THEN {"crossed"} ELSE {})

-----------------------------------------------------------------------------
\* processDetections(), and process() with an algorithm that finds these.
Process(detections) ==
  LET all == Update(detections)
      seen == Supported(all) IN
  /\ Len(frames) < MaxFrames
  /\ tracks' = all /\ now' = now + 1 /\ nextId' = nextId + Cardinality(Left(detections))
  /\ states' = [id \in DOMAIN states \cup seen |->
                  IF id \in seen THEN RegionStep(id, all[id], now + 1).state ELSE states[id]]
  /\ frames' = Append(frames, [time |-> now + 1, detections |-> detections,
                               seen |-> {[id |-> id, at |-> all[id].center,
                                          events |-> EventsOf(id, all[id], now + 1)] :
                                         id \in seen}])

\* reset(): the tracker and the rules begin anew.
Reset ==
  /\ frames # <<>> /\ tracks' = <<>> /\ nextId' = 1 /\ states' = <<>> /\ frames' = <<>>
  /\ UNCHANGED now

\* removeRule() and addRule(): the rules begin anew, the tracks go on.
ReplaceRules ==
  /\ frames # <<>> /\ states' = <<>> /\ frames' = <<>> /\ UNCHANGED <<tracks, nextId, now>>

Detections == UNION {[1 .. n -> Positions] : n \in 0 .. MaxTargets}

Next == (now < MaxFrames /\ \E detections \in Detections : Process(detections)) \/ Reset \/ ReplaceRules

Spec == Init /\ [][Next]_vars

-----------------------------------------------------------------------------
(* Correctness, over the frames that the rules have seen. *)

SeenAs(k, id) == {s \in frames[k].seen : s.id = id}
Ids == UNION {{s.id : s \in frames[k].seen} : k \in DOMAIN frames}
Event(k, id, event) == \E s \in SeenAs(k, id) : event \in s.events

\* Between two frames the target is not seen.
Unseen(j, k, id) == \A i \in j + 1 .. k - 1 : SeenAs(i, id) = {}

(* Each detection of a frame is one target's, and only one's.              *)
OneTargetEach ==
  \A k \in DOMAIN frames :
    /\ Cardinality(frames[k].seen) = Len(frames[k].detections)
    /\ \A s, t \in frames[k].seen : s.id = t.id => s = t
    /\ \A p \in Positions : Cardinality({s \in frames[k].seen : s.at = p})
                            = Cardinality({i \in DOMAIN frames[k].detections :
                                             frames[k].detections[i] = p})

(* A target that was lost for longer than is tolerated does not come back  *)
(* under its number, and one that comes back is near where it was.         *)
IdentityKept ==
  \A id \in Ids, j, k \in DOMAIN frames :
    j < k /\ SeenAs(j, id) # {} /\ SeenAs(k, id) # {} /\ Unseen(j, k, id) =>
      /\ k - j <= maximumMissedFrames + 1
      /\ \A s \in SeenAs(j, id), t \in SeenAs(k, id) : Distance(s.at, t.at) <= Reach

(* A target is reported to enter or to leave exactly when its last two      *)
(* sights differ, however many frames it was not detected in between.      *)
MovesReported ==
  \A id \in Ids, k \in DOMAIN frames :
    SeenAs(k, id) # {} =>
      LET before == {j \in 1 .. k - 1 : SeenAs(j, id) # {} /\ Unseen(j, k, id)} IN
      /\ Event(k, id, "entered") <=>
           \E j \in before : \E s \in SeenAs(j, id), t \in SeenAs(k, id) :
             ~Inside(s.at) /\ Inside(t.at)
      /\ Event(k, id, "left") <=>
           \E j \in before : \E s \in SeenAs(j, id), t \in SeenAs(k, id) :
             Inside(s.at) /\ ~Inside(t.at)

(* An intrusion is of a target that is inside since the dwell time, as far  *)
(* as it was seen, and each stay is reported once.                         *)
IntrusionIsAStay ==
  \A id \in Ids, k \in DOMAIN frames :
    Event(k, id, "intrusion") =>
      \E j \in 1 .. k - 1 :
        /\ SeenAs(j, id) # {} /\ frames[k].time - frames[j].time >= dwellTime
        /\ \A i \in j .. k : \A s \in SeenAs(i, id) : Inside(s.at)
        /\ \A i \in j .. k - 1 : ~Event(i, id, "intrusion")
==============================================================================
