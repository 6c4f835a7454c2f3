----------------------------- MODULE ServicesProofs -----------------------------
(***************************************************************************)
(* That the services that keep something keep it: ServicesSpec =>          *)
(* []ServicesInv, for any number of recorders, segments, publishers,       *)
(* alarms, processes, targets and frames.                                  *)
(*                                                                         *)
(* Recordings: the discipline of persistIndexLocked, one holder of         *)
(* State::mutex, so that the temporary index is still what is in memory    *)
(* when it replaces the index.  Alarms: an event is in one place until it  *)
(* is recorded, so that records are of different events, and each that was *)
(* written is no farther from the end of the journal than from the list's. *)
(* Targets: the last sight of a target is what the tracker and the rules   *)
(* know of it, and a stay began in a frame that was seen.                  *)
(***************************************************************************)
EXTENDS MCServices, SequenceTheorems, FiniteSetTheorems, WellFoundedInduction, TLAPS

-----------------------------------------------------------------------------
(* The inference engine.  Between any two steps of a call it has at most   *)
(* one context and one set of buffers, and knows of both.                  *)

EngineState == [device : BOOLEAN, loaded : BOOLEAN, context : BOOLEAN, held : BOOLEAN,
                contexts : Int, buffers : Int, ok : BOOLEAN]

Accounted(s) ==
  /\ s \in EngineState /\ (s.held => s.context) /\ (s.context => s.device)
  /\ s.contexts = (IF s.context THEN 1 ELSE 0) /\ s.buffers = (IF s.held THEN 1 ELSE 0)

SameEngine(s, t) == t.device = s.device /\ t.loaded = s.loaded

\* Each part of a call leaves the engine accounted for.
LEMMA OutputsReleased ==
  ASSUME NEW s, Accounted(s), NEW denied
  PROVE  LET r == Engine!ReleaseOutputs(s, denied) IN
         Accounted(r) /\ ~r.held /\ r.context = s.context /\ SameEngine(s, r)
<1> DEFINE ok == s.ok /\ "outputs" \notin denied
           r == Engine!ReleaseOutputs(s, denied)
<1>1. ok \in BOOLEAN
  OBVIOUS
<1>2. CASE ~s.held
  BY <1>2 DEF Accounted, EngineState, SameEngine, Engine!ReleaseOutputs
<1>3. CASE s.held
  <2>1. r = [s EXCEPT !.held = FALSE, !.buffers = s.buffers - 1, !.ok = ok]
    BY <1>3 DEF Accounted, Engine!ReleaseOutputs
  <2> HIDE DEF r, ok
  <2>2. r = [device |-> s.device, loaded |-> s.loaded, context |-> s.context, held |-> FALSE,
             contexts |-> s.contexts, buffers |-> s.buffers - 1, ok |-> ok]
    BY <2>1 DEF Accounted, EngineState
  <2> QED
    BY <1>1, <1>3, <2>2 DEF Accounted, EngineState, SameEngine, r
<1> QED
  BY <1>2, <1>3

LEMMA ModelUnloaded ==
  ASSUME NEW s, Accounted(s), NEW denied
  PROVE  LET u == Engine!UnloadModel(s, denied) IN
         Accounted(u) /\ ~u.held /\ ~u.context /\ SameEngine(s, u)
<1> DEFINE r == Engine!ReleaseOutputs(s, denied)
<1>1. Accounted(r) /\ ~r.held /\ r.context = s.context /\ SameEngine(s, r)
  BY OutputsReleased
<1>2. Engine!UnloadModel(s, denied) =
        IF ~r.context THEN r
        ELSE [r EXCEPT !.context = FALSE, !.contexts = @ - 1,
                       !.ok = @ /\ "context" \notin denied]
  BY DEF Engine!UnloadModel
<1> DEFINE ok == r.ok /\ "context" \notin denied
<1>3. ok \in BOOLEAN
  OBVIOUS
<1> HIDE DEF r
<1>4. CASE ~r.context
  BY <1>1, <1>2, <1>4
<1>5. CASE r.context
  <2>1. Engine!UnloadModel(s, denied)
          = [r EXCEPT !.context = FALSE, !.contexts = r.contexts - 1, !.ok = ok]
    BY <1>2, <1>5
  <2> HIDE DEF ok
  <2>2. Engine!UnloadModel(s, denied)
          = [device |-> r.device, loaded |-> r.loaded, context |-> FALSE, held |-> r.held,
             contexts |-> r.contexts - 1, buffers |-> r.buffers, ok |-> ok]
    BY <1>1, <2>1 DEF Accounted, EngineState
  <2> QED
    BY <1>1, <1>3, <1>5, <2>2 DEF Accounted, EngineState, SameEngine
<1> QED
  BY <1>4, <1>5

LEMMA DeviceClosed ==
  ASSUME NEW s, Accounted(s), NEW denied
  PROVE  LET c == Engine!CloseDevice(s, denied) IN
         Accounted(c) /\ ~c.held /\ ~c.context /\ ~c.device /\ c.loaded = s.loaded
<1> DEFINE u == Engine!UnloadModel(s, denied)
<1>1. Accounted(u) /\ ~u.held /\ ~u.context /\ SameEngine(s, u)
  BY ModelUnloaded
<1>2. Engine!CloseDevice(s, denied) = [u EXCEPT !.device = FALSE, !.ok = s.ok]
  BY DEF Engine!CloseDevice
<1> HIDE DEF u
<1> QED
  BY <1>1, <1>2 DEF Accounted, EngineState, SameEngine

LEMMA EngineUnloaded ==
  ASSUME NEW s, Accounted(s), NEW denied
  PROVE  LET u == Engine!EngineUnload(s, denied) IN Accounted(u) /\ ~u.loaded /\ ~u.device
<1> DEFINE u == IF s.loaded THEN Engine!UnloadModel(s, denied) ELSE s
           c == Engine!CloseDevice(u, denied)
<1>1. Accounted(u)
  BY ModelUnloaded
<1>2. Accounted(c) /\ ~c.context /\ ~c.device
  <2> HIDE DEF u
  <2> QED
    BY <1>1, DeviceClosed
<1>3. Engine!EngineUnload(s, denied)
        = IF ~s.device THEN [s EXCEPT !.loaded = FALSE] ELSE [c EXCEPT !.loaded = FALSE]
  BY DEF Engine!EngineUnload
<1> HIDE DEF u, c
<1> QED
  BY <1>2, <1>3 DEF Accounted, EngineState

LEMMA ModelLoaded ==
  ASSUME NEW s, Accounted(s), s.device, ~s.context, NEW step, NEW denied
  PROVE  LET l == Engine!LoadModel(s, step, denied) IN
         Accounted(l) /\ ~l.held /\ SameEngine(s, l) /\ (l.ok => l.context)
<1> DEFINE u == Engine!UnloadModel(s, denied)
<1>1. Accounted(u) /\ ~u.held /\ ~u.context /\ SameEngine(s, u)
  BY ModelUnloaded
<1>2. Engine!LoadModel(s, step, denied) =
        IF step = "read" THEN [s EXCEPT !.ok = FALSE]
        ELSE IF ~u.ok \/ step \in {"init", "query"} THEN [u EXCEPT !.ok = FALSE]
        ELSE [u EXCEPT !.context = TRUE, !.contexts = @ + 1]
  BY DEF Engine!LoadModel
<1> HIDE DEF u
<1>3. CASE step = "read"
  BY <1>2, <1>3 DEF Accounted, EngineState, SameEngine
<1>4. CASE step # "read" /\ (~u.ok \/ step \in {"init", "query"})
  BY <1>1, <1>2, <1>4 DEF Accounted, EngineState, SameEngine
<1>5. CASE step # "read" /\ u.ok /\ step \notin {"init", "query"}
  <2>1. Engine!LoadModel(s, step, denied)
          = [device |-> u.device, loaded |-> u.loaded, context |-> TRUE, held |-> u.held,
             contexts |-> u.contexts + 1, buffers |-> u.buffers, ok |-> u.ok]
    BY <1>1, <1>2, <1>5 DEF Accounted, EngineState
  <2> QED
    BY <1>1, <1>5, <2>1 DEF Accounted, EngineState, SameEngine
<1> QED
  BY <1>3, <1>4, <1>5

LEMMA FrameRun ==
  ASSUME NEW s, Accounted(s), s.context, NEW step, NEW denied
  PROVE  LET r == Engine!RunFrame(s, step, denied) IN
         Accounted(r) /\ r.context /\ SameEngine(s, r) /\ (~r.ok => ~r.held)
<1> DEFINE r == Engine!ReleaseOutputs(s, denied)
<1>1. Accounted(r) /\ ~r.held /\ r.context /\ SameEngine(s, r)
  BY OutputsReleased
<1>2. Engine!RunFrame(s, step, denied) =
        IF ~r.ok \/ step \in {"input", "run", "get"} THEN [r EXCEPT !.ok = FALSE]
        ELSE [r EXCEPT !.held = TRUE, !.buffers = @ + 1]
  BY DEF Engine!RunFrame
<1> HIDE DEF r
<1>3. CASE ~r.ok \/ step \in {"input", "run", "get"}
  BY <1>1, <1>2, <1>3 DEF Accounted, EngineState, SameEngine
<1>4. CASE r.ok /\ step \notin {"input", "run", "get"}
  <2>1. Engine!RunFrame(s, step, denied)
          = [device |-> r.device, loaded |-> r.loaded, context |-> r.context, held |-> TRUE,
             contexts |-> r.contexts, buffers |-> r.buffers + 1, ok |-> r.ok]
    BY <1>1, <1>2, <1>4 DEF Accounted, EngineState
  <2> QED
    BY <1>1, <1>4, <2>1 DEF Accounted, EngineState, SameEngine
<1> QED
  BY <1>3, <1>4

\* Between two calls there is a context if a model is loaded, and no outputs.
EngineInv ==
  /\ Accounted(Engine!Now) /\ ~infOutputs_held
  /\ infDevice = infLoaded /\ infContext = infLoaded

LEMMA EngineInit == Engine!Init => EngineInv
<1> SUFFICES ASSUME Engine!Init PROVE EngineInv
  OBVIOUS
<1>1. Engine!Now = [device |-> FALSE, loaded |-> FALSE, context |-> FALSE, held |-> FALSE,
                    contexts |-> 0, buffers |-> 0, ok |-> TRUE]
  BY Zenon DEF Engine!Init, Engine!Now
<1>2. Accounted(Engine!Now)
  BY <1>1 DEF Accounted, EngineState
<1> QED
  BY <1>2 DEF Engine!Init, EngineInv

LEMMA EngineBecomes ==
  ASSUME NEW s, Accounted(s), ~s.held, s.device = s.loaded, s.context = s.loaded,
         Engine!Becomes(s)
  PROVE  EngineInv'
BY DEF Engine!Becomes, EngineInv, Engine!Now, Accounted, EngineState

LEMMA LoadStep ==
  ASSUME EngineInv, NEW step, NEW denied, Engine!Load(step, denied)
  PROVE  EngineInv'
<1> DEFINE u == Engine!EngineUnload(Engine!Now, denied)
           o == [u EXCEPT !.device = TRUE]
           l == Engine!LoadModel(o, step, denied)
           c == Engine!CloseDevice(l, denied)
           r == [l EXCEPT !.loaded = TRUE]
<1>1. Accounted(u) /\ ~u.loaded /\ ~u.device
  BY EngineUnloaded DEF EngineInv
<1>2. Accounted(o) /\ o.device /\ ~o.loaded /\ ~o.context
  <2> HIDE DEF u
  <2> QED
    BY <1>1 DEF Accounted, EngineState
<1>3. Accounted(l) /\ ~l.held /\ l.device /\ ~l.loaded /\ (l.ok => l.context)
  <2> HIDE DEF o
  <2> QED
    BY <1>2, ModelLoaded DEF SameEngine
<1>4. Accounted(c) /\ ~c.held /\ ~c.context /\ ~c.device /\ ~c.loaded
  <2> HIDE DEF l
  <2> QED
    BY <1>3, DeviceClosed
<1>5. Engine!Becomes(u) \/ Engine!Becomes(c) \/ (l.ok /\ Engine!Becomes(r))
  <2>1. Engine!Becomes(IF ~u.ok \/ step = "open" THEN u
                       ELSE IF ~l.ok \/ step = "caps" THEN c ELSE r)
    BY DEF Engine!Load
  <2> HIDE DEF u, c, l, r
  <2> QED
    BY <2>1
<1>6. l.ok => Accounted(r) /\ ~r.held /\ r.device /\ r.loaded /\ r.context
  <2> HIDE DEF l
  <2> QED
    BY <1>3 DEF Accounted, EngineState
<1>7. ~u.context /\ ~u.held
  <2> HIDE DEF u
  <2> QED
    BY <1>1 DEF Accounted
<1>8. u.loaded \in BOOLEAN /\ u.device \in BOOLEAN /\ u.context \in BOOLEAN
  <2> HIDE DEF u
  <2> QED
    BY <1>1 DEF Accounted, EngineState
<1>9. c.loaded \in BOOLEAN /\ c.device \in BOOLEAN /\ c.context \in BOOLEAN
  <2> HIDE DEF c
  <2> QED
    BY <1>4 DEF Accounted, EngineState
<1>10. l.ok => r.loaded \in BOOLEAN /\ r.device \in BOOLEAN /\ r.context \in BOOLEAN
  <2> HIDE DEF r
  <2> QED
    BY <1>6 DEF Accounted, EngineState
<1> HIDE DEF u, c, l, r
<1> QED
  BY <1>1, <1>4, <1>5, <1>6, <1>7, <1>8, <1>9, <1>10, EngineBecomes

LEMMA InferStep ==
  ASSUME EngineInv, NEW step, NEW denied, Engine!Infer(step, denied)
  PROVE  EngineInv'
<1> DEFINE n == Engine!Now
           r == Engine!RunFrame(n, step, denied)
           o == Engine!ReleaseOutputs(r, denied)
<1>1. Accounted(n) /\ n.context /\ n.device /\ n.loaded
  BY DEF EngineInv, Engine!Infer, Engine!Now
<1>2. Accounted(r) /\ r.context /\ r.device /\ r.loaded /\ (~r.ok => ~r.held)
  <2> HIDE DEF n
  <2> QED
    BY <1>1, FrameRun DEF SameEngine
<1>3. Accounted(o) /\ ~o.held /\ o.context /\ o.device /\ o.loaded
  <2> HIDE DEF r
  <2> QED
    BY <1>2, OutputsReleased DEF SameEngine
<1>4. Engine!Becomes(IF r.ok THEN o ELSE r)
  BY DEF Engine!Infer
<1>5. \A x \in {r, o} : /\ x.loaded \in BOOLEAN /\ x.device \in BOOLEAN
                        /\ x.context \in BOOLEAN
  <2> HIDE DEF r, o
  <2> QED
    BY <1>2, <1>3 DEF Accounted, EngineState
<1> HIDE DEF r, o
<1> QED
  BY <1>2, <1>3, <1>4, <1>5, EngineBecomes

LEMMA EngineStep == EngineInv /\ [Engine!Next]_engineVars => EngineInv'
<1>1. ASSUME EngineInv, NEW denied, Engine!Unload(denied) PROVE EngineInv'
  <2> DEFINE u == Engine!EngineUnload(Engine!Now, denied)
  <2>1. Accounted(u) /\ ~u.loaded /\ ~u.device
    BY <1>1, EngineUnloaded DEF EngineInv
  <2>2. Engine!Becomes(u)
    BY <1>1 DEF Engine!Unload
  <2> HIDE DEF u
  <2>3. ~u.context /\ ~u.held
    BY <2>1 DEF Accounted
  <2>4. u.loaded \in BOOLEAN /\ u.device \in BOOLEAN /\ u.context \in BOOLEAN
    BY <2>1 DEF Accounted, EngineState
  <2> QED
    BY <2>1, <2>2, <2>3, <2>4, EngineBecomes
<1>2. ASSUME EngineInv, UNCHANGED engineVars PROVE EngineInv'
  BY <1>2 DEF engineVars, EngineInv, Engine!Now
<1> QED
  BY <1>1, <1>2, LoadStep, InferStep DEF Engine!Next

LEMMA EngineRight == EngineInv => Engine!OneContext /\ Engine!NoBufferOutlives
BY DEF EngineInv, Engine!OneContext, Engine!NoBufferOutlives, Accounted, EngineState, Engine!Now

-----------------------------------------------------------------------------
(* The key store, of which its module has the proof. *)

LEMMA StoreStays == Store!KeyInv /\ [Store!Next]_keyVars => Store!KeyInv'
<1>1. ASSUME Store!KeyInv, Store!Next PROVE Store!KeyInv'
  BY <1>1, Store!OpenStep, Store!StoreStep DEF Store!Next
<1>2. ASSUME Store!KeyInv, UNCHANGED keyVars PROVE Store!KeyInv'
  BY <1>2 DEF keyVars, Store!KeyInv, Store!TypeOK, Store!HasKey, Store!OneWriter, Store!SecretsReadable
<1> QED BY <1>1, <1>2

-----------------------------------------------------------------------------
(* Numbers, and functions that are defined along them. *)

\* A set of naturals has a least one.
LEMMA Least ==
  ASSUME NEW T, T \subseteq Nat, T # {}
  PROVE  \E x \in T : \A y \in T : x <= y
<1>1. PICK x \in T : \A y \in T : <<y, x>> \notin OpToRel(<, Nat)
  BY NatLessThanWellFounded, WFMin
<1>2. \A y \in T : ~(y < x)
  BY <1>1 DEF OpToRel
<1> QED
  BY <1>2

\* What holds of 0 and, with a number, of the next one, holds up to n.
LEMMA UpTo ==
  ASSUME NEW n \in Nat, NEW T, 0 \in T, \A i \in 0 .. n - 1 : i \in T => i + 1 \in T
  PROVE  0 .. n \subseteq T
<1> DEFINE U == {i \in 0 .. n : i \notin T}
<1> SUFFICES ASSUME U # {} PROVE FALSE
  OBVIOUS
<1>1. PICK x \in U : \A y \in U : x <= y
  BY Least, U \subseteq Nat
<1> QED
  BY <1>1

\* g begins with b and takes n steps in S.
Recurs(n, S, b, step, g) ==
  /\ g \in [0 .. n -> S] /\ g[0] = b
  /\ \A i \in 1 .. n : g[i] = step[i][g[i - 1]]

\* There is such a function.
LEMMA Recursion ==
  ASSUME NEW n, NEW S, NEW b, NEW step, n \in Nat, b \in S, step \in [1 .. n -> [S -> S]]
  PROVE  \E g : Recurs(n, S, b, step, g)
<1> DEFINE Is(g, k) == /\ g \in [0 .. k -> S] /\ g[0] = b
                       /\ \A i \in 1 .. k : g[i] = step[i][g[i - 1]]
           T == {k \in Nat : \E g : Is(g, k)}
<1>1. 0 \in T
  <2>1. Is([i \in 0 .. 0 |-> b], 0)
    OBVIOUS
  <2> HIDE DEF Is
  <2> QED
    BY <2>1
<1>2. ASSUME NEW k \in 0 .. n - 1, k \in T PROVE k + 1 \in T
  <2>1. PICK g : Is(g, k)
    BY <1>2
  <2> DEFINE h == [i \in 0 .. k + 1 |-> IF i = k + 1 THEN step[k + 1][g[k]] ELSE g[i]]
  <2>2. \A i \in 0 .. k : h[i] = g[i] /\ g[i] \in S
    BY <2>1
  <2>3. h[k + 1] = step[k + 1][h[k]] /\ h[k + 1] \in S
    <3>1. k + 1 \in 1 .. n /\ k \in 0 .. k
      OBVIOUS
    <3>2. step[k + 1] \in [S -> S] /\ g[k] \in S /\ h[k] = g[k]
      BY <2>2, <3>1
    <3>3. h[k + 1] = step[k + 1][g[k]]
      OBVIOUS
    <3> HIDE DEF h
    <3> QED
      BY <3>2, <3>3
  <2>4. h \in [0 .. k + 1 -> S]
    <3>1. \A i \in 0 .. k + 1 : h[i] \in S
      <4>1. \A i \in 0 .. k + 1 : i \in 0 .. k \/ i = k + 1
        OBVIOUS
      <4> HIDE DEF h
      <4> QED
        BY <2>2, <2>3, <4>1
    <3> QED
      BY <3>1
  <2> HIDE DEF h
  <2>5. ASSUME NEW i \in 1 .. k + 1 PROVE h[i] = step[i][h[i - 1]]
    <3>1. CASE i = k + 1
      BY <2>3, <3>1
    <3>2. CASE i # k + 1
      BY <2>1, <2>2, <3>2, i \in 1 .. k, i - 1 \in 0 .. k
    <3> QED
      BY <3>1, <3>2
  <2>6. Is(h, k + 1)
    BY <2>1, <2>2, <2>4, <2>5
  <2> HIDE DEF Is
  <2> QED
    BY <2>6
<1> HIDE DEF T
<1>3. 0 .. n \subseteq T
  BY <1>1, <1>2, UpTo
<1>4. n \in T
  BY <1>3
<1> QED
  BY <1>4 DEF T, Recurs

-----------------------------------------------------------------------------
(* The alarms. *)

AlarmRecord == [id : Alarm!Ids, acked : BOOLEAN]

\* Lines that loadJournal() understands.
GoodLines == {"E", "A"} \X Alarm!Ids

LEMMA LineTypes ==
  ASSUME NEW line \in Alarm!Lines, line # Alarm!Torn
  PROVE  line \in GoodLines
BY DEF Alarm!Lines, GoodLines

LEMMA ReadLineType ==
  ASSUME NEW read \in Seq(AlarmRecord), NEW line \in GoodLines
  PROVE  Alarm!ReadLine(read, line) \in Seq(AlarmRecord)
<1>1. line[1] \in {"E", "A"} /\ line[2] \in Alarm!Ids
  BY DEF GoodLines
<1>2. CASE line[1] = "E"
  <2>1. [id |-> line[2], acked |-> FALSE] \in AlarmRecord
    BY <1>1 DEF AlarmRecord
  <2> QED
    BY <1>2, <2>1 DEF Alarm!ReadLine
<1>3. CASE line[1] # "E"
  <2> DEFINE r == [i \in DOMAIN read |->
                     [read[i] EXCEPT !.acked = read[i].acked \/ read[i].id = line[2]]]
  <2>1. ASSUME NEW i \in 1 .. Len(read)
        PROVE  [read[i] EXCEPT !.acked = read[i].acked \/ read[i].id = line[2]] \in AlarmRecord
    <3>1. read[i] \in AlarmRecord
      OBVIOUS
    <3> DEFINE a == read[i].acked \/ read[i].id = line[2]
    <3>2. a \in BOOLEAN
      OBVIOUS
    <3> HIDE DEF a
    <3> QED
      BY <3>1, <3>2 DEF AlarmRecord
  <2>2. r \in [1 .. Len(read) -> AlarmRecord]
    BY <2>1
  <2>3. r \in Seq(AlarmRecord)
    BY <2>2, SeqDef
  <2> QED
    BY <1>3, <2>3 DEF Alarm!ReadLine
<1> QED
  BY <1>2, <1>3

\* What loadJournal() has read after each line.
TornBy(lines, n) == \E m \in 1 .. n : lines[m] = Alarm!Torn

Reads(lines, f) ==
  /\ f \in [0 .. Len(lines) -> Seq(AlarmRecord)] /\ f[0] = <<>>
  /\ \A n \in 1 .. Len(lines) :
       f[n] = IF TornBy(lines, n) THEN f[n - 1] ELSE Alarm!ReadLine(f[n - 1], lines[n])

LEMMA Reading ==
  ASSUME NEW lines \in Seq(Alarm!Lines)
  PROVE  \E f : Reads(lines, f) /\ Alarm!RecordsIn(lines) = f[Len(lines)]
<1> DEFINE S == Seq(AlarmRecord)
           Step(n, r) == IF TornBy(lines, n) THEN r ELSE Alarm!ReadLine(r, lines[n])
           step == [n \in 1 .. Len(lines) |-> [r \in S |-> Step(n, r)]]
           Is(f) == f = [n \in 0 .. Len(lines) |->
                           IF n = 0 THEN <<>>
                           ELSE IF \E m \in 1 .. n : lines[m] = Alarm!Torn THEN f[n - 1]
                           ELSE Alarm!ReadLine(f[n - 1], lines[n])]
           f == CHOOSE f : Is(f)
<1>1. ASSUME NEW n \in 1 .. Len(lines), NEW r \in S PROVE Step(n, r) \in S
  <2>1. CASE TornBy(lines, n)
    BY <2>1
  <2>2. CASE ~TornBy(lines, n)
    <3>1. lines[n] \in Alarm!Lines /\ lines[n] # Alarm!Torn
      BY <2>2 DEF TornBy
    <3> QED
      BY <2>2, <3>1, LineTypes, ReadLineType
  <2> QED
    BY <2>1, <2>2
<1> HIDE DEF Step
<1>2. step \in [1 .. Len(lines) -> [S -> S]]
  BY <1>1
<1>3. Len(lines) \in Nat /\ <<>> \in S
  OBVIOUS
<1> HIDE DEF step, S
<1>4. PICK g : Recurs(Len(lines), S, <<>>, step, g)
  BY <1>2, <1>3, Recursion
<1>5. ASSUME NEW n \in 1 .. Len(lines) PROVE g[n] = Step(n, g[n - 1])
  <2>1. n - 1 \in 0 .. Len(lines)
    BY <1>3
  <2>2. g[n - 1] \in S
    BY <1>4, <2>1 DEF Recurs
  <2> QED
    BY <1>4, <2>2 DEF Recurs, step
<1>6. Is(g)
  <2>1. \A n \in 0 .. Len(lines) :
          g[n] = IF n = 0 THEN <<>>
                 ELSE IF \E m \in 1 .. n : lines[m] = Alarm!Torn THEN g[n - 1]
                 ELSE Alarm!ReadLine(g[n - 1], lines[n])
    <3> TAKE n \in 0 .. Len(lines)
    <3>1. CASE n = 0
      BY <1>4, <3>1 DEF Recurs
    <3>2. CASE n # 0
      <4>1. n \in 1 .. Len(lines)
        BY <1>3, <3>2
      <4> QED
        BY <1>5, <3>2, <4>1 DEF Step, TornBy
    <3> QED
      BY <3>1, <3>2
  <2> QED
    BY <1>4, <2>1 DEF Recurs
<1>7. Is(f)
  <2> HIDE DEF Is
  <2> QED
    BY <1>6
<1>8. f \in [0 .. Len(lines) -> S]
  <2> DEFINE T == {n \in 0 .. Len(lines) : f[n] = g[n]}
  <2>1. /\ f[0] = <<>> /\ DOMAIN f = 0 .. Len(lines)
        /\ f = [n \in 0 .. Len(lines) |-> f[n]]
        /\ \A n \in 1 .. Len(lines) : f[n] = Step(n, f[n - 1])
    <3> HIDE DEF f
    <3> QED
      BY <1>3, <1>7 DEF Step, TornBy
  <2> HIDE DEF f
  <2>2. 0 \in T
    BY <1>3, <1>4, <2>1 DEF Recurs
  <2>3. ASSUME NEW i \in 0 .. Len(lines) - 1, i \in T PROVE i + 1 \in T
    <3>1. i + 1 \in 1 .. Len(lines) /\ (i + 1) - 1 = i /\ i + 1 \in 0 .. Len(lines)
      BY <1>3
    <3>2. f[i + 1] = Step(i + 1, f[i]) /\ g[i + 1] = Step(i + 1, g[i])
      BY <1>5, <2>1, <3>1
    <3> QED
      BY <2>3, <3>1, <3>2
  <2> HIDE DEF T
  <2>4. 0 .. Len(lines) \subseteq T
    BY <1>3, <2>2, <2>3, UpTo
  <2>5. \A n \in 0 .. Len(lines) : f[n] \in S
    BY <1>4, <2>4 DEF Recurs, T
  <2> QED
    BY <2>1, <2>5
<1>9. Reads(lines, f)
  <2> HIDE DEF f
  <2> QED
    <3>1. /\ f \in [0 .. Len(lines) -> Seq(AlarmRecord)]
          /\ \A n \in 0 .. Len(lines) :
               f[n] = IF n = 0 THEN <<>>
                      ELSE IF \E m \in 1 .. n : lines[m] = Alarm!Torn THEN f[n - 1]
                      ELSE Alarm!ReadLine(f[n - 1], lines[n])
      BY <1>7, <1>8 DEF S
    <3>2. 0 \in 0 .. Len(lines) /\ \A n \in 1 .. Len(lines) : n \in 0 .. Len(lines) /\ n # 0
      BY <1>3
    <3> HIDE DEF Is
    <3> QED
      BY <3>1, <3>2 DEF Reads, TornBy
<1>10. Alarm!RecordsIn(lines) = f[Len(lines)]
  BY DEF Alarm!RecordsIn
<1> HIDE DEF f
<1> QED
  BY <1>9, <1>10

LEMMA ReadType ==
  ASSUME NEW lines \in Seq(Alarm!Lines)
  PROVE  Alarm!RecordsIn(lines) \in Seq(AlarmRecord)
<1>1. PICK f : Reads(lines, f) /\ Alarm!RecordsIn(lines) = f[Len(lines)]
  BY Reading
<1>2. Len(lines) \in 0 .. Len(lines)
  OBVIOUS
<1> QED
  BY <1>1, <1>2 DEF Reads

LEMMA ReadNothing == Alarm!RecordsIn(<<>>) = <<>>
<1>1. <<>> \in Seq(Alarm!Lines) /\ Len(<<>>) = 0
  OBVIOUS
<1>2. PICK f : Reads(<<>>, f) /\ Alarm!RecordsIn(<<>>) = f[Len(<<>>)]
  BY <1>1, Reading
<1> QED
  BY <1>1, <1>2 DEF Reads

Whole(lines) == Alarm!Torn \notin Alarm!ToSet(lines)

\* A line that is appended to a journal without torn lines is read last.
LEMMA ReadAppend ==
  ASSUME NEW lines \in Seq(Alarm!Lines), Whole(lines), NEW x \in GoodLines
  PROVE  Alarm!RecordsIn(Append(lines, x)) = Alarm!ReadLine(Alarm!RecordsIn(lines), x)
<1> DEFINE more == Append(lines, x)
           n == Len(lines)
<1>1. x \in Alarm!Lines /\ x # Alarm!Torn
  BY DEF GoodLines, Alarm!Lines, Alarm!Torn
<1>2. more \in Seq(Alarm!Lines) /\ Len(more) = n + 1 /\ n \in Nat
  BY <1>1
<1>3. \A i \in 1 .. n : more[i] = lines[i] /\ lines[i] # Alarm!Torn
  BY DEF Whole, Alarm!ToSet
<1>4. more[n + 1] = x
  OBVIOUS
<1> HIDE DEF more
<1>5. PICK f : Reads(lines, f) /\ Alarm!RecordsIn(lines) = f[n]
  BY Reading
<1>6. PICK g : Reads(more, g) /\ Alarm!RecordsIn(more) = g[n + 1]
  BY <1>2, Reading
<1> HIDE DEF n
<1>7. \A i \in 1 .. n : ~TornBy(lines, i) /\ ~TornBy(more, i)
  BY <1>2, <1>3 DEF TornBy
<1>8. ~TornBy(more, n + 1)
  <2>1. \A m \in 1 .. n + 1 : m \in 1 .. n \/ m = n + 1
    BY <1>2
  <2> QED
    BY <1>1, <1>3, <1>4, <2>1 DEF TornBy
<1> DEFINE T == {i \in 0 .. n : f[i] = g[i]}
<1>9. 0 \in T
  BY <1>2, <1>5, <1>6 DEF Reads
<1>10. ASSUME NEW i \in 0 .. n - 1, i \in T PROVE i + 1 \in T
  <2>1. i + 1 \in 1 .. n /\ (i + 1) - 1 = i /\ i + 1 \in 1 .. n + 1 /\ i + 1 \in 0 .. n
    BY <1>2
  <2>2. f[i + 1] = Alarm!ReadLine(f[i], lines[i + 1])
    BY <1>5, <1>7, <2>1 DEF Reads, n
  <2>3. g[i + 1] = Alarm!ReadLine(g[i], more[i + 1])
    BY <1>2, <1>6, <1>7, <2>1 DEF Reads
  <2> QED
    BY <1>3, <1>10, <2>1, <2>2, <2>3
<1> HIDE DEF T
<1>11. 0 .. n \subseteq T
  BY <1>2, <1>9, <1>10, UpTo
<1>12. f[n] = g[n]
  <2>1. n \in 0 .. n
    BY <1>2
  <2> QED
    BY <1>11, <2>1 DEF T
<1>13. g[n + 1] = Alarm!ReadLine(g[n], x)
  <2>1. n + 1 \in 1 .. n + 1 /\ (n + 1) - 1 = n
    BY <1>2
  <2> QED
    BY <1>2, <1>4, <1>6, <1>8, <2>1 DEF Reads
<1> QED
  BY <1>5, <1>6, <1>12, <1>13 DEF more, n

-----------------------------------------------------------------------------
(* The records in memory and those of the journal. *)

\* The records in memory whose lines were written are among those of the file,
\* in the same state, and no farther from the end.
Mirrors(kept, read, lost) ==
  \A i \in DOMAIN kept :
    <<"E", kept[i].id>> \notin lost =>
      \E k \in DOMAIN read :
        /\ read[k].id = kept[i].id
        /\ read[k].acked = kept[i].acked \/ <<"A", kept[i].id>> \in lost
        /\ Len(read) - k <= Len(kept) - i

\* No two records are of one event.
Distinct(s) == \A i, j \in DOMAIN s : s[i].id = s[j].id => i = j

IdsOf(s) == {s[i].id : i \in DOMAIN s}

LEMMA LastOfFacts ==
  ASSUME NEW T, NEW s \in Seq(T), NEW n \in Nat
  PROVE  LET l == Alarm!LastOf(s, n) IN
         /\ l \in Seq(T) /\ Len(l) = IF Len(s) > n THEN n ELSE Len(s)
         /\ \A i \in 1 .. Len(l) : /\ l[i] = s[i + (Len(s) - Len(l))]
                                   /\ i + (Len(s) - Len(l)) \in 1 .. Len(s)
<1>1. Len(s) \in Nat
  OBVIOUS
<1>2. CASE Len(s) > n
  <2> DEFINE m == Len(s) - n + 1  l == Alarm!LastOf(s, n)
  <2>1. l = SubSeq(s, m, Len(s))
    BY <1>2 DEF Alarm!LastOf
  <2>2. m \in 1 .. Len(s) + 1 /\ m \in Int
    BY <1>1, <1>2
  <2>3. /\ SubSeq(s, m, Len(s)) \in Seq(T)
        /\ Len(SubSeq(s, m, Len(s))) = Len(s) - m + 1
        /\ \A i \in 1 .. Len(s) - m + 1 : SubSeq(s, m, Len(s))[i] = s[m + i - 1]
    BY <1>1, <2>2, SubSeqProperties
  <2> HIDE DEF l
  <2>4. Len(l) = n
    BY <1>1, <2>1, <2>3
  <2>5. ASSUME NEW i \in 1 .. Len(l)
        PROVE  l[i] = s[i + (Len(s) - Len(l))] /\ i + (Len(s) - Len(l)) \in 1 .. Len(s)
    <3>1. l[i] = s[m + i - 1]
      BY <1>1, <2>1, <2>3, <2>4
    <3>2. m + i - 1 = i + (Len(s) - Len(l))
      BY <1>1, <2>4
    <3> QED
      BY <1>1, <1>2, <2>4, <3>1, <3>2
  <2> QED
    BY <1>2, <2>1, <2>3, <2>4, <2>5 DEF l
<1>3. CASE Len(s) <= n
  <2>1. ~(Len(s) > n)
    BY <1>1, <1>3
  <2>2. Alarm!LastOf(s, n) = SubSeq(s, 1, Len(s))
    BY <2>1 DEF Alarm!LastOf
  <2>3. SubSeq(s, 1, Len(s)) = s
    BY <1>1
  <2>4. \A i \in 1 .. Len(s) : i + (Len(s) - Len(s)) = i
    BY <1>1
  <2> QED
    BY <1>1, <2>1, <2>2, <2>3, <2>4
<1> QED
  BY <1>1, <1>2, <1>3

LEMMA LastDistinct ==
  ASSUME NEW s \in Seq(AlarmRecord), NEW n \in Nat
  PROVE  LET l == Alarm!LastOf(s, n) IN
         (Distinct(s) => Distinct(l)) /\ IdsOf(l) \subseteq IdsOf(s)
<1> DEFINE l == Alarm!LastOf(s, n)
<1>1. /\ l \in Seq(AlarmRecord) /\ Len(s) \in Nat /\ Len(l) \in Nat
      /\ \A i \in 1 .. Len(l) : /\ l[i] = s[i + (Len(s) - Len(l))]
                                /\ i + (Len(s) - Len(l)) \in 1 .. Len(s)
  BY LastOfFacts
<1> HIDE DEF l
<1>2. DOMAIN l = 1 .. Len(l) /\ DOMAIN s = 1 .. Len(s)
  BY <1>1
<1>3. ASSUME Distinct(s) PROVE Distinct(l)
  <2>0. SUFFICES ASSUME NEW i \in 1 .. Len(l), NEW j \in 1 .. Len(l), l[i].id = l[j].id
               PROVE  i = j
    BY <1>2 DEF Distinct
  <2>1. i + (Len(s) - Len(l)) = j + (Len(s) - Len(l))
    <3> DEFINE a == i + (Len(s) - Len(l))  b == j + (Len(s) - Len(l))
    <3>1. a \in DOMAIN s /\ b \in DOMAIN s /\ l[i] = s[a] /\ l[j] = s[b]
      BY <1>1, <1>2
    <3> HIDE DEF a, b
    <3>2. a = b
      BY <1>3, <2>0, <3>1 DEF Distinct
    <3> QED
      BY <3>2 DEF a, b
  <2> QED
    BY <1>1, <2>1
<1>4. IdsOf(l) \subseteq IdsOf(s)
  BY <1>1, <1>2 DEF IdsOf
<1> QED
  BY <1>3, <1>4 DEF l

\* What is dropped is the oldest.
LEMMA MirrorsLast ==
  ASSUME NEW kept \in Seq(AlarmRecord), NEW read \in Seq(AlarmRecord), NEW lost,
         Mirrors(kept, read, lost), NEW n \in Nat
  PROVE  Mirrors(Alarm!LastOf(kept, n), read, lost)
<1> DEFINE l == Alarm!LastOf(kept, n)
           d == Len(kept) - Len(l)
<1>1. /\ l \in Seq(AlarmRecord) /\ Len(kept) \in Nat /\ Len(l) \in Nat
      /\ \A i \in 1 .. Len(l) : l[i] = kept[i + d] /\ i + d \in 1 .. Len(kept)
  BY LastOfFacts
<1>2. DOMAIN l = 1 .. Len(l) /\ DOMAIN kept = 1 .. Len(kept)
  BY <1>1
<1> HIDE DEF l
<1>3. SUFFICES ASSUME NEW i \in 1 .. Len(l), <<"E", l[i].id>> \notin lost
               PROVE  \E k \in DOMAIN read :
                        /\ read[k].id = l[i].id
                        /\ read[k].acked = l[i].acked \/ <<"A", l[i].id>> \in lost
                        /\ Len(read) - k <= Len(l) - i
  BY <1>2 DEF Mirrors, l
<1>4. PICK k \in DOMAIN read :
        /\ read[k].id = kept[i + d].id
        /\ read[k].acked = kept[i + d].acked \/ <<"A", kept[i + d].id>> \in lost
        /\ Len(read) - k <= Len(kept) - (i + d)
  BY <1>1, <1>2, <1>3 DEF Mirrors
<1>5. Len(kept) - (i + d) = Len(l) - i
  BY <1>1
<1> HIDE DEF d
<1> QED
  BY <1>1, <1>4, <1>5

LEMMA MirrorsSelf ==
  ASSUME NEW read \in Seq(AlarmRecord), NEW lost
  PROVE  Mirrors(read, read, lost)
BY DEF Mirrors

\* A new record, written and not.
LEMMA MirrorsWritten ==
  ASSUME NEW kept \in Seq(AlarmRecord), NEW read \in Seq(AlarmRecord), NEW lost,
         Mirrors(kept, read, lost), NEW r \in AlarmRecord, r.id \notin IdsOf(kept)
  PROVE  Mirrors(Append(kept, r), Append(read, r), lost \ {<<"E", r.id>>})
<1> DEFINE K == Append(kept, r)  R == Append(read, r)  L == lost \ {<<"E", r.id>>}
<1>1. /\ DOMAIN K = 1 .. Len(kept) + 1 /\ Len(K) = Len(kept) + 1 /\ Len(kept) \in Nat
      /\ DOMAIN R = 1 .. Len(read) + 1 /\ Len(R) = Len(read) + 1 /\ Len(read) \in Nat
      /\ K[Len(kept) + 1] = r /\ R[Len(read) + 1] = r
      /\ \A i \in 1 .. Len(kept) : K[i] = kept[i]
      /\ \A i \in 1 .. Len(read) : R[i] = read[i]
      /\ DOMAIN kept = 1 .. Len(kept) /\ DOMAIN read = 1 .. Len(read)
  OBVIOUS
<1> HIDE DEF K, R
<1>2. SUFFICES ASSUME NEW i \in 1 .. Len(kept) + 1, <<"E", K[i].id>> \notin L
               PROVE  \E k \in DOMAIN R :
                        /\ R[k].id = K[i].id
                        /\ R[k].acked = K[i].acked \/ <<"A", K[i].id>> \in L
                        /\ Len(R) - k <= Len(K) - i
  BY <1>1 DEF Mirrors, K, R
<1>3. CASE i = Len(kept) + 1
  <2>1. Len(read) + 1 \in DOMAIN R /\ Len(R) - (Len(read) + 1) <= Len(K) - i
    BY <1>1, <1>3
  <2> QED
    BY <1>1, <1>3, <2>1
<1>4. CASE i # Len(kept) + 1
  <2>1. i \in 1 .. Len(kept) /\ K[i] = kept[i] /\ kept[i].id \in IdsOf(kept)
    BY <1>1, <1>4 DEF IdsOf
  <2>2. <<"E", kept[i].id>> \notin lost
    BY <1>2, <2>1
  <2>3. PICK k \in DOMAIN read :
          /\ read[k].id = kept[i].id
          /\ read[k].acked = kept[i].acked \/ <<"A", kept[i].id>> \in lost
          /\ Len(read) - k <= Len(kept) - i
    BY <1>1, <2>1, <2>2 DEF Mirrors
  <2>4. k \in 1 .. Len(read) /\ k \in DOMAIN R /\ R[k] = read[k]
        /\ Len(R) - k <= Len(K) - i
    BY <1>1, <2>1, <2>3
  <2>5. <<"A", kept[i].id>> \in lost => <<"A", kept[i].id>> \in L
    OBVIOUS
  <2> QED
    BY <2>1, <2>3, <2>4, <2>5
<1> QED
  BY <1>3, <1>4

LEMMA MirrorsUnwritten ==
  ASSUME NEW kept \in Seq(AlarmRecord), NEW read \in Seq(AlarmRecord), NEW lost,
         Mirrors(kept, read, lost), NEW r \in AlarmRecord
  PROVE  Mirrors(Append(kept, r), read, lost \cup {<<"E", r.id>>})
<1> DEFINE K == Append(kept, r)  L == lost \cup {<<"E", r.id>>}
<1>1. /\ DOMAIN K = 1 .. Len(kept) + 1 /\ Len(K) = Len(kept) + 1 /\ Len(kept) \in Nat
      /\ K[Len(kept) + 1] = r /\ Len(read) \in Nat
      /\ \A i \in 1 .. Len(kept) : K[i] = kept[i]
      /\ DOMAIN kept = 1 .. Len(kept) /\ DOMAIN read = 1 .. Len(read)
  OBVIOUS
<1> HIDE DEF K
<1>2. SUFFICES ASSUME NEW i \in 1 .. Len(kept) + 1, <<"E", K[i].id>> \notin L
               PROVE  \E k \in DOMAIN read :
                        /\ read[k].id = K[i].id
                        /\ read[k].acked = K[i].acked \/ <<"A", K[i].id>> \in L
                        /\ Len(read) - k <= Len(K) - i
  BY <1>1 DEF Mirrors, K
<1>3. i \in 1 .. Len(kept) /\ K[i] = kept[i]
  BY <1>1, <1>2
<1>4. PICK k \in DOMAIN read :
        /\ read[k].id = kept[i].id
        /\ read[k].acked = kept[i].acked \/ <<"A", kept[i].id>> \in lost
        /\ Len(read) - k <= Len(kept) - i
  BY <1>1, <1>2, <1>3 DEF Mirrors
<1>5. Len(read) - k <= Len(K) - i
  BY <1>1, <1>4
<1> QED
  BY <1>3, <1>4, <1>5

\* An acknowledgement, written and not.
LEMMA MirrorsAcknowledged ==
  ASSUME NEW kept \in Seq(AlarmRecord), NEW read \in Seq(AlarmRecord), NEW lost,
         Mirrors(kept, read, lost), Distinct(kept), NEW n \in DOMAIN kept
  PROVE  LET K == [kept EXCEPT ![n].acked = TRUE]
             line == <<"A", kept[n].id>> IN
         /\ Mirrors(K, Alarm!ReadLine(read, line), lost \ {line})
         /\ Mirrors(K, read, lost \cup {line})
<1> DEFINE K == [kept EXCEPT ![n].acked = TRUE]
           line == <<"A", kept[n].id>>
           R == Alarm!ReadLine(read, line)
<1>1. /\ DOMAIN K = DOMAIN kept /\ Len(K) = Len(kept) /\ DOMAIN kept = 1 .. Len(kept)
      /\ DOMAIN read = 1 .. Len(read) /\ Len(read) \in Nat /\ Len(kept) \in Nat
  OBVIOUS
<1>2. ASSUME NEW i \in DOMAIN kept
      PROVE  K[i].id = kept[i].id /\ K[i].acked = IF i = n THEN TRUE ELSE kept[i].acked
  <2>1. kept[i] \in AlarmRecord
    OBVIOUS
  <2> QED
    BY <2>1 DEF AlarmRecord
<1>3. R = [k \in DOMAIN read |-> [read[k] EXCEPT !.acked = read[k].acked \/ read[k].id = kept[n].id]]
  BY DEF Alarm!ReadLine
<1>4. DOMAIN R = DOMAIN read /\ Len(R) = Len(read)
  <2> HIDE DEF R
  <2>1. DOMAIN R = 1 .. Len(read)
    BY <1>1, <1>3
  <2>2. R \in Seq(AlarmRecord)
    <3>1. kept[n] \in AlarmRecord
      OBVIOUS
    <3>2. line \in GoodLines
      BY <3>1 DEF AlarmRecord, GoodLines
    <3> QED
      BY <3>2, ReadLineType DEF R
  <2>3. DOMAIN R = 1 .. Len(R) /\ Len(R) \in Nat
    BY <2>2
  <2> QED
    BY <1>1, <2>1, <2>3
<1>5. ASSUME NEW k \in DOMAIN read
      PROVE  /\ R[k].id = read[k].id
             /\ R[k].acked = (read[k].acked \/ read[k].id = kept[n].id)
  <2> DEFINE a == read[k].acked \/ read[k].id = kept[n].id
  <2>1. R[k] = [read[k] EXCEPT !.acked = a]
    BY <1>3
  <2> HIDE DEF a, R
  <2>2. read[k] \in AlarmRecord
    OBVIOUS
  <2>3. R[k].id = read[k].id /\ R[k].acked = a
    BY <2>1, <2>2 DEF AlarmRecord
  <2> QED
    BY <2>3 DEF a
<1>6. \A i \in DOMAIN kept : <<"E", kept[i].id>> # line
  OBVIOUS
<1> HIDE DEF K, R
<1>7. ASSUME NEW i \in DOMAIN kept, <<"E", kept[i].id>> \notin lost
      PROVE  \E k \in DOMAIN read :
               /\ read[k].id = kept[i].id
               /\ (R[k].acked <=> K[i].acked) \/ (i # n /\ <<"A", kept[i].id>> \in lost)
               /\ i # n => (read[k].acked = kept[i].acked \/ <<"A", kept[i].id>> \in lost)
               /\ Len(read) - k <= Len(kept) - i
  <2>1. PICK k \in DOMAIN read :
          /\ read[k].id = kept[i].id
          /\ read[k].acked = kept[i].acked \/ <<"A", kept[i].id>> \in lost
          /\ Len(read) - k <= Len(kept) - i
    BY <1>7 DEF Mirrors
  <2>2. CASE i = n
    BY <1>2, <1>5, <2>1, <2>2
  <2>3. CASE i # n
    <3>1. kept[i].id # kept[n].id
      BY <2>3 DEF Distinct
    <3> QED
      BY <1>2, <1>5, <2>1, <2>3, <3>1
  <2> QED
    BY <2>2, <2>3
<1>8. \A i \in DOMAIN kept : K[i].acked \in BOOLEAN
  <2>1. \A i \in DOMAIN kept : kept[i] \in AlarmRecord
    OBVIOUS
  <2> QED
    BY <1>2, <2>1 DEF AlarmRecord
<1>9. \A k \in DOMAIN read : R[k].acked \in BOOLEAN
  BY <1>5
<1>10. Mirrors(K, R, lost \ {line})
  <2> SUFFICES ASSUME NEW i \in DOMAIN kept, <<"E", kept[i].id>> \notin lost \ {line}
               PROVE  \E k \in DOMAIN read :
                        /\ R[k].id = kept[i].id
                        /\ R[k].acked = K[i].acked \/ <<"A", kept[i].id>> \in lost \ {line}
                        /\ Len(read) - k <= Len(kept) - i
    BY <1>1, <1>2, <1>4 DEF Mirrors
  <2>1. <<"E", kept[i].id>> \notin lost
    BY <1>6
  <2>2. PICK k \in DOMAIN read :
               /\ read[k].id = kept[i].id
               /\ (R[k].acked <=> K[i].acked) \/ (i # n /\ <<"A", kept[i].id>> \in lost)
               /\ Len(read) - k <= Len(kept) - i
    BY <1>7, <2>1
  <2>3. i # n => <<"A", kept[i].id>> # line
    BY DEF Distinct
  <2>4. R[k].acked = K[i].acked \/ (i # n /\ <<"A", kept[i].id>> \in lost)
    BY <1>8, <1>9, <2>2
  <2> QED
    BY <1>5, <2>2, <2>3, <2>4
<1>11. Mirrors(K, read, lost \cup {line})
  <2> SUFFICES ASSUME NEW i \in DOMAIN kept, <<"E", kept[i].id>> \notin lost
               PROVE  \E k \in DOMAIN read :
                        /\ read[k].id = kept[i].id
                        /\ read[k].acked = K[i].acked \/ <<"A", kept[i].id>> \in lost \cup {line}
                        /\ Len(read) - k <= Len(kept) - i
    BY <1>1, <1>2 DEF Mirrors
  <2>1. PICK k \in DOMAIN read :
               /\ read[k].id = kept[i].id
               /\ i # n => (read[k].acked = kept[i].acked \/ <<"A", kept[i].id>> \in lost)
               /\ Len(read) - k <= Len(kept) - i
    BY <1>7
  <2> QED
    BY <1>2, <2>1
<1> QED
  BY <1>10, <1>11 DEF K, R

-----------------------------------------------------------------------------
(* The invariant of the alarm manager. *)

\* The records that the next process will read, before it drops the oldest.
Journaled == Alarm!RecordsIn(almJournal)

InFlight(id) ==
  \/ \E p \in Publishers : almPublishing[p] = id
  \/ \E i \in DOMAIN almPosted : almPosted[i] = id
  \/ almActing = id

\* An event is in one place until it is recorded.
OneFlight ==
  /\ \A p, q \in Publishers :
       almPublishing[p] # 0 /\ almPublishing[p] = almPublishing[q] => p = q
  /\ \A i, j \in DOMAIN almPosted : almPosted[i] = almPosted[j] => i = j
  /\ \A p \in Publishers, i \in DOMAIN almPosted : almPublishing[p] # almPosted[i]
  /\ \A p \in Publishers : almActing # 0 => almPublishing[p] # almActing
  /\ \A i \in DOMAIN almPosted : almPosted[i] # almActing
  /\ \A id \in Alarm!Ids : InFlight(id) => id < almNextId

Recorded == IdsOf(almRecords) \cup IdsOf(Journaled)

\* The records are of different events, none of which is under way, and the
\* journal mirrors them.
RecordsKept ==
  /\ Distinct(almRecords) /\ Distinct(Journaled)
  /\ Mirrors(almRecords, Journaled, almMissing)
  /\ \A id \in Recorded : id < almNextId /\ ~InFlight(id)

AlarmInv == Alarm!TypeOK /\ OneFlight /\ (Whole(almJournal) => RecordsKept)

LEMMA AlarmConstants ==
  /\ MaxRecords \in Nat /\ MaxRecords # 0 /\ MaxEvents \in Nat /\ MaxFaults \in Nat
  /\ Alarm!Ids = 1 .. MaxEvents /\ Alarm!NoEvent = 0
BY ServicesAssumption DEF Alarm!Ids, Alarm!NoEvent

LEMMA AlarmTypes ==
  ASSUME Alarm!TypeOK
  PROVE  /\ almRecords \in Seq(AlarmRecord) /\ almJournal \in Seq(Alarm!Lines)
         /\ Journaled \in Seq(AlarmRecord)
         /\ Recorded \subseteq Alarm!Ids
<1>1. almRecords \in Seq(AlarmRecord) /\ almJournal \in Seq(Alarm!Lines)
  BY DEF Alarm!TypeOK, AlarmRecord
<1>2. Journaled \in Seq(AlarmRecord)
  BY <1>1, ReadType DEF Journaled
<1>3. ASSUME NEW s \in Seq(AlarmRecord) PROVE IdsOf(s) \subseteq Alarm!Ids
  <2>1. ASSUME NEW i \in DOMAIN s PROVE s[i].id \in Alarm!Ids
    <3>1. s[i] \in AlarmRecord
      OBVIOUS
    <3> QED
      BY <3>1 DEF AlarmRecord
  <2> QED
    BY <2>1 DEF IdsOf
<1> QED
  BY <1>1, <1>2, <1>3 DEF Recorded

LEMMA AlarmBegins == Alarm!Init => AlarmInv
<1> SUFFICES ASSUME Alarm!Init PROVE AlarmInv
  OBVIOUS
<1> USE AlarmConstants
<1>1. Alarm!TypeOK
  BY DEF Alarm!Init, Alarm!TypeOK, Alarm!Lines
<1>2. Journaled = <<>> /\ almRecords = <<>>
  BY ReadNothing DEF Alarm!Init, Journaled
<1>3. OneFlight
  BY DEF Alarm!Init, OneFlight, InFlight
<1>4. RecordsKept
  BY <1>2 DEF RecordsKept, Distinct, Mirrors, Recorded, IdsOf
<1> QED
  BY <1>1, <1>3, <1>4 DEF AlarmInv

\* Events that move leave the records as they are.
LEMMA EventMoves ==
  ASSUME AlarmInv, Alarm!TypeOK', OneFlight',
         UNCHANGED <<almRecords, almJournal, almMissing>>, almNextId' >= almNextId,
         \A id \in Alarm!Ids : InFlight(id)' => InFlight(id) \/ id = almNextId
  PROVE  AlarmInv'
<1>1. almNextId \in Nat /\ almNextId' \in Nat
  BY AlarmConstants DEF AlarmInv, Alarm!TypeOK
<1>2. Journaled' = Journaled /\ Recorded' = Recorded /\ Whole(almJournal)' = Whole(almJournal)
  BY DEF Journaled, Recorded, IdsOf, Whole
<1>3. ASSUME RecordsKept PROVE RecordsKept'
  <2>1. ASSUME NEW id \in Recorded PROVE id < almNextId' /\ ~InFlight(id)'
    <3>1. id \in Alarm!Ids /\ id < almNextId /\ ~InFlight(id)
      BY <1>3, AlarmTypes DEF AlarmInv, RecordsKept
    <3>2. id \in Nat /\ id # almNextId
      BY <1>1, <3>1, AlarmConstants
    <3> QED
      BY <1>1, <3>1, <3>2
  <2> QED
    BY <1>2, <1>3, <2>1 DEF RecordsKept, Distinct, Mirrors
<1> QED
  BY <1>2, <1>3 DEF AlarmInv

LEMMA PublishStep ==
  ASSUME AlarmInv, NEW p \in Publishers, Alarm!Publish(p)
  PROVE  AlarmInv'
<1> USE AlarmConstants
<1>1. /\ almPublishing \in [Publishers -> Nat] /\ almNextId \in Nat /\ almNextId \in Alarm!Ids
      /\ almPublishing' = [almPublishing EXCEPT ![p] = almNextId] /\ almNextId' = almNextId + 1
      /\ UNCHANGED <<almPosted, almActing, almRecords, almJournal, almMissing, almFaults>>
      /\ almPosted \in Seq(Alarm!Ids) /\ almActing \in Nat
  BY DEF AlarmInv, Alarm!TypeOK, Alarm!Publish, Alarm!fileVars
<1>2. Alarm!TypeOK'
  BY <1>1 DEF AlarmInv, Alarm!TypeOK
<1>3. ~InFlight(almNextId)
  BY <1>1 DEF AlarmInv, OneFlight
<1>4. \A id \in Alarm!Ids : InFlight(id)' => InFlight(id) \/ id = almNextId
  BY <1>1 DEF InFlight
<1>5. OneFlight'
  <2>1. /\ \A q \in Publishers : almPublishing[q] # almNextId
        /\ \A i \in DOMAIN almPosted : almPosted[i] # almNextId
        /\ almActing # almNextId
    BY <1>3 DEF InFlight
  <2>2. \A id \in Alarm!Ids : InFlight(id)' => id < almNextId'
    <3>1. \A id \in Alarm!Ids : InFlight(id) => id < almNextId
      BY DEF AlarmInv, OneFlight
    <3> QED
      BY <1>1, <1>4, <3>1
  <2>3. \A q \in Publishers : almPublishing'[q] = IF q = p THEN almNextId ELSE almPublishing[q]
    BY <1>1
  <2> QED
    BY <1>1, <2>1, <2>2, <2>3 DEF AlarmInv, OneFlight
<1> QED
  BY <1>1, <1>2, <1>4, <1>5, EventMoves

LEMMA PostStep ==
  ASSUME AlarmInv, NEW p \in Publishers, Alarm!Post(p)
  PROVE  AlarmInv'
<1> USE AlarmConstants
<1>1. /\ almPublishing \in [Publishers -> Nat] /\ almNextId \in Nat
      /\ almPublishing[p] # 0 /\ almPublishing[p] \in Alarm!Ids
      /\ almPublishing' = [almPublishing EXCEPT ![p] = 0]
      /\ almPosted' = Append(almPosted, almPublishing[p])
      /\ UNCHANGED <<almNextId, almActing, almRecords, almJournal, almMissing, almFaults>>
      /\ almPosted \in Seq(Alarm!Ids) /\ almActing \in Nat
  BY DEF AlarmInv, Alarm!TypeOK, Alarm!Post, Alarm!fileVars
<1>2. Alarm!TypeOK'
  BY <1>1 DEF AlarmInv, Alarm!TypeOK
<1>3. /\ \A q \in Publishers : almPublishing'[q] = IF q = p THEN 0 ELSE almPublishing[q]
      /\ DOMAIN almPosted' = 1 .. Len(almPosted) + 1 /\ DOMAIN almPosted = 1 .. Len(almPosted)
      /\ Len(almPosted) \in Nat
      /\ \A i \in DOMAIN almPosted : almPosted'[i] = almPosted[i]
      /\ almPosted'[Len(almPosted) + 1] = almPublishing[p]
  BY <1>1
<1>4. \A i \in DOMAIN almPosted' : i \in DOMAIN almPosted \/ i = Len(almPosted) + 1
  BY <1>3
<1>5. \A id \in Alarm!Ids : InFlight(id)' => InFlight(id)
  BY <1>1, <1>3, <1>4 DEF InFlight
<1>6. OneFlight'
  <2>1. \A id \in Alarm!Ids : InFlight(id)' => id < almNextId'
    BY <1>1, <1>5 DEF AlarmInv, OneFlight
  <2>2. \A i, j \in DOMAIN almPosted' : almPosted'[i] = almPosted'[j] => i = j
    BY <1>3, <1>4 DEF AlarmInv, OneFlight
  <2>3. \A q \in Publishers, i \in DOMAIN almPosted' : almPublishing'[q] # almPosted'[i]
    <3> SUFFICES ASSUME NEW q \in Publishers, NEW i \in DOMAIN almPosted'
                 PROVE  almPublishing'[q] # almPosted'[i]
      OBVIOUS
    <3>1. CASE i = Len(almPosted) + 1
      BY <1>1, <1>3, <3>1 DEF AlarmInv, OneFlight
    <3>2. CASE i \in DOMAIN almPosted
      <4>1. almPosted[i] # 0
        BY <1>1, <3>2
      <4> QED
        BY <1>3, <3>2, <4>1 DEF AlarmInv, OneFlight
    <3> QED
      BY <1>4, <3>1, <3>2
  <2>4. \A i \in DOMAIN almPosted' : almPosted'[i] # almActing'
    BY <1>1, <1>3, <1>4 DEF AlarmInv, OneFlight
  <2> QED
    BY <1>1, <1>3, <2>1, <2>2, <2>3, <2>4 DEF AlarmInv, OneFlight
<1> QED
  BY <1>1, <1>2, <1>5, <1>6, EventMoves

LEMMA ProcessStep ==
  ASSUME AlarmInv, Alarm!ProcessEvent
  PROVE  AlarmInv'
<1> USE AlarmConstants
<1>1. /\ almPublishing \in [Publishers -> Nat] /\ almNextId \in Nat /\ almActing = 0
      /\ almPosted # <<>> /\ almPosted' = Tail(almPosted)
      /\ almActing' \in {0, almPosted[1]}
      /\ UNCHANGED <<almNextId, almPublishing, almRecords, almJournal, almMissing, almFaults>>
      /\ almPosted \in Seq(Alarm!Ids)
  BY DEF AlarmInv, Alarm!TypeOK, Alarm!ProcessEvent, Alarm!fileVars
<1>2. /\ DOMAIN almPosted = 1 .. Len(almPosted) /\ Len(almPosted) \in Nat \ {0}
      /\ DOMAIN almPosted' = 1 .. Len(almPosted) - 1
      /\ \A i \in DOMAIN almPosted' : almPosted'[i] = almPosted[i + 1] /\ i + 1 \in DOMAIN almPosted
      /\ 1 \in DOMAIN almPosted
  BY <1>1
<1>3. Alarm!TypeOK'
  BY <1>1, <1>2 DEF AlarmInv, Alarm!TypeOK
<1>4. \A id \in Alarm!Ids : InFlight(id)' => InFlight(id)
  BY <1>1, <1>2 DEF InFlight
<1>5. OneFlight'
  <2>1. \A i, j \in DOMAIN almPosted' : almPosted'[i] = almPosted'[j] => i = j
    <3> TAKE i, j \in DOMAIN almPosted'
    <3>1. almPosted'[i] = almPosted'[j] => i + 1 = j + 1
      BY <1>2 DEF AlarmInv, OneFlight
    <3> QED
      BY <1>2, <3>1
  <2>2. \A i \in DOMAIN almPosted' : almPosted'[i] # almActing'
    <3> TAKE i \in DOMAIN almPosted'
    <3>1. almPosted[i + 1] # almPosted[1]
      BY <1>2 DEF AlarmInv, OneFlight
    <3>2. almPosted[i + 1] # 0
      BY <1>1, <1>2
    <3> QED
      BY <1>1, <1>2, <3>1, <3>2
  <2>3. \A id \in Alarm!Ids : InFlight(id)' => id < almNextId'
    BY <1>1, <1>4 DEF AlarmInv, OneFlight
  <2> QED
    BY <1>1, <1>2, <2>1, <2>2, <2>3 DEF AlarmInv, OneFlight
<1> QED
  BY <1>1, <1>3, <1>4, <1>5, EventMoves

LEMMA ThrowStep ==
  ASSUME AlarmInv, Alarm!ActionThrows
  PROVE  AlarmInv'
<1> USE AlarmConstants
<1>1. /\ almActing' = 0 /\ almNextId \in Nat /\ almPosted \in Seq(Alarm!Ids)
      /\ UNCHANGED <<almNextId, almPublishing, almPosted, almRecords, almJournal, almMissing,
                     almFaults>>
  BY DEF AlarmInv, Alarm!TypeOK, Alarm!ActionThrows, Alarm!fileVars
<1>2. Alarm!TypeOK'
  BY <1>1 DEF AlarmInv, Alarm!TypeOK
<1>3. \A id \in Alarm!Ids : InFlight(id)' => InFlight(id)
  BY <1>1 DEF InFlight
<1>4. OneFlight'
  BY <1>1, <1>3 DEF AlarmInv, OneFlight
<1> QED
  BY <1>1, <1>2, <1>3, <1>4, EventMoves

\* What an append makes of a journal that is whole behind it.
LEMMA WriteFacts ==
  ASSUME Alarm!TypeOK, NEW line \in GoodLines, Alarm!Write(line)
  PROVE  /\ almJournal' \in Seq(Alarm!Lines) /\ almMissing' \subseteq Alarm!Lines
         /\ almFaults' \in 0 .. MaxFaults
         /\ Whole(almJournal)' =>
              /\ Whole(almJournal)
              /\ \/ /\ Journaled' = Alarm!ReadLine(Journaled, line)
                    /\ almMissing' = almMissing \ {line}
                 \/ Journaled' = Journaled /\ almMissing' = almMissing \cup {line}
<1>1. /\ almJournal \in Seq(Alarm!Lines) /\ almMissing \subseteq Alarm!Lines
      /\ almFaults \in 0 .. MaxFaults /\ MaxFaults \in Nat
      /\ line \in Alarm!Lines /\ Alarm!Torn \in Alarm!Lines
  BY AlarmConstants DEF Alarm!TypeOK, GoodLines, Alarm!Lines
<1>2. ASSUME NEW x, x \in Alarm!Lines, almJournal' = Append(almJournal, x)
      PROVE  Whole(almJournal)' => Whole(almJournal) /\ x # Alarm!Torn
  <2>1. Len(almJournal) \in Nat /\ DOMAIN almJournal = 1 .. Len(almJournal)
        /\ DOMAIN almJournal' = 1 .. Len(almJournal) + 1
        /\ almJournal'[Len(almJournal) + 1] = x
        /\ \A i \in DOMAIN almJournal : almJournal'[i] = almJournal[i]
    BY <1>1, <1>2
  <2> QED
    BY <2>1 DEF Whole, Alarm!ToSet
<1>3. CASE almJournal' = Append(almJournal, line) /\ almMissing' = almMissing \ {line}
           /\ almFaults' = almFaults
  <2>1. Whole(almJournal)' => Journaled' = Alarm!ReadLine(Journaled, line)
    BY <1>1, <1>2, <1>3, ReadAppend DEF Journaled
  <2> QED
    BY <1>1, <1>2, <1>3, <2>1
<1>4. CASE /\ almFaults < MaxFaults /\ almFaults' = almFaults + 1
           /\ almMissing' = almMissing \cup {line} /\ almJournal' = almJournal
  BY <1>1, <1>4 DEF Journaled, Whole
<1>5. CASE /\ almFaults < MaxFaults /\ almFaults' = almFaults + 1
           /\ almMissing' = almMissing \cup {line}
           /\ almJournal' = Append(almJournal, Alarm!Torn)
  BY <1>1, <1>2, <1>5
<1> QED
  BY <1>3, <1>4, <1>5 DEF Alarm!Write

LEMMA RecordStep ==
  ASSUME AlarmInv, Alarm!RecordEvent
  PROVE  AlarmInv'
<1> DEFINE r == [id |-> almActing, acked |-> FALSE]
           line == <<"E", almActing>>
           all == Append(almRecords, r)
<1> USE AlarmConstants
<1>1. /\ almActing # 0 /\ almActing \in Alarm!Ids /\ almActing' = 0
      /\ almRecords' = Alarm!LastOf(all, MaxRecords)
      /\ Alarm!Write(line) /\ Alarm!TypeOK
      /\ UNCHANGED <<almNextId, almPublishing, almPosted>>
  BY DEF AlarmInv, Alarm!TypeOK, Alarm!RecordEvent
<1>2. r \in AlarmRecord /\ r.id = almActing /\ line \in GoodLines /\ r.acked = FALSE
  BY <1>1 DEF AlarmRecord, GoodLines
<1>3. /\ almRecords \in Seq(AlarmRecord) /\ Journaled \in Seq(AlarmRecord)
      /\ Recorded \subseteq Alarm!Ids
  BY <1>1, AlarmTypes
<1> HIDE DEF r
<1>4. all \in Seq(AlarmRecord)
  BY <1>2, <1>3
<1> HIDE DEF all
<1>5. almRecords' \in Seq(AlarmRecord) /\ Len(almRecords') <= MaxRecords
  <2>1. /\ almRecords' \in Seq(AlarmRecord)
        /\ Len(almRecords') = IF Len(all) > MaxRecords THEN MaxRecords ELSE Len(all)
    BY <1>1, <1>4, LastOfFacts
  <2>2. Len(all) \in Nat
    BY <1>4
  <2> QED
    BY <2>1, <2>2
<1>6. /\ almJournal' \in Seq(Alarm!Lines) /\ almMissing' \subseteq Alarm!Lines
      /\ almFaults' \in 0 .. MaxFaults
      /\ Whole(almJournal)' =>
              /\ Whole(almJournal)
              /\ \/ /\ Journaled' = Alarm!ReadLine(Journaled, line)
                    /\ almMissing' = almMissing \ {line}
                 \/ Journaled' = Journaled /\ almMissing' = almMissing \cup {line}
  BY <1>1, <1>2, WriteFacts
<1>7. Alarm!TypeOK'
  BY <1>1, <1>5, <1>6 DEF Alarm!TypeOK, AlarmRecord
<1>8. /\ \A id \in Alarm!Ids : InFlight(id)' => InFlight(id) /\ id # almActing
      /\ InFlight(almActing) /\ almActing < almNextId
  <2>1. InFlight(almActing)
    BY DEF InFlight
  <2>2. almActing < almNextId
    BY <1>1, <2>1 DEF AlarmInv, OneFlight
  <2>3. \A p \in Publishers : almPublishing[p] # almActing
    BY <1>1 DEF AlarmInv, OneFlight
  <2>4. \A i \in DOMAIN almPosted : almPosted[i] # almActing
    BY DEF AlarmInv, OneFlight
  <2> QED
    BY <1>1, <2>1, <2>2, <2>3, <2>4 DEF InFlight
<1>9. OneFlight'
  <2>1. \A id \in Alarm!Ids : InFlight(id)' => id < almNextId'
    BY <1>1, <1>8 DEF AlarmInv, OneFlight
  <2>2. \A i \in DOMAIN almPosted : almPosted[i] # 0
    BY <1>1 DEF Alarm!TypeOK
  <2> QED
    BY <1>1, <2>1, <2>2 DEF AlarmInv, OneFlight
<1>10. ASSUME Whole(almJournal)' PROVE RecordsKept'
  <2>1. RecordsKept
    BY <1>6, <1>10 DEF AlarmInv
  <2>2. almActing \notin Recorded
    BY <1>8, <2>1 DEF RecordsKept
  <2>3. ASSUME NEW s \in Seq(AlarmRecord), Distinct(s), almActing \notin IdsOf(s)
        PROVE  Distinct(Append(s, r)) /\ IdsOf(Append(s, r)) = IdsOf(s) \cup {almActing}
    <3> DEFINE t == Append(s, r)
    <3>1. /\ DOMAIN s = 1 .. Len(s) /\ DOMAIN t = 1 .. Len(s) + 1 /\ Len(s) \in Nat
          /\ t[Len(s) + 1] = r /\ \A i \in DOMAIN s : t[i] = s[i]
      BY <1>2
    <3> HIDE DEF t
    <3>2. \A i \in DOMAIN t : i \in DOMAIN s \/ i = Len(s) + 1
      BY <3>1
    <3>3. \A i \in DOMAIN s : t[i].id = s[i].id /\ s[i].id # almActing
      BY <2>3, <3>1 DEF IdsOf
    <3>4. \A i \in DOMAIN s : i \in DOMAIN t
      BY <3>1
    <3>5. t[Len(s) + 1].id = almActing /\ Len(s) + 1 \in DOMAIN t
      BY <1>2, <3>1
    <3>6. Distinct(t)
      BY <2>3, <3>2, <3>3, <3>5 DEF Distinct
    <3>7. IdsOf(t) = IdsOf(s) \cup {almActing}
      BY <3>2, <3>3, <3>4, <3>5 DEF IdsOf
    <3> QED
      BY <3>6, <3>7 DEF t
  <2>4. Distinct(all) /\ IdsOf(all) = IdsOf(almRecords) \cup {almActing}
    <3>1. almActing \notin IdsOf(almRecords) /\ Distinct(almRecords)
      BY <2>1, <2>2 DEF RecordsKept, Recorded
    <3> QED
      BY <1>3, <2>3, <3>1 DEF all
  <2>5. /\ Distinct(almRecords') /\ IdsOf(almRecords') \subseteq IdsOf(almRecords) \cup {almActing}
    BY <1>1, <1>4, <2>4, LastDistinct
  <2>6. CASE Journaled' = Alarm!ReadLine(Journaled, line) /\ almMissing' = almMissing \ {line}
    <3>1. Journaled' = Append(Journaled, r)
      BY <2>6 DEF Alarm!ReadLine, r
    <3>2. Distinct(Journaled') /\ IdsOf(Journaled') = IdsOf(Journaled) \cup {almActing}
      <4>1. almActing \notin IdsOf(Journaled) /\ Distinct(Journaled)
        BY <2>1, <2>2 DEF RecordsKept, Recorded
      <4> QED
        BY <1>3, <2>3, <3>1, <4>1
    <3>3. Mirrors(all, Journaled', almMissing')
      <4>1. r.id \notin IdsOf(almRecords) /\ Mirrors(almRecords, Journaled, almMissing)
        BY <1>2, <2>1, <2>2 DEF RecordsKept, Recorded
      <4>2. Mirrors(Append(almRecords, r), Append(Journaled, r), almMissing \ {<<"E", r.id>>})
        BY <1>2, <1>3, <4>1, MirrorsWritten
      <4> QED
        BY <1>2, <2>6, <3>1, <4>2 DEF all
    <3>4. Mirrors(almRecords', Journaled', almMissing')
      <4>1. Journaled' \in Seq(AlarmRecord)
        BY <1>2, <1>3, <3>1
      <4> QED
        BY <1>1, <1>4, <3>3, <4>1, MirrorsLast
    <3>5. Recorded' \subseteq Recorded \cup {almActing}
      BY <2>5, <3>2 DEF Recorded, IdsOf
    <3> QED
      BY <1>1, <1>3, <1>8, <2>1, <2>5, <3>2, <3>4, <3>5 DEF RecordsKept, Distinct, Mirrors
  <2>7. CASE Journaled' = Journaled /\ almMissing' = almMissing \cup {line}
    <3>1. Distinct(Journaled') /\ IdsOf(Journaled') = IdsOf(Journaled)
      BY <2>1, <2>7 DEF RecordsKept
    <3>2. Mirrors(all, Journaled', almMissing')
      <4>1. Mirrors(Append(almRecords, r), Journaled, almMissing \cup {<<"E", r.id>>})
        BY <1>2, <1>3, <2>1, MirrorsUnwritten DEF RecordsKept
      <4> QED
        BY <1>2, <2>7, <4>1 DEF all
    <3>3. Mirrors(almRecords', Journaled', almMissing')
      BY <1>1, <1>3, <1>4, <2>7, <3>2, MirrorsLast
    <3>4. Recorded' \subseteq Recorded \cup {almActing}
      BY <2>5, <3>1 DEF Recorded, IdsOf
    <3> QED
      BY <1>1, <1>3, <1>8, <2>1, <2>5, <3>1, <3>3, <3>4 DEF RecordsKept, Distinct, Mirrors
  <2> QED
    BY <1>6, <1>10, <2>6, <2>7
<1> QED
  BY <1>7, <1>9, <1>10 DEF AlarmInv

LEMMA AcknowledgeStep ==
  ASSUME AlarmInv, NEW n, Alarm!Acknowledge(n)
  PROVE  AlarmInv'
<1> DEFINE K == [almRecords EXCEPT ![n].acked = TRUE]
           line == <<"A", almRecords[n].id>>
<1> USE AlarmConstants
<1>1. /\ n \in DOMAIN almRecords /\ almRecords' = K /\ Alarm!Write(line) /\ Alarm!TypeOK
      /\ UNCHANGED <<almNextId, almPublishing, almPosted, almActing>>
  BY DEF AlarmInv, Alarm!Acknowledge
<1>2. /\ almRecords \in Seq(AlarmRecord) /\ Journaled \in Seq(AlarmRecord)
      /\ Recorded \subseteq Alarm!Ids
  BY <1>1, AlarmTypes
<1>3. almRecords[n] \in AlarmRecord
  BY <1>1, <1>2
<1>4. line \in GoodLines /\ almRecords[n].id \in Alarm!Ids
  BY <1>3 DEF AlarmRecord, GoodLines
<1>5. /\ K \in Seq(AlarmRecord) /\ Len(K) = Len(almRecords) /\ DOMAIN K = DOMAIN almRecords
      /\ \A i \in DOMAIN almRecords : K[i].id = almRecords[i].id
  <2>1. [almRecords[n] EXCEPT !.acked = TRUE] \in AlarmRecord
    BY <1>3 DEF AlarmRecord
  <2>2. K = [almRecords EXCEPT ![n] = [almRecords[n] EXCEPT !.acked = TRUE]]
    OBVIOUS
  <2>3. K \in Seq(AlarmRecord) /\ Len(K) = Len(almRecords) /\ DOMAIN K = DOMAIN almRecords
    BY <1>1, <1>2, <2>1, <2>2
  <2>4. ASSUME NEW i \in DOMAIN almRecords PROVE K[i].id = almRecords[i].id
    <3>1. almRecords[i] \in AlarmRecord
      BY <1>2
    <3>2. CASE i = n
      BY <1>3, <3>2 DEF AlarmRecord
    <3>3. CASE i # n
      BY <3>3
    <3> QED
      BY <3>2, <3>3
  <2> QED
    BY <2>3, <2>4
<1> HIDE DEF K
<1>6. /\ almJournal' \in Seq(Alarm!Lines) /\ almMissing' \subseteq Alarm!Lines
      /\ almFaults' \in 0 .. MaxFaults
      /\ Whole(almJournal)' =>
              /\ Whole(almJournal)
              /\ \/ /\ Journaled' = Alarm!ReadLine(Journaled, line)
                    /\ almMissing' = almMissing \ {line}
                 \/ Journaled' = Journaled /\ almMissing' = almMissing \cup {line}
  BY <1>1, <1>4, WriteFacts
<1>7. Alarm!TypeOK'
  BY <1>1, <1>5, <1>6 DEF Alarm!TypeOK, AlarmRecord
<1>8. OneFlight' /\ \A id : InFlight(id)' = InFlight(id)
  <2>1. \A id : InFlight(id)' = InFlight(id)
    BY <1>1 DEF InFlight
  <2> QED
    BY <1>1, <2>1 DEF AlarmInv, OneFlight
<1>9. ASSUME Whole(almJournal)' PROVE RecordsKept'
  <2>1. RecordsKept
    BY <1>6, <1>9 DEF AlarmInv
  <2>2. Distinct(K) /\ IdsOf(K) = IdsOf(almRecords)
    BY <1>5, <2>1 DEF Distinct, IdsOf, RecordsKept
  <2>3. LET R == Alarm!ReadLine(Journaled, line) IN
        Distinct(R) /\ IdsOf(R) = IdsOf(Journaled)
    <3> DEFINE R == Alarm!ReadLine(Journaled, line)
    <3>1. R = [i \in DOMAIN Journaled |->
                 [Journaled[i] EXCEPT !.acked = Journaled[i].acked
                                                \/ Journaled[i].id = line[2]]]
      BY DEF Alarm!ReadLine
    <3>2. ASSUME NEW i \in DOMAIN Journaled PROVE R[i].id = Journaled[i].id
      <4>1. Journaled[i] \in AlarmRecord
        BY <1>2
      <4> DEFINE a == Journaled[i].acked \/ Journaled[i].id = line[2]
      <4>2. R[i] = [Journaled[i] EXCEPT !.acked = a]
        BY <3>1
      <4> HIDE DEF a, R
      <4> QED
        BY <4>1, <4>2 DEF AlarmRecord
    <3>3. DOMAIN R = DOMAIN Journaled
      BY <3>1
    <3>4. Distinct(Journaled)
      BY <2>1 DEF RecordsKept
    <3> HIDE DEF R
    <3>5. Distinct(R)
      BY <3>2, <3>3, <3>4 DEF Distinct
    <3>6. IdsOf(R) = IdsOf(Journaled)
      BY <3>2, <3>3 DEF IdsOf
    <3> QED
      BY <3>5, <3>6 DEF R
  <2>4. /\ Mirrors(K, Alarm!ReadLine(Journaled, line), almMissing \ {line})
        /\ Mirrors(K, Journaled, almMissing \cup {line})
    BY <1>1, <1>2, <2>1, MirrorsAcknowledged DEF RecordsKept, K
  <2>5. /\ Distinct(Journaled') /\ IdsOf(Journaled') = IdsOf(Journaled)
        /\ Mirrors(K, Journaled', almMissing')
    BY <1>6, <1>9, <2>1, <2>3, <2>4 DEF RecordsKept
  <2>6. Recorded' = Recorded
    BY <1>1, <2>2, <2>5 DEF Recorded, IdsOf
  <2> QED
    BY <1>1, <1>8, <2>1, <2>2, <2>5, <2>6 DEF RecordsKept, Distinct, Mirrors
<1> QED
  BY <1>7, <1>8, <1>9 DEF AlarmInv

LEMMA CrashStep ==
  ASSUME AlarmInv, Alarm!Crash
  PROVE  AlarmInv'
<1> USE AlarmConstants
<1>1. /\ almRecords' = Alarm!LastOf(Journaled, MaxRecords) /\ Alarm!TypeOK
      /\ almPublishing' = [p \in Publishers |-> 0] /\ almPosted' = <<>> /\ almActing' = 0
      /\ UNCHANGED <<almNextId, almJournal, almMissing, almFaults>>
  BY DEF AlarmInv, Alarm!Crash, Alarm!Loaded, Journaled, Alarm!fileVars
<1>2. Journaled \in Seq(AlarmRecord) /\ Recorded \subseteq Alarm!Ids /\ Journaled' = Journaled
  BY <1>1, AlarmTypes DEF Journaled
<1>3. almRecords' \in Seq(AlarmRecord) /\ Len(almRecords') <= MaxRecords
  <2>1. /\ almRecords' \in Seq(AlarmRecord)
        /\ Len(almRecords') = IF Len(Journaled) > MaxRecords THEN MaxRecords ELSE Len(Journaled)
    BY <1>1, <1>2, LastOfFacts
  <2>2. Len(Journaled) \in Nat
    BY <1>2
  <2> QED
    BY <2>1, <2>2
<1>4. Alarm!TypeOK'
  BY <1>1, <1>3 DEF Alarm!TypeOK, AlarmRecord
<1>5. \A id \in Alarm!Ids : ~InFlight(id)'
  BY <1>1 DEF InFlight
<1>6. OneFlight'
  BY <1>1, <1>5 DEF OneFlight
<1>7. ASSUME Whole(almJournal)' PROVE RecordsKept'
  <2>1. RecordsKept
    BY <1>1, <1>7 DEF AlarmInv, Whole
  <2>2. Distinct(almRecords') /\ IdsOf(almRecords') \subseteq IdsOf(Journaled)
    BY <1>1, <1>2, <2>1, LastDistinct DEF RecordsKept
  <2>3. Mirrors(almRecords', Journaled, almMissing)
    BY <1>1, <1>2, MirrorsSelf, MirrorsLast
  <2>4. Recorded' \subseteq Recorded
    BY <1>2, <2>2 DEF Recorded, IdsOf
  <2> QED
    BY <1>1, <1>2, <1>5, <2>1, <2>2, <2>3, <2>4 DEF RecordsKept, Distinct, Mirrors
<1> QED
  BY <1>4, <1>6, <1>7 DEF AlarmInv

LEMMA AlarmStays == AlarmInv /\ UNCHANGED alarmVars => AlarmInv'
<1> SUFFICES ASSUME AlarmInv, UNCHANGED alarmVars PROVE AlarmInv'
  OBVIOUS
<1>1. UNCHANGED <<almNextId, almPublishing, almPosted, almActing, almRecords, almJournal,
                  almMissing, almFaults>>
  BY DEF alarmVars
<1>2. Alarm!TypeOK'
  BY <1>1 DEF AlarmInv, Alarm!TypeOK
<1>3. (\A id : InFlight(id)' = InFlight(id)) /\ OneFlight'
  BY <1>1 DEF AlarmInv, OneFlight, InFlight
<1> QED
  BY <1>1, <1>2, <1>3, EventMoves, AlarmConstants DEF AlarmInv, Alarm!TypeOK

LEMMA AlarmStep == AlarmInv /\ Alarm!Next => AlarmInv'
BY PublishStep, PostStep, ProcessStep, ThrowStep, RecordStep, AcknowledgeStep, CrashStep
   DEF Alarm!Next

\* What mirrors the journal is found at its end by the next process.
LEMMA AlarmRight == AlarmInv => Alarm!Recoverable
<1> SUFFICES ASSUME AlarmInv, Whole(almJournal), NEW i \in DOMAIN almRecords,
                    <<"E", almRecords[i].id>> \notin almMissing
             PROVE  \E k \in DOMAIN Alarm!Loaded(almJournal) :
                      LET q == Alarm!Loaded(almJournal)[k] IN
                        /\ q.id = almRecords[i].id
                        /\ q.acked = almRecords[i].acked \/ <<"A", almRecords[i].id>> \in almMissing
  BY DEF Alarm!Recoverable, Alarm!Recovered, Whole
<1> USE AlarmConstants
<1>1. /\ almRecords \in Seq(AlarmRecord) /\ Journaled \in Seq(AlarmRecord)
      /\ Len(almRecords) <= MaxRecords
  BY AlarmTypes DEF AlarmInv, Alarm!TypeOK
<1>2. PICK k \in DOMAIN Journaled :
        /\ Journaled[k].id = almRecords[i].id
        /\ Journaled[k].acked = almRecords[i].acked \/ <<"A", almRecords[i].id>> \in almMissing
        /\ Len(Journaled) - k <= Len(almRecords) - i
  BY DEF AlarmInv, RecordsKept, Mirrors
<1> DEFINE l == Alarm!LastOf(Journaled, MaxRecords)
           d == Len(Journaled) - Len(l)
<1>3. /\ l \in Seq(AlarmRecord)
      /\ Len(l) = IF Len(Journaled) > MaxRecords THEN MaxRecords ELSE Len(Journaled)
      /\ \A j \in 1 .. Len(l) : l[j] = Journaled[j + d]
  BY <1>1, LastOfFacts
<1>4. Alarm!Loaded(almJournal) = l
  BY DEF Alarm!Loaded, Journaled
<1> HIDE DEF l
<1>5. /\ Len(Journaled) \in Nat /\ Len(almRecords) \in Nat /\ DOMAIN l = 1 .. Len(l)
      /\ i \in 1 .. Len(almRecords) /\ k \in 1 .. Len(Journaled) /\ Len(l) \in Nat
  BY <1>1, <1>2, <1>3
<1>6. k - d \in DOMAIN l
  <2>1. Len(Journaled) - k <= MaxRecords - 1
    BY <1>1, <1>2, <1>5
  <2>2. CASE Len(Journaled) > MaxRecords
    BY <1>3, <1>5, <2>1, <2>2
  <2>3. CASE ~(Len(Journaled) > MaxRecords)
    BY <1>3, <1>5, <2>3
  <2> QED
    BY <2>2, <2>3
<1>7. l[k - d] = Journaled[k]
  <2>1. l[k - d] = Journaled[(k - d) + d]
    BY <1>3, <1>5, <1>6
  <2>2. (k - d) + d = k
    BY <1>5
  <2> QED
    BY <2>1, <2>2
<1> QED
  BY <1>2, <1>4, <1>6, <1>7

-----------------------------------------------------------------------------
(* The tracker. *)

TrackType == [center : Analysis!Positions, previous : Analysis!Positions,
              hasPrevious : BOOLEAN, missed : 0 .. maximumMissedFrames]

\* Tracks have numbers that were given out, and are dropped in time.
TracksInv ==
  /\ ivaNextId \in Nat \ {0}
  /\ DOMAIN ivaTracks \subseteq 1 .. ivaNextId - 1
  /\ ivaTracks \in [DOMAIN ivaTracks -> TrackType]

LEMMA IvaConstants ==
  /\ Width \in Nat /\ Border \in Int /\ Reach \in Nat
  /\ maximumMissedFrames \in Nat /\ dwellTime \in Nat \ {0} /\ MaxTargets \in Nat
  /\ Analysis!Positions = 0 .. Width - 1
BY ServicesAssumption DEF Analysis!Positions

\* The detections of a frame are numbered.
LEMMA DetectionFacts ==
  ASSUME NEW detections \in Analysis!Detections
  PROVE  /\ Len(detections) \in Nat /\ DOMAIN detections = 1 .. Len(detections)
         /\ detections \in Seq(Analysis!Positions)
         /\ \A i \in DOMAIN detections : detections[i] \in Analysis!Positions
         /\ IsFiniteSet(DOMAIN detections)
         /\ Cardinality(DOMAIN detections) = Len(detections)
<1>1. PICK n \in 0 .. MaxTargets : detections \in [1 .. n -> Analysis!Positions]
  BY DEF Analysis!Detections
<1>2. n \in Nat
  BY IvaConstants
<1>3. detections \in Seq(Analysis!Positions) /\ DOMAIN detections = 1 .. n
  BY <1>1, <1>2, SeqDef
<1>4. Len(detections) = n
  BY <1>2, <1>3
<1>5. IsFiniteSet(1 .. n) /\ Cardinality(1 .. n) = n
  BY <1>2, FS_Interval
<1> QED
  BY <1>1, <1>2, <1>3, <1>4, <1>5

LEMMA DistanceFacts ==
  ASSUME NEW p \in Analysis!Positions, NEW q \in Analysis!Positions
  PROVE  Analysis!Distance(p, q) \in Nat
BY IvaConstants DEF Analysis!Distance

\* Where there are candidates, one of them is the best.
LEMMA BestFacts ==
  ASSUME NEW track, track.center \in Analysis!Positions,
         NEW detections \in Analysis!Detections, NEW used,
         Analysis!Candidates(track, detections, used) # {}
  PROVE  Analysis!Best(track, detections, used)
           \in Analysis!Candidates(track, detections, used)
<1> DEFINE c == Analysis!Candidates(track, detections, used)
           D(i) == Analysis!Distance(track.center, detections[i])
           Is(i) == \A j \in c : D(i) < D(j) \/ (D(i) = D(j) /\ i >= j)
           T == {D(i) : i \in c}
           n == Len(detections)
<1>1. c \subseteq 1 .. n /\ n \in Nat
  BY DetectionFacts DEF Analysis!Candidates
<1>2. \A i \in c : D(i) \in Nat
  BY DetectionFacts, DistanceFacts DEF Analysis!Candidates
<1>3. Analysis!Best(track, detections, used) = CHOOSE i \in c : Is(i)
  BY DEF Analysis!Best
<1> HIDE DEF c, D
<1>4. PICK d \in T : \A e \in T : d <= e
  BY <1>2, Least, c # {} DEF c
<1> DEFINE U == {n - i : i \in {i \in c : D(i) = d}}
<1>5. U \subseteq Nat /\ U # {}
  BY <1>1, <1>4
<1>6. PICK m \in U : \A e \in U : m <= e
  BY <1>5, Least
<1>7. PICK i \in c : D(i) = d /\ m = n - i
  BY <1>6
<1>8. Is(i)
  <2> SUFFICES ASSUME NEW j \in c PROVE D(i) < D(j) \/ (D(i) = D(j) /\ i >= j)
    OBVIOUS
  <2>1. d <= D(j) /\ D(j) \in Nat /\ d \in Nat
    BY <1>2, <1>4
  <2>2. CASE D(j) = d
    <3>1. n - i <= n - j
      BY <1>6, <1>7, <2>2
    <3> QED
      BY <1>1, <1>7, <2>2, <3>1
  <2> QED
    BY <1>7, <2>1, <2>2
<1>9. (CHOOSE x \in c : Is(x)) \in c
  <2> HIDE DEF Is
  <2> QED
    BY <1>8
<1> QED
  BY <1>3, <1>9 DEF c

-----------------------------------------------------------------------------
(* The detections that are used. *)

Uses(detections, u) ==
  /\ u \in [0 .. ivaNextId - 1 -> SUBSET DOMAIN detections] /\ u[0] = {}
  /\ \A id \in 1 .. ivaNextId - 1 :
       u[id] = u[id - 1] \cup Analysis!Taken(id, detections, u[id - 1])

\* What track id takes is one of those that are left.
LEMMA TakenFacts ==
  ASSUME TracksInv, NEW detections \in Analysis!Detections, NEW id, NEW used,
         NEW i \in Analysis!Taken(id, detections, used)
  PROVE  /\ id \in DOMAIN ivaTracks /\ i \in DOMAIN detections \ used
         /\ i = Analysis!Best(ivaTracks[id], detections, used)
         /\ Analysis!Candidates(ivaTracks[id], detections, used) # {}
<1>1. id \in DOMAIN ivaTracks /\ Analysis!Candidates(ivaTracks[id], detections, used) # {}
  BY DEF Analysis!Taken
<1>2. i = Analysis!Best(ivaTracks[id], detections, used)
  BY <1>1 DEF Analysis!Taken
<1>3. ivaTracks[id].center \in Analysis!Positions
  BY <1>1 DEF TracksInv, TrackType
<1>4. i \in Analysis!Candidates(ivaTracks[id], detections, used)
  BY <1>1, <1>2, <1>3, BestFacts
<1> QED
  BY <1>1, <1>2, <1>4 DEF Analysis!Candidates

LEMMA Using ==
  ASSUME TracksInv, NEW detections \in Analysis!Detections
  PROVE  Uses(detections, Analysis!Used(detections))
<1> DEFINE N == ivaNextId - 1
           S == SUBSET DOMAIN detections
           Step(id, r) == r \cup Analysis!Taken(id, detections, r)
           step == [id \in 1 .. N |-> [r \in S |-> Step(id, r)]]
           Is(f) == f = [id \in 0 .. N |-> IF id = 0 THEN {}
                                           ELSE f[id - 1] \cup Analysis!Taken(id, detections, f[id - 1])]
           f == CHOOSE f : Is(f)
<1>1. ASSUME NEW id \in 1 .. N, NEW r \in S PROVE Step(id, r) \in S
  BY TakenFacts
<1> HIDE DEF Step
<1>2. step \in [1 .. N -> [S -> S]]
  BY <1>1
<1>3. N \in Nat /\ {} \in S
  BY DEF TracksInv
<1> HIDE DEF step, S, N
<1>4. PICK g : Recurs(N, S, {}, step, g)
  BY <1>2, <1>3, Recursion
<1>5. ASSUME NEW id \in 1 .. N PROVE g[id] = Step(id, g[id - 1])
  <2>1. id - 1 \in 0 .. N
    BY <1>3
  <2>2. g[id - 1] \in S
    BY <1>4, <2>1 DEF Recurs
  <2> QED
    BY <1>4, <2>2 DEF Recurs, step
<1>6. Is(g)
  <2>1. \A id \in 0 .. N :
          g[id] = IF id = 0 THEN {}
                  ELSE g[id - 1] \cup Analysis!Taken(id, detections, g[id - 1])
    <3> TAKE id \in 0 .. N
    <3>1. CASE id = 0
      BY <1>4, <3>1 DEF Recurs
    <3>2. CASE id # 0
      <4>1. id \in 1 .. N
        BY <1>3, <3>2
      <4> QED
        BY <1>5, <3>2, <4>1 DEF Step
    <3> QED
      BY <3>1, <3>2
  <2> QED
    BY <1>4, <2>1 DEF Recurs
<1>7. Is(f)
  <2> HIDE DEF Is
  <2> QED
    BY <1>6
<1>8. f \in [0 .. N -> S]
  <2> DEFINE T == {id \in 0 .. N : f[id] = g[id]}
  <2>1. /\ f[0] = {} /\ DOMAIN f = 0 .. N
        /\ f = [id \in 0 .. N |-> f[id]]
        /\ \A id \in 1 .. N : f[id] = Step(id, f[id - 1])
    <3> HIDE DEF f
    <3>1. /\ DOMAIN f = 0 .. N
          /\ \A id \in 0 .. N :
               f[id] = IF id = 0 THEN {}
                       ELSE f[id - 1] \cup Analysis!Taken(id, detections, f[id - 1])
      BY <1>7
    <3>2. f = [id \in 0 .. N |-> f[id]]
      BY <1>7, <3>1
    <3>3. 0 \in 0 .. N /\ \A id \in 1 .. N : id \in 0 .. N /\ id # 0
      BY <1>3
    <3> HIDE DEF Is
    <3> QED
      BY <3>1, <3>2, <3>3 DEF Step
  <2> HIDE DEF f, Is
  <2>2. 0 \in T
    <3>1. 0 \in 0 .. N
      BY <1>3
    <3> QED
      BY <1>4, <2>1, <3>1 DEF Recurs, T
  <2>3. ASSUME NEW i \in 0 .. N - 1, i \in T PROVE i + 1 \in T
    <3>1. i + 1 \in 1 .. N /\ (i + 1) - 1 = i /\ i + 1 \in 0 .. N
      BY <1>3
    <3>2. f[i + 1] = Step(i + 1, f[i]) /\ g[i + 1] = Step(i + 1, g[i])
      BY <1>5, <2>1, <3>1
    <3> QED
      BY <2>3, <3>1, <3>2
  <2> HIDE DEF T
  <2>4. 0 .. N \subseteq T
    BY <1>3, <2>2, <2>3, UpTo
  <2>5. \A id \in 0 .. N : f[id] \in S
    BY <1>4, <2>4 DEF Recurs, T
  <2> QED
    BY <2>1, <2>5
<1>9. Uses(detections, f)
  <2> HIDE DEF f
  <2>1. /\ f \in [0 .. N -> SUBSET DOMAIN detections]
        /\ \A id \in 0 .. N :
             f[id] = IF id = 0 THEN {}
                     ELSE f[id - 1] \cup Analysis!Taken(id, detections, f[id - 1])
    BY <1>7, <1>8 DEF S
  <2>2. 0 \in 0 .. N /\ \A id \in 1 .. N : id \in 0 .. N /\ id # 0
    BY <1>3
  <2> HIDE DEF Is
  <2> QED
    BY <2>1, <2>2 DEF Uses, N
<1>10. Analysis!Used(detections) = f
  BY DEF Analysis!Used, N
<1> HIDE DEF f
<1> QED
  BY <1>9, <1>10

\* What is used stays used.
LEMMA UsedGrows ==
  ASSUME TracksInv, NEW detections, NEW u, Uses(detections, u),
         NEW a \in 0 .. ivaNextId - 1, NEW b \in 0 .. ivaNextId - 1, a <= b
  PROVE  u[a] \subseteq u[b]
<1> DEFINE N == ivaNextId - 1
           T == {i \in 0 .. N : i < a \/ u[a] \subseteq u[i]}
<1>1. N \in Nat
  BY DEF TracksInv
<1>2. 0 \in T
  BY <1>1
<1>3. ASSUME NEW i \in 0 .. N - 1, i \in T PROVE i + 1 \in T
  <2>1. i + 1 \in 1 .. N /\ (i + 1) - 1 = i /\ i + 1 \in 0 .. N
    BY <1>1
  <2>2. u[i] \subseteq u[i + 1]
    BY <2>1 DEF Uses
  <2>3. CASE i < a
    BY <2>1, <2>2, <2>3, <1>1
  <2> QED
    BY <1>3, <2>1, <2>2, <2>3
<1>4. 0 .. N \subseteq T
  <2> HIDE DEF T
  <2> QED
    BY <1>1, <1>2, <1>3, UpTo
<1>5. b \in T
  BY <1>4
<1> QED
  BY <1>5

\* What is used in the end, a track took.
LEMMA UsedByOne ==
  ASSUME TracksInv, NEW detections, NEW u, Uses(detections, u),
         NEW i \in u[ivaNextId - 1]
  PROVE  \E id \in 1 .. ivaNextId - 1 : i \in Analysis!Taken(id, detections, u[id - 1])
<1> DEFINE N == ivaNextId - 1
           T == {id \in 0 .. N : i \in u[id]}
<1>1. N \in Nat /\ T \subseteq Nat /\ T # {}
  BY DEF TracksInv
<1>2. PICK id \in T : \A k \in T : id <= k
  BY <1>1, Least
<1>3. id # 0
  BY <1>2 DEF Uses
<1>4. id \in 1 .. N /\ id - 1 \in 0 .. N /\ id - 1 < id
  BY <1>1, <1>3
<1>5. i \notin u[id - 1]
  BY <1>1, <1>2, <1>4
<1> QED
  BY <1>2, <1>4, <1>5 DEF Uses

\* Iva counts with its own copy of Cardinality.
LEMMA Counting ==
  ASSUME NEW S PROVE Analysis!Cardinality(S) = Cardinality(S)
BY DEF Cardinality, Analysis!Cardinality

-----------------------------------------------------------------------------
(* Targets and detections. *)

\* h pairs each element of S with one of D, and leaves none of D out.
OneEach(h, S, D) ==
  /\ h \in [S -> D] /\ \A a, b \in S : h[a] = h[b] => a = b
  /\ \A d \in D : \E a \in S : h[a] = d

LEMMA OneEachCounts ==
  ASSUME NEW S, NEW D, NEW h, IsFiniteSet(D), OneEach(h, S, D)
  PROVE  IsFiniteSet(S) /\ Cardinality(S) = Cardinality(D)
<1>1. h \in Injection(S, D) /\ h \in Surjection(S, D)
  BY DEF OneEach, Injection, IsInjective, Surjection
<1> QED
  BY <1>1, FS_Injection

\* The numbers of new tracks.
LEMMA NewIds ==
  ASSUME TracksInv, NEW detections \in Analysis!Detections
  PROVE  LET left == Analysis!Left(detections) IN
         /\ IsFiniteSet(left) /\ Cardinality(left) \in Nat /\ left \subseteq DOMAIN detections
         /\ \A i \in left :
              Analysis!NewId(i, detections) \in ivaNextId .. (ivaNextId + Cardinality(left)) - 1
         /\ \A i, j \in left :
              Analysis!NewId(i, detections) = Analysis!NewId(j, detections) => i = j
<1> DEFINE left == Analysis!Left(detections)
           before(i) == {j \in left : j < i}
<1>1. /\ left \subseteq DOMAIN detections /\ DOMAIN detections \subseteq Nat
      /\ IsFiniteSet(DOMAIN detections)
  <2>1. left \subseteq DOMAIN detections
    BY DEF Analysis!Left
  <2> HIDE DEF left
  <2> QED
    BY <2>1, DetectionFacts
<1>2. IsFiniteSet(left) /\ Cardinality(left) \in Nat
  BY <1>1, FS_Subset, FS_CardinalityType
<1>3. ASSUME NEW i
      PROVE  Analysis!NewId(i, detections) = ivaNextId + Cardinality(before(i))
  BY Counting DEF Analysis!NewId
<1> HIDE DEF left
<1>4. ASSUME NEW i \in left
      PROVE  Cardinality(before(i)) \in Nat /\ Cardinality(before(i)) < Cardinality(left)
             /\ IsFiniteSet(before(i))
  <2>1. before(i) \subseteq left /\ i \notin before(i)
    BY <1>1
  <2> HIDE DEF before
  <2>2. /\ IsFiniteSet(before(i)) /\ Cardinality(before(i)) <= Cardinality(left)
        /\ Cardinality(before(i)) # Cardinality(left)
    BY <1>2, <2>1, FS_Subset
  <2>3. Cardinality(before(i)) \in Nat
    BY <2>2, FS_CardinalityType
  <2> QED
    BY <1>2, <2>2, <2>3
<1>5. ASSUME NEW i \in left, NEW j \in left, i < j
      PROVE  Cardinality(before(i)) < Cardinality(before(j))
  <2>1. before(i) \subseteq before(j) /\ i \in before(j) /\ i \notin before(i)
    BY <1>1, <1>5
  <2>2. /\ IsFiniteSet(before(j)) /\ Cardinality(before(j)) \in Nat
        /\ Cardinality(before(i)) \in Nat
    BY <1>4
  <2> HIDE DEF before
  <2>3. /\ Cardinality(before(i)) <= Cardinality(before(j))
        /\ Cardinality(before(i)) # Cardinality(before(j))
    BY <2>1, <2>2, FS_Subset
  <2> QED
    BY <2>2, <2>3
<1> HIDE DEF before
<1>6. ivaNextId \in Nat
  BY DEF TracksInv
<1>7. ASSUME NEW i \in left, NEW j \in left,
             Analysis!NewId(i, detections) = Analysis!NewId(j, detections)
      PROVE  i = j
  <2>1. Cardinality(before(i)) = Cardinality(before(j))
    BY <1>3, <1>4, <1>6, <1>7
  <2>2. ~(i < j) /\ ~(j < i)
    BY <1>4, <1>5, <2>1
  <2> QED
    BY <1>1, <2>2
<1>8. \A i \in left : Analysis!NewId(i, detections) \in ivaNextId .. (ivaNextId + Cardinality(left)) - 1
  BY <1>2, <1>3, <1>4, <1>6
<1> QED
  BY <1>1, <1>2, <1>7, <1>8 DEF left

\* A track that misses a frame.
LEMMA Misses ==
  ASSUME NEW t \in TrackType, NEW m,
         m = [t EXCEPT !.missed = t.missed + 1, !.hasPrevious = FALSE]
  PROVE  /\ m.center = t.center /\ m.missed = t.missed + 1 /\ m.missed # 0
         /\ m.missed <= maximumMissedFrames => m \in TrackType
<1>1. t.missed \in 0 .. maximumMissedFrames /\ maximumMissedFrames \in Nat
  BY IvaConstants DEF TrackType
<1>2. m = [center |-> t.center, previous |-> t.previous, hasPrevious |-> FALSE,
           missed |-> t.missed + 1]
  BY DEF TrackType
<1>3. m.center = t.center /\ m.missed = t.missed + 1 /\ m.missed # 0
  BY <1>1, <1>2
<1>4. t.center \in Analysis!Positions /\ t.previous \in Analysis!Positions
  BY DEF TrackType
<1>5. ASSUME m.missed <= maximumMissedFrames PROVE t.missed + 1 \in 0 .. maximumMissedFrames
  BY <1>1, <1>3, <1>5
<1> QED
  BY <1>2, <1>3, <1>4, <1>5 DEF TrackType

\* What becomes of a track.
Follows(t, m) ==
  \/ /\ m.missed = 0 /\ Analysis!Distance(t.center, m.center) <= Reach
  \/ /\ m.missed = t.missed + 1 /\ m.center = t.center

\* The tracks all that a frame leaves: those before it go on, others have new
\* numbers, and those that it supports and its detections are paired.
Tracked(all, detections, next) ==
  /\ next \in Nat /\ next >= ivaNextId
  /\ DOMAIN all \subseteq 1 .. next - 1 /\ all \in [DOMAIN all -> TrackType]
  /\ \A id \in DOMAIN all : id < ivaNextId =>
       id \in DOMAIN ivaTracks /\ Follows(ivaTracks[id], all[id])
  /\ \E h : /\ OneEach(h, Analysis!Supported(all), DOMAIN detections)
            /\ \A id \in Analysis!Supported(all) : detections[h[id]] = all[id].center

\* update() does so, whatever the detections are.
LEMMA UpdateFacts ==
  ASSUME TracksInv, NEW detections \in Analysis!Detections
  PROVE  Tracked(Analysis!Update(detections), detections,
                 ivaNextId + Cardinality(Analysis!Left(detections)))
<1> DEFINE all == Analysis!Update(detections)
           u == Analysis!Used(detections)
           left == Analysis!Left(detections)
           D == DOMAIN detections
           next == ivaNextId + Cardinality(left)
           newId(i) == Analysis!NewId(i, detections)
           can(id) == Analysis!Candidates(ivaTracks[id], detections, u[id - 1])
           best(id) == Analysis!Best(ivaTracks[id], detections, u[id - 1])
           match(id) == Analysis!Matched(ivaTracks[id], detections, u[id - 1])
           matched == [id \in DOMAIN ivaTracks |-> match(id)]
           kept == Analysis!Retained(matched)
           new == {newId(i) : i \in left}
           of(id) == CHOOSE i \in left : newId(i) = id
<1>1. /\ IsFiniteSet(left) /\ Cardinality(left) \in Nat /\ left \subseteq D
      /\ \A i \in left : newId(i) \in ivaNextId .. next - 1
      /\ \A i, j \in left : newId(i) = newId(j) => i = j
  BY NewIds
<1>2. Uses(detections, u)
  BY Using
<1>3. left = D \ u[ivaNextId - 1]
  BY DEF Analysis!Left
<1>4. all = [id \in kept \cup new |->
               IF id \in DOMAIN ivaTracks THEN matched[id]
               ELSE Analysis!NewTrack(detections[of(id)])]
  BY DEF Analysis!Update
<1>5. kept = {id \in DOMAIN ivaTracks : match(id).missed <= maximumMissedFrames}
  BY DEF Analysis!Retained
<1>6. /\ ivaNextId \in Nat \ {0} /\ DOMAIN ivaTracks \subseteq 1 .. ivaNextId - 1
      /\ \A id \in DOMAIN ivaTracks : ivaTracks[id] \in TrackType
  BY DEF TracksInv
<1>7. \A i \in D : detections[i] \in Analysis!Positions
  BY DetectionFacts
<1>8. ASSUME NEW id \in DOMAIN ivaTracks, can(id) # {}
      PROVE  /\ best(id) \in can(id) /\ best(id) \in D \ u[id - 1]
             /\ Analysis!Distance(ivaTracks[id].center, detections[best(id)]) <= Reach
             /\ match(id).center = detections[best(id)] /\ match(id).missed = 0
             /\ match(id) \in TrackType
             /\ Analysis!Taken(id, detections, u[id - 1]) = {best(id)}
  <2>1. ivaTracks[id].center \in Analysis!Positions
    BY <1>6 DEF TrackType
  <2>2. best(id) \in can(id)
    BY <1>8, <2>1, BestFacts
  <2>3. match(id) = [center |-> detections[best(id)], previous |-> ivaTracks[id].center,
                     hasPrevious |-> TRUE, missed |-> 0]
    BY <1>8 DEF Analysis!Matched
  <2>4. Analysis!Taken(id, detections, u[id - 1]) = {best(id)}
    BY <1>8 DEF Analysis!Taken
  <2>6. detections[best(id)] \in Analysis!Positions
    BY <1>7, <2>2 DEF Analysis!Candidates
  <2>7. match(id).center = detections[best(id)] /\ match(id).missed = 0
        /\ match(id) \in TrackType
    <3> HIDE DEF match, best
    <3> QED
      BY <2>1, <2>3, <2>6, IvaConstants DEF TrackType
  <2>5. /\ best(id) \in D \ u[id - 1]
        /\ Analysis!Distance(ivaTracks[id].center, detections[best(id)]) <= Reach
    BY <2>2 DEF Analysis!Candidates
  <2> QED
    BY <2>2, <2>4, <2>5, <2>7
<1>9. ASSUME NEW id \in DOMAIN ivaTracks, can(id) = {}
      PROVE  /\ match(id).center = ivaTracks[id].center
             /\ match(id).missed = ivaTracks[id].missed + 1 /\ match(id).missed # 0
             /\ match(id).missed <= maximumMissedFrames => match(id) \in TrackType
  <2>1. match(id) = [ivaTracks[id] EXCEPT !.missed = ivaTracks[id].missed + 1, !.hasPrevious = FALSE]
    BY <1>9 DEF Analysis!Matched
  <2>2. ivaTracks[id] \in TrackType
    BY <1>6
  <2> HIDE DEF match
  <2> QED
    BY <2>1, <2>2, Misses
<1> HIDE DEF u, left, D, newId, can, best, match, all
<1>10. ASSUME NEW i \in left PROVE of(newId(i)) = i
  BY <1>1
<1>11. new \cap DOMAIN ivaTracks = {} /\ kept \subseteq DOMAIN ivaTracks
  <2>1. \A i \in left : newId(i) \notin DOMAIN ivaTracks
    BY <1>1, <1>6
  <2> QED
    BY <1>5, <2>1
<1>12. DOMAIN all = kept \cup new
  BY <1>4
<1>13. ASSUME NEW id \in kept PROVE all[id] = match(id)
  BY <1>4, <1>11
<1>14. ASSUME NEW i \in left PROVE newId(i) \in new /\ all[newId(i)] = Analysis!NewTrack(detections[i])
  <2>1. newId(i) \in new /\ newId(i) \notin DOMAIN ivaTracks
    BY <1>11
  <2> HIDE DEF of, new
  <2> QED
    BY <1>4, <1>10, <2>1
<1> HIDE DEF of
<1>15. next \in Nat /\ next >= ivaNextId
  BY <1>1, <1>6
<1>16. DOMAIN all \subseteq 1 .. next - 1
  <2>1. ASSUME NEW id \in kept PROVE id \in 1 .. next - 1
    <3>1. id \in 1 .. ivaNextId - 1
      BY <1>6, <1>11
    <3> HIDE DEF next
    <3> QED
      BY <1>6, <1>15, <3>1
  <2>2. ASSUME NEW i \in left PROVE newId(i) \in 1 .. next - 1
    <3>1. newId(i) \in ivaNextId .. next - 1
      BY <1>1
    <3> HIDE DEF next
    <3> QED
      BY <1>6, <1>15, <3>1
  <2> HIDE DEF kept, next
  <2> QED
    BY <1>12, <2>1, <2>2
<1>17. ASSUME NEW id \in DOMAIN all PROVE all[id] \in TrackType
  <2>1. CASE id \in kept
    <3>1. id \in DOMAIN ivaTracks /\ ivaTracks[id] \in TrackType
          /\ all[id] = match(id) /\ match(id).missed <= maximumMissedFrames
      BY <1>5, <1>6, <1>13, <2>1
    <3>2. CASE can(id) = {}
      BY <1>9, <3>1, <3>2
    <3>3. CASE can(id) # {}
      BY <1>8, <3>1, <3>3
    <3> QED
      BY <3>2, <3>3
  <2>2. CASE id \in new
    <3>1. PICK i \in left : id = newId(i)
      BY <2>2
    <3>2. all[id] = Analysis!NewTrack(detections[i]) /\ detections[i] \in Analysis!Positions
      BY <1>1, <1>7, <1>14, <3>1
    <3> QED
      BY <3>2, IvaConstants DEF Analysis!NewTrack, TrackType
  <2> QED
    BY <1>12, <2>1, <2>2
<1>18. all \in [DOMAIN all -> TrackType]
  <2>1. all = [id \in DOMAIN all |-> all[id]]
    BY <1>4
  <2> QED
    BY <1>17, <2>1
<1>19. ASSUME NEW id \in DOMAIN all, id < ivaNextId
       PROVE  id \in DOMAIN ivaTracks /\ Follows(ivaTracks[id], all[id])
  <2>1. id \in kept
    BY <1>1, <1>6, <1>12, <1>19
  <2>2. id \in DOMAIN ivaTracks /\ all[id] = match(id)
    BY <1>11, <1>13, <2>1
  <2>3. CASE can(id) = {}
    BY <1>9, <2>2, <2>3 DEF Follows
  <2>4. CASE can(id) # {}
    BY <1>8, <2>2, <2>4 DEF Follows
  <2> QED
    BY <2>2, <2>3, <2>4
<1> DEFINE S == Analysis!Supported(all)
           h == [id \in S |-> IF id \in DOMAIN ivaTracks THEN best(id) ELSE of(id)]
<1>20. S = {id \in DOMAIN all : all[id].missed = 0}
  BY DEF Analysis!Supported
<1>21. ASSUME NEW id \in S
       PROVE  \/ /\ id \in DOMAIN ivaTracks /\ can(id) # {} /\ h[id] = best(id)
                 /\ all[id] = match(id)
              \/ /\ id \notin DOMAIN ivaTracks /\ h[id] \in left /\ id = newId(h[id])
  <2>1. CASE id \in kept
    <3>1. id \in DOMAIN ivaTracks /\ all[id] = match(id)
      BY <1>11, <1>13, <2>1
    <3>2. can(id) # {}
      BY <1>9, <1>20, <3>1
    <3> QED
      BY <3>1, <3>2
  <2>2. CASE id \in new
    <3>1. PICK i \in left : id = newId(i)
      BY <2>2
    <3>2. id \notin DOMAIN ivaTracks
      BY <1>11, <2>2
    <3> QED
      BY <1>10, <3>1, <3>2
  <2> QED
    BY <1>12, <1>20, <2>1, <2>2
<1> HIDE DEF h, S
<1>22. \A a, b \in 0 .. ivaNextId - 1 : a <= b => u[a] \subseteq u[b]
  BY <1>2, UsedGrows
<1>23. \A id \in DOMAIN ivaTracks : id \in 1 .. ivaNextId - 1 /\ id - 1 \in 0 .. ivaNextId - 1
                                    /\ id \in 0 .. ivaNextId - 1 /\ id - 1 <= id
                                    /\ ivaNextId - 1 \in 0 .. ivaNextId - 1
                                    /\ id <= ivaNextId - 1
  BY <1>6
<1>24. ASSUME NEW id \in DOMAIN ivaTracks, can(id) # {}
       PROVE  best(id) \in u[id] /\ best(id) \notin u[id - 1] /\ best(id) \in u[ivaNextId - 1]
  <2>1. u[id] = u[id - 1] \cup {best(id)}
    BY <1>2, <1>8, <1>23, <1>24 DEF Uses
  <2>2. u[id] \subseteq u[ivaNextId - 1]
    BY <1>22, <1>23
  <2> QED
    BY <1>8, <1>24, <2>1, <2>2
<1>25. ASSUME NEW a \in DOMAIN ivaTracks, NEW b \in DOMAIN ivaTracks, can(a) # {}, can(b) # {},
              a < b
       PROVE  best(a) # best(b)
  <2>1. a <= b - 1 /\ b - 1 \in 0 .. ivaNextId - 1
    BY <1>23, <1>25
  <2>2. u[a] \subseteq u[b - 1]
    BY <1>22, <1>23, <2>1
  <2> QED
    BY <1>24, <1>25, <2>2
<1>26. ASSUME NEW a \in S, NEW b \in S, h[a] = h[b] PROVE a = b
  <2>1. CASE a \in DOMAIN ivaTracks /\ b \in DOMAIN ivaTracks
    <3>1. can(a) # {} /\ can(b) # {} /\ best(a) = best(b)
      BY <1>21, <1>26, <2>1
    <3>2. ~(a < b) /\ ~(b < a)
      BY <1>25, <2>1, <3>1
    <3> QED
      BY <1>23, <2>1, <3>2
  <2>2. CASE a \notin DOMAIN ivaTracks /\ b \notin DOMAIN ivaTracks
    BY <1>21, <1>26, <2>2
  <2>3. ASSUME NEW x \in S, NEW y \in S, x \in DOMAIN ivaTracks, y \notin DOMAIN ivaTracks
        PROVE  h[x] # h[y]
    <3>1. h[x] \in u[ivaNextId - 1]
      <4>1. can(x) # {} /\ h[x] = best(x)
        BY <1>21, <2>3
      <4> QED
        BY <1>24, <2>3, <4>1
    <3>2. h[y] \in left
      BY <1>21, <2>3
    <3> QED
      BY <1>3, <3>1, <3>2
  <2> QED
    BY <1>26, <2>1, <2>2, <2>3
<1>27. ASSUME NEW i \in D PROVE \E id \in S : h[id] = i
  <2>1. CASE i \in left
    <3> DEFINE id == newId(i)
    <3>0. id \in new /\ all[id] = Analysis!NewTrack(detections[i])
      BY <1>14, <2>1
    <3> HIDE DEF new, kept
    <3>1. id \in DOMAIN all /\ id \notin DOMAIN ivaTracks /\ all[id].missed = 0
      BY <1>11, <1>12, <3>0 DEF Analysis!NewTrack
    <3>2. id \in S
      BY <1>20, <3>1
    <3>3. h[id] \in left /\ newId(i) = newId(h[id])
      BY <1>21, <3>1, <3>2
    <3>4. h[id] = i
      BY <1>1, <2>1, <3>3
    <3> QED
      BY <3>2, <3>4
  <2>2. CASE i \notin left
    <3>1. PICK id \in 1 .. ivaNextId - 1 : i \in Analysis!Taken(id, detections, u[id - 1])
      BY <1>2, <1>3, <2>2, UsedByOne
    <3>2. id \in DOMAIN ivaTracks /\ can(id) # {} /\ i = best(id)
      BY <3>1, TakenFacts DEF can, best
    <3>3. match(id).missed = 0 /\ 0 <= maximumMissedFrames
      <4>1. match(id).missed = 0
        BY <1>8, <3>2
      <4> QED
        BY <4>1, IvaConstants
    <3>4. id \in kept /\ all[id] = match(id)
      BY <1>5, <1>13, <3>2, <3>3
    <3>5. id \in S
      BY <1>12, <1>20, <3>3, <3>4
    <3> QED
      BY <1>21, <3>2, <3>5
  <2> QED
    BY <2>1, <2>2
<1>28. ASSUME NEW id \in S PROVE h[id] \in D /\ detections[h[id]] = all[id].center
  <2>1. CASE id \in DOMAIN ivaTracks
    BY <1>8, <1>21, <2>1
  <2>2. CASE id \notin DOMAIN ivaTracks
    <3>1. h[id] \in left /\ id = newId(h[id])
      BY <1>21, <2>2
    <3>2. all[id] = Analysis!NewTrack(detections[h[id]])
      BY <1>14, <3>1
    <3> QED
      BY <1>1, <3>1, <3>2 DEF Analysis!NewTrack
  <2> QED
    BY <2>1, <2>2
<1>29. OneEach(h, S, D)
  <2>1. h \in [S -> D]
    <3>1. h = [id \in S |-> h[id]]
      BY DEF h
    <3> QED
      BY <1>28, <3>1
  <2> QED
    BY <1>26, <1>27, <2>1 DEF OneEach
<1>30. Tracked(all, detections, next)
  <2>1. \E g : OneEach(g, S, D) /\ \A id \in S : detections[g[id]] = all[id].center
    BY <1>28, <1>29
  <2> QED
    BY <1>15, <1>16, <1>18, <1>19, <2>1 DEF Tracked, S, D
<1> QED
  BY <1>30 DEF all, left

-----------------------------------------------------------------------------
(* The rules. *)

StateType == [inside : BOOLEAN, triggered : BOOLEAN, enteredAt : Nat]

\* What a region rule makes of one sight of a target.
RuleFacts(id, t, time) ==
  LET ins == Analysis!Inside(t.center)
      r == Analysis!RegionStep(id, t, time).state
      E == Analysis!EventsOf(id, t, time)
      s == ivaStates[id] IN
  /\ r \in StateType /\ (r.inside <=> ins)
  /\ E \subseteq {"entered", "left", "intrusion", "crossed"}
  /\ id \notin DOMAIN ivaStates =>
       /\ "entered" \notin E /\ "left" \notin E /\ "intrusion" \notin E
       /\ r.inside => r.enteredAt = time
  /\ id \in DOMAIN ivaStates =>
       /\ "entered" \in E <=> ~s.inside /\ ins
       /\ "left" \in E <=> s.inside /\ ~ins
       /\ "intrusion" \in E =>
            s.inside /\ ins /\ ~s.triggered /\ time - s.enteredAt >= dwellTime
       /\ s.inside /\ ins =>
            r.enteredAt = s.enteredAt /\ (~r.triggered => ~s.triggered /\ "intrusion" \notin E)
       /\ ~s.inside /\ ins => r.enteredAt = time /\ "intrusion" \notin E

LEMMA RuleSteps ==
  ASSUME ivaStates \in [DOMAIN ivaStates -> StateType],
         NEW id, NEW t, t.center \in Analysis!Positions, NEW time \in Nat
  PROVE  RuleFacts(id, t, time)
<1> DEFINE ins == Analysis!Inside(t.center)
           s == Analysis!StateOf(id, t, time)
           m == Analysis!Moved(s, ins, time)
           hits == Analysis!Remembered(id) /\ Analysis!Intrudes(m, ins, time)
           trig == m.triggered \/ hits
           cross == Analysis!Crosses(t)
           r == Analysis!RegionStep(id, t, time)
           E == Analysis!EventsOf(id, t, time)
<1>1. ins \in BOOLEAN /\ hits \in BOOLEAN /\ trig \in BOOLEAN
  BY DEF Analysis!Inside
<1>2. r.state = [inside |-> ins, triggered |-> trig, enteredAt |-> m.enteredAt]
  BY DEF Analysis!RegionStep
<1>3. E = ((IF ~s.inside /\ ins THEN {"entered"} ELSE {})
           \cup (IF s.inside /\ ~ins THEN {"left"} ELSE {})
           \cup (IF hits THEN {"intrusion"} ELSE {}))
          \cup (IF cross THEN {"crossed"} ELSE {})
  BY DEF Analysis!RegionStep, Analysis!EventsOf
<1>4. s = IF id \in DOMAIN ivaStates THEN ivaStates[id]
          ELSE [inside |-> ins, triggered |-> FALSE, enteredAt |-> IF ins THEN time ELSE 0]
  BY DEF Analysis!StateOf, Analysis!Remembered
<1>5. m = IF ~s.inside /\ ins THEN [s EXCEPT !.enteredAt = time, !.triggered = FALSE]
          ELSE IF s.inside /\ ~ins THEN [s EXCEPT !.enteredAt = 0, !.triggered = FALSE]
          ELSE s
  BY DEF Analysis!Moved
<1>6. hits <=> /\ id \in DOMAIN ivaStates /\ ins /\ ~m.triggered /\ m.enteredAt # 0
               /\ time >= m.enteredAt /\ time - m.enteredAt >= dwellTime
  BY DEF Analysis!Intrudes, Analysis!Remembered
<1>7. trig <=> m.triggered \/ hits
  OBVIOUS
<1> HIDE DEF ins, s, m, hits, trig, cross, r, E
<1>8. s \in StateType
  <2>1. CASE id \in DOMAIN ivaStates
    BY <1>4, <2>1
  <2>2. CASE id \notin DOMAIN ivaStates
    <3>1. (IF ins THEN time ELSE 0) \in Nat
      OBVIOUS
    <3> QED
      BY <1>1, <1>4, <2>2, <3>1 DEF StateType
  <2> QED
    BY <2>1, <2>2
<1>9. /\ m \in StateType
      /\ ~s.inside /\ ins => m.enteredAt = time /\ ~m.triggered
      /\ s.inside /\ ins => m = s
      /\ ~s.inside /\ ~ins => m = s
  <2>1. CASE ~s.inside /\ ins
    BY <1>5, <1>8, <2>1 DEF StateType
  <2>2. CASE s.inside /\ ~ins
    BY <1>5, <1>8, <2>2 DEF StateType
  <2>3. CASE ~(~s.inside /\ ins) /\ ~(s.inside /\ ~ins)
    BY <1>5, <1>8, <2>3
  <2> QED
    BY <2>1, <2>2, <2>3
<1>10. r.state \in StateType /\ r.state.inside = ins /\ r.state.triggered = trig
       /\ r.state.enteredAt = m.enteredAt
  BY <1>1, <1>2, <1>9 DEF StateType
<1>11. /\ E \subseteq {"entered", "left", "intrusion", "crossed"}
       /\ "entered" \in E <=> ~s.inside /\ ins
       /\ "left" \in E <=> s.inside /\ ~ins
       /\ "intrusion" \in E <=> hits
  BY <1>3
<1>12. ASSUME id \notin DOMAIN ivaStates
       PROVE  /\ "entered" \notin E /\ "left" \notin E /\ "intrusion" \notin E
              /\ r.state.inside => r.state.enteredAt = time
  <2>1. s = [inside |-> ins, triggered |-> FALSE, enteredAt |-> IF ins THEN time ELSE 0]
    BY <1>4, <1>12
  <2>2. s.inside = ins /\ (ins => s.enteredAt = time)
    BY <2>1
  <2> QED
    BY <1>1, <1>6, <1>9, <1>10, <1>11, <1>12, <2>2
<1>13. ASSUME id \in DOMAIN ivaStates
       PROVE  /\ s = ivaStates[id]
              /\ hits => s.inside /\ ins /\ ~s.triggered /\ time - s.enteredAt >= dwellTime
              /\ s.inside /\ ins =>
                   r.state.enteredAt = s.enteredAt
                   /\ (~r.state.triggered => ~s.triggered /\ "intrusion" \notin E)
              /\ ~s.inside /\ ins => r.state.enteredAt = time /\ "intrusion" \notin E
  <2>1. s = ivaStates[id]
    BY <1>4, <1>13
  <2>2. ASSUME ~s.inside, ins PROVE ~hits
    <3>1. time - time = 0 /\ ~(0 >= dwellTime)
      BY IvaConstants
    <3> QED
      BY <1>6, <1>9, <2>2, <3>1
  <2>3. hits => s.inside /\ ins /\ ~s.triggered /\ time - s.enteredAt >= dwellTime
    BY <1>6, <1>9, <2>2
  <2>4. s.inside /\ ins => r.state.enteredAt = s.enteredAt
                           /\ (~r.state.triggered => ~s.triggered /\ "intrusion" \notin E)
    BY <1>7, <1>9, <1>10, <1>11
  <2> QED
    BY <1>9, <1>10, <1>11, <2>1, <2>2, <2>3, <2>4
<1> QED
  BY <1>10, <1>11, <1>12, <1>13 DEF RuleFacts, ins, r, E

-----------------------------------------------------------------------------
(* The frames, of which fr is a sequence. *)

Seen(fr, k, id) == {s \in fr[k].seen : s.id = id}

Apart(fr, j, k, id) == \A i \in j + 1 .. k - 1 : Seen(fr, i, id) = {}

\* In frame k each detection is one target's.
FrameRight(f) ==
  /\ f.detections \in Analysis!Detections
  /\ \A s, t \in f.seen : s.id = t.id => s = t
  /\ \E h : /\ OneEach(h, f.seen, DOMAIN f.detections)
            /\ \A s \in f.seen : f.detections[h[s]] = s.at

IdentityAt(fr, k) ==
  \A id : \A j \in 1 .. k - 1 :
    Seen(fr, j, id) # {} /\ Seen(fr, k, id) # {} /\ Apart(fr, j, k, id) =>
      /\ k - j <= maximumMissedFrames + 1
      /\ \A s \in Seen(fr, j, id), t \in Seen(fr, k, id) : Analysis!Distance(s.at, t.at) <= Reach

EnteredAt(fr, k, id) ==
  \E j \in 1 .. k - 1 :
    /\ Seen(fr, j, id) # {} /\ Apart(fr, j, k, id)
    /\ \E s \in Seen(fr, j, id), t \in Seen(fr, k, id) :
         ~Analysis!Inside(s.at) /\ Analysis!Inside(t.at)

LeftAt(fr, k, id) ==
  \E j \in 1 .. k - 1 :
    /\ Seen(fr, j, id) # {} /\ Apart(fr, j, k, id)
    /\ \E s \in Seen(fr, j, id), t \in Seen(fr, k, id) :
         Analysis!Inside(s.at) /\ ~Analysis!Inside(t.at)

MovesAt(fr, k) ==
  \A id : Seen(fr, k, id) # {} =>
    /\ (\E s \in Seen(fr, k, id) : "entered" \in s.events) <=> EnteredAt(fr, k, id)
    /\ (\E s \in Seen(fr, k, id) : "left" \in s.events) <=> LeftAt(fr, k, id)

\* From frame j to k the target is inside wherever it is seen.
StayFrom(fr, j, k, id) == \A i \in j .. k : \A s \in Seen(fr, i, id) : Analysis!Inside(s.at)

\* From frame j to k no intrusion is reported of it.
QuietFrom(fr, j, k, id) == \A i \in j .. k : \A s \in Seen(fr, i, id) : "intrusion" \notin s.events

IntrusionAt(fr, k) ==
  \A id : (\E s \in Seen(fr, k, id) : "intrusion" \in s.events) =>
    \E j \in 1 .. k - 1 :
      /\ Seen(fr, j, id) # {} /\ fr[k].time - fr[j].time >= dwellTime
      /\ StayFrom(fr, j, k, id) /\ QuietFrom(fr, j, k - 1, id)

FramesRight(fr, k) == FrameRight(fr[k]) /\ IdentityAt(fr, k) /\ MovesAt(fr, k) /\ IntrusionAt(fr, k)

\* What is right up to a frame stays so when others follow.
LEMMA FramesStay ==
  ASSUME NEW fr, NEW gr, NEW k \in Nat \ {0}, \A i \in 1 .. k : gr[i] = fr[i], FramesRight(fr, k)
  PROVE  FramesRight(gr, k)
<1>1. \A i \in 1 .. k : \A id : Seen(gr, i, id) = Seen(fr, i, id)
  BY DEF Seen
<1>2. k \in 1 .. k /\ \A j \in 1 .. k - 1 : j \in 1 .. k
  OBVIOUS
<1>3. ASSUME NEW j \in 1 .. k - 1, NEW id PROVE Apart(gr, j, k, id) = Apart(fr, j, k, id)
  <2>1. \A i \in j + 1 .. k - 1 : i \in 1 .. k
    OBVIOUS
  <2> QED
    BY <1>1, <2>1 DEF Apart
<1>4. FrameRight(gr[k]) /\ IdentityAt(gr, k)
  BY <1>1, <1>2, <1>3 DEF FramesRight, IdentityAt
<1>5. ASSUME NEW id
      PROVE  EnteredAt(gr, k, id) = EnteredAt(fr, k, id) /\ LeftAt(gr, k, id) = LeftAt(fr, k, id)
  BY <1>1, <1>2, <1>3 DEF EnteredAt, LeftAt
<1>6. MovesAt(gr, k)
  BY <1>1, <1>2, <1>5 DEF FramesRight, MovesAt
<1>7. ASSUME NEW id, NEW j \in 1 .. k - 1
      PROVE  /\ StayFrom(gr, j, k, id) = StayFrom(fr, j, k, id)
             /\ QuietFrom(gr, j, k - 1, id) = QuietFrom(fr, j, k - 1, id)
  <2>1. \A i \in j .. k : i \in 1 .. k
    OBVIOUS
  <2>2. \A i \in j .. k - 1 : i \in 1 .. k
    OBVIOUS
  <2> QED
    BY <1>1, <2>1, <2>2 DEF StayFrom, QuietFrom
<1>8. IntrusionAt(gr, k)
  BY <1>1, <1>2, <1>7 DEF FramesRight, IntrusionAt
<1> QED
  BY <1>4, <1>6, <1>8 DEF FramesRight

-----------------------------------------------------------------------------
(* The invariant of the analysis. *)

SightType == [id : Nat, at : Analysis!Positions,
              events : SUBSET {"entered", "left", "intrusion", "crossed"}]

FrameType == [time : Nat, detections : Analysis!Detections, seen : SUBSET SightType]

\* The last sight of a target is what the tracker and the rules know of it.
Sights ==
  LET n == Len(ivaFrames) IN
  /\ \A id \in DOMAIN ivaStates : \E k \in 1 .. n : Seen(ivaFrames, k, id) # {}
  /\ \A k \in 1 .. n : \A s \in ivaFrames[k].seen :
       /\ s.id \in DOMAIN ivaStates
       /\ Apart(ivaFrames, k, n + 1, s.id) =>
            /\ ivaStates[s.id].inside <=> Analysis!Inside(s.at)
            /\ s.id \in DOMAIN ivaTracks =>
                 ivaTracks[s.id].missed = n - k /\ ivaTracks[s.id].center = s.at

\* A target that is inside has a stay, that began in a frame.
StayOf(id, fr, n, s) ==
  \E j \in 1 .. n :
    /\ Seen(fr, j, id) # {} /\ fr[j].time = s.enteredAt
    /\ StayFrom(fr, j, n, id) /\ (~s.triggered => QuietFrom(fr, j, n, id))

Stays ==
  \A id \in DOMAIN ivaStates :
    ivaStates[id].inside => StayOf(id, ivaFrames, Len(ivaFrames), ivaStates[id])

IvaInv ==
  /\ TracksInv /\ ivaNow \in Nat
  /\ ivaStates \in [DOMAIN ivaStates -> StateType] /\ DOMAIN ivaStates \subseteq 1 .. ivaNextId - 1
  /\ ivaFrames \in Seq(FrameType)
  /\ \A k \in 1 .. Len(ivaFrames) : FramesRight(ivaFrames, k)
  /\ Sights /\ Stays

LEMMA IvaBegins == Analysis!Init => IvaInv
<1> SUFFICES ASSUME Analysis!Init PROVE IvaInv
  OBVIOUS
<1>1. /\ ivaTracks = <<>> /\ ivaNextId = 1 /\ ivaStates = <<>> /\ ivaNow = 0 /\ ivaFrames = <<>>
  BY DEF Analysis!Init
<1>2. /\ DOMAIN <<>> = {} /\ Len(<<>>) = 0 /\ <<>> \in Seq(FrameType)
      /\ <<>> \in [{} -> TrackType] /\ <<>> \in [{} -> StateType]
  OBVIOUS
<1> QED
  BY <1>1, <1>2 DEF IvaInv, TracksInv, Sights, Stays

LEMMA IvaResets ==
  ASSUME IvaInv, Analysis!Reset \/ Analysis!ReplaceRules
  PROVE  IvaInv'
<1>1. /\ ivaStates' = <<>> /\ ivaNow' = ivaNow /\ ivaFrames' = <<>>
      /\ \/ ivaTracks' = <<>> /\ ivaNextId' = 1
         \/ ivaTracks' = ivaTracks /\ ivaNextId' = ivaNextId
  BY DEF Analysis!Reset, Analysis!ReplaceRules
<1>2. /\ DOMAIN <<>> = {} /\ Len(<<>>) = 0 /\ <<>> \in Seq(FrameType)
      /\ <<>> \in [{} -> TrackType] /\ <<>> \in [{} -> StateType]
  OBVIOUS
<1>3. TracksInv'
  <2>1. CASE ivaTracks' = <<>> /\ ivaNextId' = 1
    <3>1. DOMAIN ivaTracks' = {} /\ ivaTracks' \in [DOMAIN ivaTracks' -> TrackType]
      BY <1>2, <2>1
    <3> QED
      BY <2>1, <3>1 DEF TracksInv
  <2>2. CASE ivaTracks' = ivaTracks /\ ivaNextId' = ivaNextId
    BY <2>2 DEF IvaInv, TracksInv
  <2> QED
    BY <1>1, <2>1, <2>2
<1> QED
  BY <1>1, <1>2, <1>3 DEF IvaInv, Sights, Stays

\* A target that is remembered was seen, and there is a last time.
LEMMA LastSeen ==
  ASSUME IvaInv, NEW id \in DOMAIN ivaStates
  PROVE  \E k \in 1 .. Len(ivaFrames) :
           Seen(ivaFrames, k, id) # {} /\ Apart(ivaFrames, k, Len(ivaFrames) + 1, id)
<1> DEFINE n == Len(ivaFrames)
           T == {k \in 1 .. n : Seen(ivaFrames, k, id) # {}}
           U == {n - k : k \in T}
<1>1. n \in Nat
  BY DEF IvaInv
<1>2. T # {}
  BY DEF IvaInv, Sights
<1>3. U \subseteq Nat /\ U # {}
  BY <1>1, <1>2
<1>4. PICK m \in U : \A e \in U : m <= e
  BY <1>3, Least
<1>5. PICK k \in T : m = n - k
  BY <1>4
<1>6. ASSUME NEW i \in k + 1 .. n, Seen(ivaFrames, i, id) # {} PROVE FALSE
  <2>1. i \in T
    BY <1>1, <1>5, <1>6
  <2>2. n - k <= n - i
    BY <1>4, <1>5, <2>1
  <2> QED
    BY <1>1, <1>5, <1>6, <2>2
<1>7. (n + 1) - 1 = n
  BY <1>1
<1> QED
  BY <1>5, <1>6, <1>7 DEF Apart

-----------------------------------------------------------------------------
(* A frame. *)

LEMMA FrameStep ==
  ASSUME IvaInv, NEW detections \in Analysis!Detections, Analysis!Process(detections)
  PROVE  IvaInv'
<1> DEFINE all == Analysis!Update(detections)
           seen == Analysis!Supported(all)
           time == ivaNow + 1
           events(id) == Analysis!EventsOf(id, all[id], time)
           sight(id) == [id |-> id, at |-> all[id].center, events |-> events(id)]
           state(id) == Analysis!RegionStep(id, all[id], time).state
           f == [time |-> time, detections |-> detections, seen |-> {sight(id) : id \in seen}]
           fr == ivaFrames
           gr == ivaFrames'
           L == Len(ivaFrames)
           K == L + 1
<1>1. /\ ivaTracks' = all /\ ivaNow' = time
      /\ ivaNextId' = ivaNextId + Cardinality(Analysis!Left(detections))
      /\ ivaStates' = [id \in DOMAIN ivaStates \cup seen |->
                         IF id \in seen THEN state(id) ELSE ivaStates[id]]
      /\ gr = Append(fr, f)
  BY Counting DEF Analysis!Process
<1>2. Tracked(all, detections, ivaNextId')
  BY <1>1, UpdateFacts DEF IvaInv
<1>3. seen = {id \in DOMAIN all : all[id].missed = 0}
  BY DEF Analysis!Supported
<1>4. /\ ivaNow \in Nat /\ time \in Nat /\ ivaNextId \in Nat \ {0} /\ ivaNextId' \in Nat \ {0}
      /\ ivaNextId' >= ivaNextId
      /\ ivaStates \in [DOMAIN ivaStates -> StateType]
      /\ DOMAIN ivaStates \subseteq 1 .. ivaNextId - 1
      /\ DOMAIN all \subseteq 1 .. ivaNextId' - 1
      /\ fr \in Seq(FrameType) /\ L \in Nat
  BY <1>2 DEF IvaInv, TracksInv, Tracked
<1> HIDE DEF all
<1>5. TracksInv'
  BY <1>1, <1>2, <1>4 DEF Tracked, TracksInv
<1>6. ASSUME NEW id \in DOMAIN all PROVE all[id].center \in Analysis!Positions
  BY <1>2 DEF Tracked, TrackType
<1>7. ASSUME NEW id \in seen PROVE id \in DOMAIN all /\ RuleFacts(id, all[id], time)
  <2>1. id \in DOMAIN all
    BY <1>3
  <2> QED
    BY <1>4, <1>6, <2>1, RuleSteps
<1>8. ASSUME NEW id \in seen
      PROVE  /\ sight(id).id = id /\ sight(id).at = all[id].center
             /\ sight(id).events = events(id) /\ sight(id) \in SightType
  <2>1. events(id) \subseteq {"entered", "left", "intrusion", "crossed"}
    BY <1>7 DEF RuleFacts
  <2>2. id \in 1 .. ivaNextId' - 1 /\ all[id].center \in Analysis!Positions
    BY <1>4, <1>6, <1>7
  <2>3. id \in Nat
    BY <1>4, <2>2
  <2> HIDE DEF events
  <2> QED
    BY <2>1, <2>2, <2>3 DEF SightType
<1> HIDE DEF seen, sight, events, state
<1>9. /\ f.seen = {sight(id) : id \in seen} /\ f.detections = detections /\ f.time = time
      /\ f \in FrameType
  BY <1>4, <1>8 DEF FrameType
<1> HIDE DEF f
<1>10. /\ gr \in Seq(FrameType) /\ Len(gr) = K /\ gr[K] = f /\ K \in 1 .. K
       /\ \A i \in 1 .. L : gr[i] = fr[i] /\ i \in 1 .. K
  BY <1>1, <1>4, <1>9
<1>11. ASSUME NEW id
       PROVE  /\ id \in seen => Seen(gr, K, id) = {sight(id)}
              /\ id \notin seen => Seen(gr, K, id) = {}
              /\ \A i \in 1 .. L : Seen(gr, i, id) = Seen(fr, i, id)
  BY <1>8, <1>9, <1>10 DEF Seen
<1>12. /\ DOMAIN ivaStates' = DOMAIN ivaStates \cup seen
       /\ \A id \in seen : ivaStates'[id] = state(id)
       /\ \A id \in DOMAIN ivaStates \ seen : ivaStates'[id] = ivaStates[id]
  BY <1>1
<1>13. ivaStates' \in [DOMAIN ivaStates' -> StateType] /\ DOMAIN ivaStates' \subseteq 1 .. ivaNextId' - 1
  <2>1. \A id \in seen : state(id) \in StateType
    BY <1>7 DEF RuleFacts, state
  <2>2. ivaStates' \in [DOMAIN ivaStates' -> StateType]
    BY <1>1, <1>4, <2>1
  <2>3. \A id \in seen : id \in 1 .. ivaNextId' - 1
    BY <1>4, <1>7
  <2>4. \A id \in DOMAIN ivaStates : id \in 1 .. ivaNextId' - 1
    <3> TAKE id \in DOMAIN ivaStates
    <3>1. id \in 1 .. ivaNextId - 1
      BY <1>4
    <3> QED
      BY <1>4, <3>1
  <2> QED
    BY <1>12, <2>2, <2>3, <2>4
<1>14. ASSUME NEW id, NEW j \in 1 .. L
       PROVE  /\ Apart(gr, j, K, id) = Apart(fr, j, K, id)
              /\ Apart(gr, j, K + 1, id) => id \notin seen /\ Apart(fr, j, K, id)
              /\ StayFrom(gr, j, L, id) = StayFrom(fr, j, L, id)
              /\ QuietFrom(gr, j, L, id) = QuietFrom(fr, j, L, id)
              /\ StayFrom(gr, j, K, id) <=>
                   StayFrom(fr, j, L, id) /\ \A s \in Seen(gr, K, id) : Analysis!Inside(s.at)
              /\ QuietFrom(gr, j, K, id) <=>
                   QuietFrom(fr, j, L, id) /\ \A s \in Seen(gr, K, id) : "intrusion" \notin s.events
  <2>1. K - 1 = L /\ (K + 1) - 1 = K /\ \A i \in j + 1 .. L : i \in 1 .. L /\ i \in j + 1 .. K
    BY <1>4
  <2>2. K \in j + 1 .. K /\ K \in j .. K
    BY <1>4
  <2>3. (\A i \in j .. L : i \in 1 .. L /\ i \in j .. K) /\ \A i \in j .. K : i \in j .. L \/ i = K
    BY <1>4
  <2> HIDE DEF K
  <2>4. Apart(gr, j, K, id) = Apart(fr, j, K, id)
    BY <1>11, <2>1 DEF Apart
  <2>5. Apart(gr, j, K + 1, id) => id \notin seen /\ Apart(fr, j, K, id)
    BY <1>11, <2>1, <2>2 DEF Apart
  <2>6. /\ StayFrom(gr, j, L, id) = StayFrom(fr, j, L, id)
        /\ StayFrom(gr, j, K, id) <=>
             StayFrom(fr, j, L, id) /\ \A s \in Seen(gr, K, id) : Analysis!Inside(s.at)
    BY <1>11, <2>2, <2>3 DEF StayFrom
  <2>7. /\ QuietFrom(gr, j, L, id) = QuietFrom(fr, j, L, id)
        /\ QuietFrom(gr, j, K, id) <=>
             QuietFrom(fr, j, L, id) /\ \A s \in Seen(gr, K, id) : "intrusion" \notin s.events
    BY <1>11, <2>2, <2>3 DEF QuietFrom
  <2> QED
    BY <2>4, <2>5, <2>6, <2>7
<1>15. ASSUME NEW id \in seen, id < ivaNextId
       PROVE  id \in DOMAIN ivaTracks
              /\ Analysis!Distance(ivaTracks[id].center, all[id].center) <= Reach
              /\ ivaTracks[id].missed \in 0 .. maximumMissedFrames
  <2>1. id \in DOMAIN ivaTracks /\ Follows(ivaTracks[id], all[id])
    BY <1>2, <1>7, <1>15 DEF Tracked
  <2>2. ivaTracks[id].missed \in 0 .. maximumMissedFrames
    BY <2>1 DEF IvaInv, TracksInv, TrackType
  <2>3. all[id].missed = 0 /\ ivaTracks[id].missed + 1 # 0
    BY <1>3, <2>2, IvaConstants
  <2> QED
    BY <2>1, <2>2, <2>3 DEF Follows
\* What the last sight j of a target was.
<1>16. ASSUME NEW id, NEW j \in 1 .. L, NEW s \in Seen(fr, j, id), Apart(fr, j, K, id)
       PROVE  /\ id \in DOMAIN ivaStates /\ (ivaStates[id].inside <=> Analysis!Inside(s.at))
              /\ id \in DOMAIN ivaTracks =>
                   ivaTracks[id].missed = L - j /\ ivaTracks[id].center = s.at
  <2>1. s \in fr[j].seen /\ s.id = id
    BY DEF Seen
  <2> QED
    BY <1>16, <2>1 DEF IvaInv, Sights
<1>17. ASSUME NEW id \in DOMAIN ivaStates PROVE id < ivaNextId
  <2>1. id \in 1 .. ivaNextId - 1
    BY <1>4
  <2> QED
    BY <1>4, <2>1
<1>18. FramesRight(gr, K)
  <2>1. FrameRight(f)
    <3>1. PICK h : /\ OneEach(h, seen, DOMAIN detections)
                   /\ \A id \in seen : detections[h[id]] = all[id].center
      BY <1>2 DEF Tracked, seen
    <3> DEFINE g == [s \in f.seen |-> h[s.id]]
    <3>2. \A s \in f.seen : s.id \in seen /\ s = sight(s.id) /\ s.at = all[s.id].center
      BY <1>8, <1>9
    <3>3. \A id \in seen : sight(id) \in f.seen /\ sight(id).id = id
      BY <1>8, <1>9
    <3>4. OneEach(g, f.seen, DOMAIN detections)
      <4>1. \A s \in f.seen : g[s] = h[s.id] /\ g[s] \in DOMAIN detections
        BY <3>1, <3>2 DEF OneEach
      <4>2. g \in [f.seen -> DOMAIN detections]
        BY <4>1
      <4> HIDE DEF g
      <4>3. \A s, t \in f.seen : g[s] = g[t] => s = t
        BY <3>1, <3>2, <4>1 DEF OneEach
      <4>4. \A d \in DOMAIN detections : \E s \in f.seen : g[s] = d
        BY <3>1, <3>3, <4>1 DEF OneEach
      <4> QED
        BY <4>2, <4>3, <4>4 DEF OneEach
    <3>5. \A s \in f.seen : detections[g[s]] = s.at
      BY <3>1, <3>2
    <3>6. \A s, t \in f.seen : s.id = t.id => s = t
      BY <3>2
    <3> HIDE DEF g
    <3> QED
      BY <1>9, <3>4, <3>5, <3>6 DEF FrameRight
  <2>2. \A j : j \in 1 .. K - 1 => j \in 1 .. L
    BY <1>4
  <2>3. \A id : Seen(gr, K, id) # {} => id \in seen
    BY <1>11
  <2>4. IdentityAt(gr, K)
    <3> SUFFICES ASSUME NEW id \in seen, NEW j \in 1 .. L,
                        Seen(gr, j, id) # {}, Apart(gr, j, K, id)
                 PROVE  /\ K - j <= maximumMissedFrames + 1
                        /\ \A s \in Seen(gr, j, id), t \in Seen(gr, K, id) :
                             Analysis!Distance(s.at, t.at) <= Reach
      <4> HIDE DEF K
      <4> QED
        BY <2>2, <2>3 DEF IdentityAt
    <3>1. Seen(gr, j, id) = Seen(fr, j, id) /\ Apart(fr, j, K, id)
      BY <1>11, <1>14
    <3>2. PICK s \in Seen(fr, j, id) : TRUE
      BY <3>1
    <3>3. id \in DOMAIN ivaStates /\ id < ivaNextId
      BY <1>16, <1>17, <3>1, <3>2
    <3>4. /\ id \in DOMAIN ivaTracks
          /\ Analysis!Distance(ivaTracks[id].center, all[id].center) <= Reach
          /\ ivaTracks[id].missed \in 0 .. maximumMissedFrames
      BY <1>15, <3>3
    <3>5. ivaTracks[id].missed = L - j
      BY <1>16, <3>1, <3>2, <3>4
    <3>6. \A t \in Seen(fr, j, id) : t.at = ivaTracks[id].center
      BY <1>16, <3>1, <3>4
    <3>7. \A t \in Seen(gr, K, id) : t.at = all[id].center
      BY <1>8, <1>11
    <3>8. K - j <= maximumMissedFrames + 1
      <4>1. L - j <= maximumMissedFrames /\ maximumMissedFrames \in Nat
        BY <3>4, <3>5, IvaConstants
      <4> QED
        BY <1>4, <4>1
    <3> QED
      BY <3>1, <3>4, <3>6, <3>7, <3>8
  <2>5. MovesAt(gr, K)
    <3> SUFFICES ASSUME NEW id \in seen
                 PROVE  /\ "entered" \in events(id) <=> EnteredAt(gr, K, id)
                        /\ "left" \in events(id) <=> LeftAt(gr, K, id)
      <4>1. \A id \in seen : \A s \in Seen(gr, K, id) : s.events = events(id)
        BY <1>8, <1>11
      <4> QED
        BY <1>8, <1>11, <2>3 DEF MovesAt
    <3>1. RuleFacts(id, all[id], time)
      BY <1>7
    <3>2. /\ EnteredAt(gr, K, id) <=>
               \E j \in 1 .. L : /\ Seen(fr, j, id) # {} /\ Apart(fr, j, K, id)
                                 /\ \E s \in Seen(fr, j, id) :
                                      ~Analysis!Inside(s.at) /\ Analysis!Inside(all[id].center)
          /\ LeftAt(gr, K, id) <=>
               \E j \in 1 .. L : /\ Seen(fr, j, id) # {} /\ Apart(fr, j, K, id)
                                 /\ \E s \in Seen(fr, j, id) :
                                      Analysis!Inside(s.at) /\ ~Analysis!Inside(all[id].center)
      <4>1. K - 1 = L
        BY <1>4
      <4>2. Seen(gr, K, id) = {sight(id)} /\ sight(id).at = all[id].center
        BY <1>8, <1>11
      <4> HIDE DEF K, L
      <4> QED
        BY <1>11, <1>14, <4>1, <4>2 DEF EnteredAt, LeftAt
    <3>3. CASE id \notin DOMAIN ivaStates
      BY <1>16, <3>1, <3>2, <3>3 DEF RuleFacts, events
    <3>4. CASE id \in DOMAIN ivaStates
      <4>1. PICK j \in 1 .. L : Seen(fr, j, id) # {} /\ Apart(fr, j, K, id)
        BY <3>4, LastSeen
      <4>2. PICK s \in Seen(fr, j, id) : TRUE
        BY <4>1
      <4>3. ivaStates[id].inside <=> Analysis!Inside(s.at)
        BY <1>16, <4>1
      <4>4. \A i \in 1 .. L : Apart(fr, i, K, id) =>
              \A t \in Seen(fr, i, id) : ivaStates[id].inside <=> Analysis!Inside(t.at)
        BY <1>16
      <4>5. EnteredAt(gr, K, id) <=> ~ivaStates[id].inside /\ Analysis!Inside(all[id].center)
        BY <3>2, <4>1, <4>3, <4>4
      <4>6. LeftAt(gr, K, id) <=> ivaStates[id].inside /\ ~Analysis!Inside(all[id].center)
        BY <3>2, <4>1, <4>3, <4>4
      <4> QED
        BY <3>1, <3>4, <4>5, <4>6 DEF RuleFacts, events
    <3> QED
      BY <3>3, <3>4
  <2>6. IntrusionAt(gr, K)
    <3> SUFFICES ASSUME NEW id \in seen, "intrusion" \in events(id)
                 PROVE  \E j \in 1 .. K - 1 :
                          /\ Seen(gr, j, id) # {} /\ gr[K].time - gr[j].time >= dwellTime
                          /\ StayFrom(gr, j, K, id) /\ QuietFrom(gr, j, K - 1, id)
      <4>1. \A id \in seen : \A s \in Seen(gr, K, id) : s.events = events(id)
        BY <1>8, <1>11
      <4> HIDE DEF K
      <4> QED
        BY <2>3, <4>1 DEF IntrusionAt
    <3>1. /\ id \in DOMAIN ivaStates /\ ivaStates[id].inside /\ Analysis!Inside(all[id].center)
          /\ ~ivaStates[id].triggered /\ time - ivaStates[id].enteredAt >= dwellTime
      BY <1>7 DEF RuleFacts, events
    <3>2. PICK j \in 1 .. L :
            /\ Seen(fr, j, id) # {} /\ fr[j].time = ivaStates[id].enteredAt
            /\ StayFrom(fr, j, L, id) /\ QuietFrom(fr, j, L, id)
      BY <3>1 DEF IvaInv, Stays, StayOf
    <3>3. \A s \in Seen(gr, K, id) : Analysis!Inside(s.at)
      BY <1>8, <1>11, <3>1
    <3>4. StayFrom(gr, j, K, id) /\ QuietFrom(gr, j, L, id)
      BY <1>14, <3>2, <3>3
    <3>5. gr[K].time - gr[j].time >= dwellTime /\ Seen(gr, j, id) # {}
      BY <1>9, <1>10, <1>11, <3>1, <3>2
    <3>6. K - 1 = L
      BY <1>4
    <3> QED
      BY <3>4, <3>5, <3>6
  <2> QED
    BY <1>10, <2>1, <2>4, <2>5, <2>6 DEF FramesRight
<1>19. \A k \in 1 .. Len(gr) : FramesRight(gr, k)
  <2> TAKE k \in 1 .. Len(gr)
  <2>1. CASE k = K
    BY <1>18, <2>1
  <2>2. CASE k # K
    <3>1. k \in 1 .. L /\ k \in Nat \ {0} /\ \A i \in 1 .. k : i \in 1 .. L
      BY <1>4, <1>10, <2>2
    <3>2. FramesRight(fr, k) /\ \A i \in 1 .. k : gr[i] = fr[i]
      BY <1>10, <3>1 DEF IvaInv
    <3> QED
      BY <3>1, <3>2, FramesStay
  <2> QED
    BY <2>1, <2>2
<1>20. Sights'
  <2>1. ASSUME NEW id \in DOMAIN ivaStates' PROVE \E k \in 1 .. K : Seen(gr, k, id) # {}
    <3>1. CASE id \in seen
      BY <1>10, <1>11, <3>1
    <3>2. CASE id \in DOMAIN ivaStates
      <4>1. PICK k \in 1 .. L : Seen(fr, k, id) # {}
        BY <3>2 DEF IvaInv, Sights
      <4> QED
        BY <1>10, <1>11, <4>1
    <3> QED
      BY <1>12, <3>1, <3>2
  <2>2. ASSUME NEW k \in 1 .. K, NEW s \in gr[k].seen
        PROVE  /\ s.id \in DOMAIN ivaStates'
               /\ Apart(gr, k, K + 1, s.id) =>
                    /\ ivaStates'[s.id].inside <=> Analysis!Inside(s.at)
                    /\ s.id \in DOMAIN all =>
                         all[s.id].missed = K - k /\ all[s.id].center = s.at
    <3>1. CASE k = K
      <4>1. s.id \in seen /\ s.at = all[s.id].center
        BY <1>8, <1>9, <1>10, <3>1
      <4>2. RuleFacts(s.id, all[s.id], time) /\ ivaStates'[s.id] = state(s.id)
        BY <1>7, <1>12, <4>1
      <4>3. ivaStates'[s.id].inside <=> Analysis!Inside(s.at)
        BY <4>1, <4>2 DEF RuleFacts, state
      <4>4. all[s.id].missed = 0 /\ K - k = 0
        BY <1>3, <1>4, <3>1, <4>1
      <4> QED
        BY <1>12, <4>1, <4>3, <4>4
    <3>2. CASE k # K
      <4>1. k \in 1 .. L /\ gr[k] = fr[k]
        BY <1>4, <1>10, <3>2
      <4>2. s \in Seen(fr, k, s.id)
        BY <4>1 DEF Seen
      <4>3. s.id \in DOMAIN ivaStates
        BY <4>1 DEF IvaInv, Sights
      <4>4. ASSUME Apart(gr, k, K + 1, s.id)
            PROVE  /\ ivaStates'[s.id].inside <=> Analysis!Inside(s.at)
                   /\ s.id \in DOMAIN all =>
                        all[s.id].missed = K - k /\ all[s.id].center = s.at
        <5>1. s.id \notin seen /\ Apart(fr, k, K, s.id)
          BY <1>14, <4>1, <4>4
        <5>2. ivaStates'[s.id].inside <=> Analysis!Inside(s.at)
          BY <1>12, <1>16, <4>1, <4>2, <4>3, <5>1
        <5>3. ASSUME s.id \in DOMAIN all
              PROVE  all[s.id].missed = K - k /\ all[s.id].center = s.at
          <6>1. s.id \in DOMAIN ivaTracks /\ Follows(ivaTracks[s.id], all[s.id])
            BY <1>2, <1>17, <4>3, <5>3 DEF Tracked
          <6>2. all[s.id].missed # 0
            BY <1>3, <5>1, <5>3
          <6>3. ivaTracks[s.id].missed = L - k /\ ivaTracks[s.id].center = s.at
            BY <1>16, <4>1, <4>2, <5>1, <6>1
          <6>4. (L - k) + 1 = K - k
            BY <1>4, <4>1
          <6> QED
            BY <6>1, <6>2, <6>3, <6>4 DEF Follows
        <5> QED
          BY <5>2, <5>3
      <4> QED
        BY <1>12, <4>3, <4>4
    <3> QED
      BY <3>1, <3>2
  <2> HIDE DEF K
  <2> QED
    <3>1. \A id \in DOMAIN ivaStates' : \E k \in 1 .. Len(gr) : Seen(gr, k, id) # {}
      BY <1>10, <2>1
    <3>2. \A k \in 1 .. Len(gr) : \A s \in gr[k].seen :
            /\ s.id \in DOMAIN ivaStates'
            /\ Apart(gr, k, Len(gr) + 1, s.id) =>
                 /\ ivaStates'[s.id].inside <=> Analysis!Inside(s.at)
                 /\ s.id \in DOMAIN ivaTracks' =>
                      ivaTracks'[s.id].missed = Len(gr) - k /\ ivaTracks'[s.id].center = s.at
      <4>1. Len(gr) = K /\ ivaTracks' = all
        BY <1>1, <1>10
      <4> HIDE DEF gr
      <4> QED
        BY <2>2, <4>1, Zenon
    <3> QED
      BY <3>1, <3>2 DEF Sights
<1>21. Stays'
  <2> SUFFICES ASSUME NEW id \in DOMAIN ivaStates', ivaStates'[id].inside
               PROVE  StayOf(id, gr, K, ivaStates'[id])
    <3> HIDE DEF K
    <3> QED
      BY <1>10 DEF Stays, StayOf, Seen, StayFrom, QuietFrom
  <2>1. ASSUME id \in DOMAIN ivaStates, ivaStates[id].inside,
               ivaStates'[id].enteredAt = ivaStates[id].enteredAt,
               ~ivaStates'[id].triggered => ~ivaStates[id].triggered,
               \A s \in Seen(gr, K, id) : Analysis!Inside(s.at),
               ~ivaStates'[id].triggered => \A s \in Seen(gr, K, id) : "intrusion" \notin s.events
        PROVE  StayOf(id, gr, K, ivaStates'[id])
    <3>1. PICK j \in 1 .. L :
            /\ Seen(fr, j, id) # {} /\ fr[j].time = ivaStates[id].enteredAt
            /\ StayFrom(fr, j, L, id)
            /\ ~ivaStates[id].triggered => QuietFrom(fr, j, L, id)
      BY <2>1 DEF IvaInv, Stays, StayOf
    <3>2. StayFrom(gr, j, K, id)
      BY <1>14, <2>1, <3>1
    <3>3. ~ivaStates'[id].triggered => QuietFrom(gr, j, K, id)
      BY <1>14, <2>1, <3>1
    <3>4. j \in 1 .. K /\ Seen(gr, j, id) # {} /\ gr[j].time = ivaStates'[id].enteredAt
      BY <1>10, <1>11, <2>1, <3>1
    <3> QED
      BY <3>2, <3>3, <3>4 DEF StayOf
  <2>2. ASSUME id \in seen, ivaStates'[id].enteredAt = time, "intrusion" \notin events(id),
               Analysis!Inside(all[id].center)
        PROVE  StayOf(id, gr, K, ivaStates'[id])
    <3>1. Seen(gr, K, id) # {} /\ gr[K].time = ivaStates'[id].enteredAt
      BY <1>9, <1>10, <1>11, <2>2
    <3>2. \A s \in Seen(gr, K, id) : Analysis!Inside(s.at) /\ "intrusion" \notin s.events
      BY <1>8, <1>11, <2>2
    <3>3. \A i \in K .. K : i = K
      BY <1>4
    <3>4. StayFrom(gr, K, K, id) /\ QuietFrom(gr, K, K, id)
      BY <3>2, <3>3 DEF StayFrom, QuietFrom
    <3> QED
      BY <1>10, <3>1, <3>4 DEF StayOf
  <2>3. CASE id \notin seen
    <3>1. id \in DOMAIN ivaStates /\ ivaStates'[id] = ivaStates[id] /\ Seen(gr, K, id) = {}
      BY <1>11, <1>12, <2>3
    <3> QED
      BY <2>1, <3>1
  <2>4. CASE id \in seen
    <3>1. RuleFacts(id, all[id], time) /\ ivaStates'[id] = state(id)
      BY <1>7, <1>12, <2>4
    <3>2. Analysis!Inside(all[id].center)
      BY <3>1 DEF RuleFacts, state
    <3>3. \A s \in Seen(gr, K, id) : Analysis!Inside(s.at) /\ s.events = events(id)
      BY <1>8, <1>11, <2>4, <3>2
    <3>4. CASE id \notin DOMAIN ivaStates
      BY <2>2, <2>4, <3>1, <3>2, <3>4 DEF RuleFacts, state, events
    <3>5. CASE id \in DOMAIN ivaStates /\ ~ivaStates[id].inside
      BY <2>2, <2>4, <3>1, <3>2, <3>5 DEF RuleFacts, state, events
    <3>6. CASE id \in DOMAIN ivaStates /\ ivaStates[id].inside
      <4>1. /\ ivaStates'[id].enteredAt = ivaStates[id].enteredAt
            /\ ~ivaStates'[id].triggered =>
                 ~ivaStates[id].triggered /\ "intrusion" \notin events(id)
        BY <3>1, <3>2, <3>6 DEF RuleFacts, state, events
      <4> QED
        BY <2>1, <3>3, <3>6, <4>1
    <3> QED
      BY <3>4, <3>5, <3>6
  <2> QED
    BY <2>3, <2>4
<1> QED
  BY <1>1, <1>4, <1>5, <1>10, <1>13, <1>19, <1>20, <1>21 DEF IvaInv

-----------------------------------------------------------------------------
(* What the invariant says of the frames. *)

\* Those of one position are as many as the detections there.
LEMMA OneEachAt ==
  ASSUME NEW f, FrameRight(f), NEW p
  PROVE  Cardinality({s \in f.seen : s.at = p})
           = Cardinality({i \in DOMAIN f.detections : f.detections[i] = p})
<1> DEFINE S == {s \in f.seen : s.at = p}
           D == {i \in DOMAIN f.detections : f.detections[i] = p}
<1>1. PICK h : /\ OneEach(h, f.seen, DOMAIN f.detections)
               /\ \A s \in f.seen : f.detections[h[s]] = s.at
  BY DEF FrameRight
<1>2. IsFiniteSet(D)
  BY DetectionFacts, FS_Subset DEF FrameRight
<1> DEFINE g == [s \in S |-> h[s]]
<1>3. \A s \in S : s \in f.seen /\ g[s] = h[s] /\ g[s] \in D
  BY <1>1 DEF OneEach
<1>4. \A i \in D : \E s \in S : g[s] = i
  <2> TAKE i \in D
  <2>1. PICK s \in f.seen : h[s] = i
    BY <1>1 DEF OneEach
  <2> QED
    BY <1>1, <1>3, <2>1
<1>5. g \in [S -> D]
  BY <1>3
<1> HIDE DEF g, S, D
<1>6. OneEach(g, S, D)
  BY <1>1, <1>3, <1>4, <1>5 DEF OneEach
<1> QED
  BY <1>2, <1>6, OneEachCounts DEF S, D

LEMMA IvaRight ==
  IvaInv => /\ Analysis!OneTargetEach /\ Analysis!IdentityKept
            /\ Analysis!MovesReported /\ Analysis!IntrusionIsAStay
<1> SUFFICES ASSUME IvaInv
             PROVE  /\ Analysis!OneTargetEach /\ Analysis!IdentityKept
                    /\ Analysis!MovesReported /\ Analysis!IntrusionIsAStay
  OBVIOUS
<1> DEFINE fr == ivaFrames
<1>1. /\ DOMAIN fr = 1 .. Len(fr) /\ Len(fr) \in Nat
      /\ \A k \in DOMAIN fr : FramesRight(fr, k)
  BY DEF IvaInv
<1>2. \A k, id : Analysis!SeenAs(k, id) = Seen(fr, k, id)
  BY DEF Analysis!SeenAs, Seen
<1>3. \A j, k, id : Analysis!Unseen(j, k, id) = Apart(fr, j, k, id)
  BY <1>2 DEF Analysis!Unseen, Apart
<1>4. \A k, id, event : Analysis!Event(k, id, event) <=> \E s \in Seen(fr, k, id) : event \in s.events
  BY <1>2 DEF Analysis!Event
<1>5. \A k \in DOMAIN fr : \A j \in DOMAIN fr : j < k => j \in 1 .. k - 1
  BY <1>1
<1>6. \A k \in DOMAIN fr : \A j \in 1 .. k - 1 : j \in DOMAIN fr
  BY <1>1
<1>7. Analysis!OneTargetEach
  <2> SUFFICES ASSUME NEW k \in DOMAIN fr
               PROVE  /\ Analysis!Cardinality(fr[k].seen) = Len(fr[k].detections)
                      /\ \A s, t \in fr[k].seen : s.id = t.id => s = t
                      /\ \A p \in Analysis!Positions :
                           Analysis!Cardinality({s \in fr[k].seen : s.at = p})
                             = Analysis!Cardinality({i \in DOMAIN fr[k].detections :
                                                       fr[k].detections[i] = p})
    BY DEF Analysis!OneTargetEach
  <2>1. FrameRight(fr[k])
    BY <1>1 DEF FramesRight
  <2>2. PICK h : OneEach(h, fr[k].seen, DOMAIN fr[k].detections)
    BY <2>1 DEF FrameRight
  <2>3. /\ IsFiniteSet(DOMAIN fr[k].detections)
        /\ Cardinality(DOMAIN fr[k].detections) = Len(fr[k].detections)
    BY <2>1, DetectionFacts DEF FrameRight
  <2>4. Cardinality(fr[k].seen) = Len(fr[k].detections)
    BY <2>2, <2>3, OneEachCounts
  <2>5. \A s, t \in fr[k].seen : s.id = t.id => s = t
    BY <2>1 DEF FrameRight
  <2>6. ASSUME NEW p
        PROVE  Analysis!Cardinality({s \in fr[k].seen : s.at = p})
                 = Analysis!Cardinality({i \in DOMAIN fr[k].detections :
                                           fr[k].detections[i] = p})
    BY <2>1, OneEachAt, Counting
  <2> QED
    BY <2>4, <2>5, <2>6, Counting
<1>8. Analysis!IdentityKept
  <2> SUFFICES ASSUME NEW id, NEW j \in DOMAIN fr, NEW k \in DOMAIN fr, j < k,
                      Seen(fr, j, id) # {}, Seen(fr, k, id) # {}, Apart(fr, j, k, id)
               PROVE  /\ k - j <= maximumMissedFrames + 1
                      /\ \A s \in Seen(fr, j, id), t \in Seen(fr, k, id) :
                           Analysis!Distance(s.at, t.at) <= Reach
    BY <1>2, <1>3 DEF Analysis!IdentityKept
  <2> QED
    BY <1>1, <1>5 DEF FramesRight, IdentityAt
<1>9. Analysis!MovesReported
  <2> SUFFICES ASSUME NEW id, NEW k \in DOMAIN fr, Seen(fr, k, id) # {}
               PROVE  LET before == {j \in 1 .. k - 1 : Analysis!SeenAs(j, id) # {}
                                                        /\ Analysis!Unseen(j, k, id)} IN
                      /\ Analysis!Event(k, id, "entered") <=>
                           \E j \in before :
                             \E s \in Analysis!SeenAs(j, id), t \in Analysis!SeenAs(k, id) :
                               ~Analysis!Inside(s.at) /\ Analysis!Inside(t.at)
                      /\ Analysis!Event(k, id, "left") <=>
                           \E j \in before :
                             \E s \in Analysis!SeenAs(j, id), t \in Analysis!SeenAs(k, id) :
                               Analysis!Inside(s.at) /\ ~Analysis!Inside(t.at)
    BY <1>2 DEF Analysis!MovesReported
  <2>1. /\ Analysis!Event(k, id, "entered") <=> EnteredAt(fr, k, id)
        /\ Analysis!Event(k, id, "left") <=> LeftAt(fr, k, id)
    BY <1>1, <1>4 DEF FramesRight, MovesAt
  <2> QED
    BY <1>2, <1>3, <2>1 DEF EnteredAt, LeftAt
<1>10. Analysis!IntrusionIsAStay
  <2> SUFFICES ASSUME NEW id, NEW k \in DOMAIN fr,
                      \E s \in Seen(fr, k, id) : "intrusion" \in s.events
               PROVE  \E j \in 1 .. k - 1 :
                        /\ Seen(fr, j, id) # {} /\ fr[k].time - fr[j].time >= dwellTime
                        /\ \A i \in j .. k : \A s \in Seen(fr, i, id) : Analysis!Inside(s.at)
                        /\ \A i \in j .. k - 1 :
                             ~\E s \in Seen(fr, i, id) : "intrusion" \in s.events
    BY <1>2, <1>4 DEF Analysis!IntrusionIsAStay
  <2>1. PICK j \in 1 .. k - 1 :
          /\ Seen(fr, j, id) # {} /\ fr[k].time - fr[j].time >= dwellTime
          /\ StayFrom(fr, j, k, id) /\ QuietFrom(fr, j, k - 1, id)
    BY <1>1 DEF FramesRight, IntrusionAt
  <2> QED
    BY <2>1 DEF StayFrom, QuietFrom
<1> QED
  BY <1>7, <1>8, <1>9, <1>10

LEMMA IvaStep == IvaInv /\ Analysis!Next => IvaInv'
BY FrameStep, IvaResets DEF Analysis!Next

LEMMA IvaStays == IvaInv /\ UNCHANGED ivaVars => IvaInv'
<1> SUFFICES ASSUME IvaInv, UNCHANGED ivaVars PROVE IvaInv'
  OBVIOUS
<1>1. UNCHANGED <<ivaTracks, ivaNextId, ivaStates, ivaNow, ivaFrames>>
  BY DEF ivaVars
<1>2. TracksInv'
  BY <1>1 DEF IvaInv, TracksInv
<1>3. Sights' /\ Stays'
  BY <1>1 DEF IvaInv, Sights, Stays
<1> QED
  BY <1>1, <1>2, <1>3 DEF IvaInv

-----------------------------------------------------------------------------
(* The storage manager. *)

(* Its inductive invariant. *)

\* Where a call holds State::mutex.
Critical == {"save", "rename", "renameAgain", "clean", "done"}

OneHolder == \A a \in Actors : at[a] \in Critical => lock = a

\* The temporary index is what the holder of the mutex has in memory.
TemporaryCurrent ==
  \A a \in Actors : at[a] \in {"rename", "renameAgain"} => temporary = recordings

\* A recorder has one segment in hand: open, or closed and not listed yet.
OneSegment ==
  \A r \in Recorders :
    /\ at[r] = "list" <=> closing[r] # 0
    /\ at[r] # "idle" => writing[r] = 0

\* The sequence number of the next segment was never used.
Fresh ==
  /\ \A s \in Segments : s >= nextSegment => files[s] = Absent
  /\ \A s \in gone : s < nextSegment

\* What was deleted is deleted.
Deleted == gone \cap Present = {}

\* What was saved is in memory as well as in the index.
Kept == ~refused => saved \ gone \subseteq recordings \cap index

StorageInv ==
  /\ TypeOK /\ OneHolder /\ TemporaryCurrent /\ OneSegment /\ Fresh /\ Deleted /\ Kept
  /\ FilesAccounted

USE SizesAssumption, ActorsAssumption DEF Actors, Absent, NoIndex

-----------------------------------------------------------------------------
(* Type correctness, the actions with data first. *)

LEMMA FullBoolean == \A n : Full(n) \in BOOLEAN
BY DEF Full

(* finishSegmentLocked() closes a segment: it is to be listed, or is left  *)
(* behind.                                                                 *)
LEMMA CloseType ==
  ASSUME TypeOK, NEW r \in Recorders, writing[r] # 0,
         NEW name \in {"rotate", "stop"}, CloseSegment(r, name),
         running' \in [Recorders -> BOOLEAN]
  PROVE TypeOK'
<1>1. writing[r] \in Segments
  BY DEF TypeOK, Segments
<1>2. closing' \in [Recorders -> 0 .. MaxSegments]
  <2>1. closing' = [closing EXCEPT ![r] = writing[r]] \/ closing' = closing
    BY DEF CloseSegment
  <2> QED
    BY <2>1 DEF TypeOK
<1>3. leaked' \subseteq Segments
  <2>1. leaked' = leaked \/ leaked' = leaked \cup {writing[r]}
    BY DEF CloseSegment
  <2> QED
    BY <1>1, <2>1 DEF TypeOK
<1>4. /\ at' = at \/ at' = [at EXCEPT ![r] = "list"]
      /\ call' = call \/ call' = [call EXCEPT ![r] = name]
  BY DEF CloseSegment, Enter, Goto
<1>5. /\ writing' = [writing EXCEPT ![r] = 0]
      /\ UNCHANGED <<broken, rotate, recordings, lock, changed, files, index, temporary,
                     nextSegment, saved, gone, refused>>
  BY DEF CloseSegment, diskVars
<1> QED
  BY <1>2, <1>3, <1>4, <1>5 DEF TypeOK

LEMMA OpenType == ASSUME TypeOK, NEW r \in Recorders, OpenSegment(r) PROVE TypeOK'
<1>1. files' \in [Segments -> Absent .. MaxFile]
  <2>1. \E n \in {0, 1} : files' = [files EXCEPT ![nextSegment] = n]
    BY DEF OpenSegment
  <2>2. {0, 1} \subseteq Absent .. MaxFile
    OBVIOUS
  <2> QED
    BY ZenonT(30), <2>1, <2>2 DEF TypeOK
<1>2. rotate' \in [Recorders -> BOOLEAN]
  BY FullBoolean DEF OpenSegment, TypeOK
<1>3. broken' \in [Recorders -> BOOLEAN]
  BY DEF OpenSegment, TypeOK
<1>4. writing' \in [Recorders -> 0 .. MaxSegments] /\ nextSegment' \in 1 .. MaxSegments + 1
  BY DEF OpenSegment, TypeOK
<1>5. /\ at' = [at EXCEPT ![r] = "idle"] /\ call' = [call EXCEPT ![r] = "none"]
      /\ UNCHANGED <<running, closing, recordings, lock, changed, index, temporary, saved,
                     gone, leaked, refused>>
  BY DEF OpenSegment, Enter, Goto, historyVars
<1> QED
  BY <1>1, <1>2, <1>3, <1>4, <1>5 DEF TypeOK

LEMMA WriteType == ASSUME TypeOK, NEW r \in Recorders, WritePacket(r) PROVE TypeOK'
<1>1. files' \in [Segments -> Absent .. MaxFile]
  BY DEF WritePacket, TypeOK
<1>2. rotate' \in [Recorders -> BOOLEAN] /\ broken' \in [Recorders -> BOOLEAN]
  BY ZenonT(30), FullBoolean DEF WritePacket, TypeOK
<1>3. UNCHANGED <<running, writing, closing, recordings, lock, at, call, changed, index,
                  temporary, nextSegment, saved, gone, leaked, refused>>
  BY DEF WritePacket, controlVars, historyVars
<1> QED
  BY <1>1, <1>2, <1>3 DEF TypeOK

LEMMA ListType ==
  ASSUME TypeOK, OneSegment, NEW r \in Recorders, ListSegment(r) PROVE TypeOK'
<1>1. closing[r] \in Segments
  BY DEF ListSegment, TypeOK, OneSegment, Segments
<1>2. recordings' = recordings \cup {closing[r]} /\ lock' = r
  BY DEF ListSegment
<1>3. closing' = [closing EXCEPT ![r] = 0] /\ at' = [at EXCEPT ![r] = "save"]
  BY DEF ListSegment, Goto
<1>4. UNCHANGED <<running, writing, broken, rotate, call, changed, files, index, temporary,
                  nextSegment, saved, gone, leaked, refused>>
  BY DEF ListSegment, diskVars, historyVars
<1> QED
  BY <1>1, <1>2, <1>3, <1>4 DEF TypeOK

LEMMA CrashType == ASSUME TypeOK, Crash PROVE TypeOK'
<1>1. Loaded(index) \subseteq Segments
  BY DEF TypeOK, Loaded
<1>2. /\ running' \in [Recorders -> BOOLEAN] /\ writing' \in [Recorders -> 0 .. MaxSegments]
      /\ broken' \in [Recorders -> BOOLEAN] /\ rotate' \in [Recorders -> BOOLEAN]
      /\ closing' \in [Recorders -> 0 .. MaxSegments]
  BY DEF Crash
<1>3. recordings' \subseteq Segments /\ leaked' \subseteq Segments
  BY <1>1 DEF Crash, Present
<1>4. /\ at' \in [Actors -> {"idle"}] /\ call' \in [Actors -> {"none"}]
      /\ lock' = Nobody /\ changed' = FALSE /\ temporary' = NoIndex
      /\ UNCHANGED <<files, index, nextSegment, saved, gone, refused>>
  BY DEF Crash
<1> QED
  BY ZenonT(30), <1>2, <1>3, <1>4 DEF TypeOK

(* Every step keeps the types.                                             *)
LEMMA TypeStep == TypeOK /\ TemporaryCurrent /\ OneSegment /\ [Next]_vars => TypeOK'
<1> SUFFICES ASSUME TypeOK, TemporaryCurrent, OneSegment, [Next]_vars PROVE TypeOK'
  OBVIOUS
<1>1. ASSUME NEW r \in Recorders, StartRecorder(r) PROVE TypeOK'
  BY <1>1 DEF StartRecorder, controlVars, diskVars, historyVars, TypeOK
<1>2. ASSUME NEW r \in Recorders, OpenSegment(r) PROVE TypeOK'
  BY <1>2, OpenType DEF OpenSegment, Enter, Goto, historyVars
<1>3. ASSUME NEW r \in Recorders, OpenFails(r) PROVE TypeOK'
  BY <1>3 DEF OpenFails, Enter, Goto, recorderVars, diskVars, historyVars, TypeOK
<1>4. ASSUME NEW r \in Recorders, WritePacket(r) PROVE TypeOK'
  BY <1>4, WriteType DEF WritePacket, controlVars, historyVars
<1>5. ASSUME NEW r \in Recorders, Rotate(r) PROVE TypeOK'
  BY <1>5, CloseType DEF Rotate, CloseSegment, Enter, Goto, diskVars, TypeOK
<1>6. ASSUME NEW r \in Recorders, StopRecorder(r) PROVE TypeOK'
  BY <1>6, CloseType DEF StopRecorder, CloseSegment, Enter, Goto, controlVars, diskVars,
       historyVars, TypeOK
<1>7. ASSUME NEW r \in Recorders, ListSegment(r) PROVE TypeOK'
  BY <1>7, ListType DEF ListSegment, Goto, diskVars, historyVars
<1>8. ASSUME NEW a \in Actors, WriteTemporary(a) PROVE TypeOK'
  BY <1>8 DEF WriteTemporary, Goto, recorderVars, historyVars, TypeOK
<1>9. ASSUME NEW a \in Actors, SaveFails(a) PROVE TypeOK'
  BY <1>9 DEF SaveFails, Return, Enter, Goto, recorderVars, historyVars, TypeOK
<1>10. ASSUME NEW a \in Actors, Rename(a) PROVE TypeOK'
  BY <1>10 DEF Rename, Goto, recorderVars, TypeOK, TemporaryCurrent
<1>11. ASSUME NEW a \in Actors, RenameRefused(a) PROVE TypeOK'
  BY <1>11 DEF RenameRefused, Goto, recorderVars, TypeOK
<1>12. ASSUME NEW a \in Actors, Clean(a) PROVE TypeOK'
  BY <1>12 DEF Clean, Delete, recorderVars, TypeOK
<1>13. ASSUME NEW a \in Actors, CleanFails(a) PROVE TypeOK'
  BY <1>13 DEF CleanFails, Return, Enter, Goto, recorderVars, diskVars, historyVars,
       TypeOK
<1>14. ASSUME NEW a \in Actors, CleanDone(a) PROVE TypeOK'
  BY <1>14 DEF CleanDone, Goto, recorderVars, diskVars, historyVars, TypeOK
<1>15. ASSUME NEW a \in Actors, Done(a) PROVE TypeOK'
  BY <1>15 DEF Done, Enter, Goto, diskVars, historyVars, TypeOK
<1>16. ASSUME NEW s \in Segments, RemoveRecording(s) PROVE TypeOK'
  BY <1>16 DEF RemoveRecording, Delete, Enter, Goto, recorderVars, TypeOK
<1>17. CASE Cleanup
  BY <1>17 DEF Cleanup, Enter, Goto, recorderVars, diskVars, historyVars, TypeOK
<1>18. CASE Crash
  BY <1>18, CrashType DEF Crash, Loaded, Present, TypeOK
<1>19. CASE UNCHANGED vars
  BY <1>19 DEF vars, TypeOK
<1>20. QED
  BY <1>1, <1>2, <1>3, <1>4, <1>5, <1>6, <1>7, <1>8, <1>9, <1>10, <1>11, <1>12, <1>13,
       <1>14, <1>15, <1>16, <1>17, <1>18, <1>19 DEF Next

(* State::mutex: whoever works on the list holds it, so nobody else does.  *)
LEMMA HolderStep == TypeOK /\ OneHolder /\ [Next]_vars => OneHolder'
<1> SUFFICES ASSUME TypeOK, OneHolder, [Next]_vars PROVE OneHolder'
  OBVIOUS
<1> USE DEF TypeOK, OneHolder, Critical
<1>1. ASSUME NEW r \in Recorders, StartRecorder(r) PROVE OneHolder'
  BY <1>1 DEF StartRecorder, controlVars, diskVars, historyVars
<1>2. ASSUME NEW r \in Recorders, OpenSegment(r) PROVE OneHolder'
  BY <1>2 DEF OpenSegment, Enter, Goto, historyVars
<1>3. ASSUME NEW r \in Recorders, OpenFails(r) PROVE OneHolder'
  BY <1>3 DEF OpenFails, Enter, Goto, recorderVars, diskVars, historyVars
<1>4. ASSUME NEW r \in Recorders, WritePacket(r) PROVE OneHolder'
  BY <1>4 DEF WritePacket, controlVars, historyVars
<1>5. ASSUME NEW r \in Recorders, Rotate(r) PROVE OneHolder'
  BY <1>5 DEF Rotate, CloseSegment, Enter, Goto, diskVars
<1>6. ASSUME NEW r \in Recorders, StopRecorder(r) PROVE OneHolder'
  BY <1>6 DEF StopRecorder, CloseSegment, Enter, Goto, controlVars, diskVars,
       historyVars
<1>7. ASSUME NEW r \in Recorders, ListSegment(r) PROVE OneHolder'
  BY <1>7 DEF ListSegment, Goto, diskVars, historyVars
<1>8. ASSUME NEW a \in Actors, WriteTemporary(a) PROVE OneHolder'
  BY <1>8 DEF WriteTemporary, Goto, recorderVars, historyVars
<1>9. ASSUME NEW a \in Actors, SaveFails(a) PROVE OneHolder'
  BY <1>9 DEF SaveFails, Return, Enter, Goto, recorderVars, historyVars
<1>10. ASSUME NEW a \in Actors, Rename(a) PROVE OneHolder'
  BY <1>10 DEF Rename, Goto, recorderVars
<1>11. ASSUME NEW a \in Actors, RenameRefused(a) PROVE OneHolder'
  BY <1>11 DEF RenameRefused, Goto, recorderVars
<1>12. ASSUME NEW a \in Actors, Clean(a) PROVE OneHolder'
  BY <1>12 DEF Clean, Delete, recorderVars
<1>13. ASSUME NEW a \in Actors, CleanFails(a) PROVE OneHolder'
  BY <1>13 DEF CleanFails, Return, Enter, Goto, recorderVars, diskVars, historyVars
<1>14. ASSUME NEW a \in Actors, CleanDone(a) PROVE OneHolder'
  BY <1>14 DEF CleanDone, Goto, recorderVars, diskVars, historyVars
<1>15. ASSUME NEW a \in Actors, Done(a) PROVE OneHolder'
  BY <1>15 DEF Done, Enter, Goto, diskVars, historyVars
<1>16. ASSUME NEW s \in Segments, RemoveRecording(s) PROVE OneHolder'
  BY <1>16 DEF RemoveRecording, Delete, Enter, Goto, recorderVars
<1>17. CASE Cleanup
  BY <1>17 DEF Cleanup, Enter, Goto, recorderVars, diskVars, historyVars
<1>18. CASE Crash
  BY <1>18 DEF Crash, Loaded, Present
<1>19. CASE UNCHANGED vars
  BY <1>19 DEF vars
<1>20. QED
  BY <1>1, <1>2, <1>3, <1>4, <1>5, <1>6, <1>7, <1>8, <1>9, <1>10, <1>11, <1>12, <1>13,
       <1>14, <1>15, <1>16, <1>17, <1>18, <1>19 DEF Next

(* Nothing changes the list between the write of the temporary index and   *)
(* its rename.                                                             *)
LEMMA TemporaryStep ==
  TypeOK /\ OneHolder /\ TemporaryCurrent /\ [Next]_vars => TemporaryCurrent'
<1> SUFFICES ASSUME TypeOK, OneHolder, TemporaryCurrent, [Next]_vars PROVE TemporaryCurrent'
  OBVIOUS
<1> USE DEF TypeOK, OneHolder, TemporaryCurrent, Critical
<1>1. ASSUME NEW r \in Recorders, StartRecorder(r) PROVE TemporaryCurrent'
  BY <1>1 DEF StartRecorder, controlVars, diskVars, historyVars
<1>2. ASSUME NEW r \in Recorders, OpenSegment(r) PROVE TemporaryCurrent'
  BY <1>2 DEF OpenSegment, Enter, Goto, historyVars
<1>3. ASSUME NEW r \in Recorders, OpenFails(r) PROVE TemporaryCurrent'
  BY <1>3 DEF OpenFails, Enter, Goto, recorderVars, diskVars, historyVars
<1>4. ASSUME NEW r \in Recorders, WritePacket(r) PROVE TemporaryCurrent'
  BY <1>4 DEF WritePacket, controlVars, historyVars
<1>5. ASSUME NEW r \in Recorders, Rotate(r) PROVE TemporaryCurrent'
  BY <1>5 DEF Rotate, CloseSegment, Enter, Goto, diskVars
<1>6. ASSUME NEW r \in Recorders, StopRecorder(r) PROVE TemporaryCurrent'
  BY <1>6 DEF StopRecorder, CloseSegment, Enter, Goto, controlVars, diskVars,
       historyVars
<1>7. ASSUME NEW r \in Recorders, ListSegment(r) PROVE TemporaryCurrent'
  BY <1>7 DEF ListSegment, Goto, diskVars, historyVars
<1>8. ASSUME NEW a \in Actors, WriteTemporary(a) PROVE TemporaryCurrent'
  BY <1>8 DEF WriteTemporary, Goto, recorderVars, historyVars
<1>9. ASSUME NEW a \in Actors, SaveFails(a) PROVE TemporaryCurrent'
  BY <1>9 DEF SaveFails, Return, Enter, Goto, recorderVars, historyVars
<1>10. ASSUME NEW a \in Actors, Rename(a) PROVE TemporaryCurrent'
  BY <1>10 DEF Rename, Goto, recorderVars
<1>11. ASSUME NEW a \in Actors, RenameRefused(a) PROVE TemporaryCurrent'
  BY <1>11 DEF RenameRefused, Goto, recorderVars
<1>12. ASSUME NEW a \in Actors, Clean(a) PROVE TemporaryCurrent'
  BY <1>12 DEF Clean, Delete, recorderVars
<1>13. ASSUME NEW a \in Actors, CleanFails(a) PROVE TemporaryCurrent'
  BY <1>13 DEF CleanFails, Return, Enter, Goto, recorderVars, diskVars, historyVars
<1>14. ASSUME NEW a \in Actors, CleanDone(a) PROVE TemporaryCurrent'
  BY <1>14 DEF CleanDone, Goto, recorderVars, diskVars, historyVars
<1>15. ASSUME NEW a \in Actors, Done(a) PROVE TemporaryCurrent'
  BY <1>15 DEF Done, Enter, Goto, diskVars, historyVars
<1>16. ASSUME NEW s \in Segments, RemoveRecording(s) PROVE TemporaryCurrent'
  BY <1>16 DEF RemoveRecording, Delete, Enter, Goto, recorderVars
<1>17. CASE Cleanup
  BY <1>17 DEF Cleanup, Enter, Goto, recorderVars, diskVars, historyVars
<1>18. CASE Crash
  BY <1>18 DEF Crash, Loaded, Present
<1>19. CASE UNCHANGED vars
  BY <1>19 DEF vars
<1>20. QED
  BY <1>1, <1>2, <1>3, <1>4, <1>5, <1>6, <1>7, <1>8, <1>9, <1>10, <1>11, <1>12, <1>13,
       <1>14, <1>15, <1>16, <1>17, <1>18, <1>19 DEF Next

(* A recorder never opens or closes a second segment.                      *)
LEMMA SegmentStep == TypeOK /\ OneSegment /\ [Next]_vars => OneSegment'
<1> SUFFICES ASSUME TypeOK, OneSegment, [Next]_vars PROVE OneSegment'
  OBVIOUS
<1> USE DEF TypeOK, OneSegment
<1>1. ASSUME NEW r \in Recorders, StartRecorder(r) PROVE OneSegment'
  BY <1>1 DEF StartRecorder, controlVars, diskVars, historyVars
<1>2. ASSUME NEW r \in Recorders, OpenSegment(r) PROVE OneSegment'
  BY <1>2 DEF OpenSegment, Enter, Goto, historyVars
<1>3. ASSUME NEW r \in Recorders, OpenFails(r) PROVE OneSegment'
  BY <1>3 DEF OpenFails, Enter, Goto, recorderVars, diskVars, historyVars
<1>4. ASSUME NEW r \in Recorders, WritePacket(r) PROVE OneSegment'
  BY <1>4 DEF WritePacket, controlVars, historyVars
<1>5. ASSUME NEW r \in Recorders, Rotate(r) PROVE OneSegment'
  BY <1>5 DEF Rotate, CloseSegment, Enter, Goto, diskVars
<1>6. ASSUME NEW r \in Recorders, StopRecorder(r) PROVE OneSegment'
  BY <1>6 DEF StopRecorder, CloseSegment, Enter, Goto, controlVars, diskVars,
       historyVars
<1>7. ASSUME NEW r \in Recorders, ListSegment(r) PROVE OneSegment'
  BY <1>7 DEF ListSegment, Goto, diskVars, historyVars
<1>8. ASSUME NEW a \in Actors, WriteTemporary(a) PROVE OneSegment'
  BY <1>8 DEF WriteTemporary, Goto, recorderVars, historyVars
<1>9. ASSUME NEW a \in Actors, SaveFails(a) PROVE OneSegment'
  BY <1>9 DEF SaveFails, Return, Enter, Goto, recorderVars, historyVars
<1>10. ASSUME NEW a \in Actors, Rename(a) PROVE OneSegment'
  BY <1>10 DEF Rename, Goto, recorderVars
<1>11. ASSUME NEW a \in Actors, RenameRefused(a) PROVE OneSegment'
  BY <1>11 DEF RenameRefused, Goto, recorderVars
<1>12. ASSUME NEW a \in Actors, Clean(a) PROVE OneSegment'
  BY <1>12 DEF Clean, Delete, recorderVars
<1>13. ASSUME NEW a \in Actors, CleanFails(a) PROVE OneSegment'
  BY <1>13 DEF CleanFails, Return, Enter, Goto, recorderVars, diskVars, historyVars
<1>14. ASSUME NEW a \in Actors, CleanDone(a) PROVE OneSegment'
  BY <1>14 DEF CleanDone, Goto, recorderVars, diskVars, historyVars
<1>15. ASSUME NEW a \in Actors, Done(a) PROVE OneSegment'
  BY <1>15 DEF Done, Enter, Goto, diskVars, historyVars
<1>16. ASSUME NEW s \in Segments, RemoveRecording(s) PROVE OneSegment'
  BY <1>16 DEF RemoveRecording, Delete, Enter, Goto, recorderVars
<1>17. CASE Cleanup
  BY <1>17 DEF Cleanup, Enter, Goto, recorderVars, diskVars, historyVars
<1>18. CASE Crash
  BY <1>18 DEF Crash, Loaded, Present
<1>19. CASE UNCHANGED vars
  BY <1>19 DEF vars
<1>20. QED
  BY <1>1, <1>2, <1>3, <1>4, <1>5, <1>6, <1>7, <1>8, <1>9, <1>10, <1>11, <1>12, <1>13,
       <1>14, <1>15, <1>16, <1>17, <1>18, <1>19 DEF Next

(* The segment a recorder writes exists, so a write creates no file.       *)
LEMMA WrittenPresent ==
  ASSUME TypeOK, FilesAccounted, NEW r \in Recorders, writing[r] # 0
  PROVE writing[r] \in Present
BY DEF TypeOK, FilesAccounted, InUse, Segments

LEMMA WriteKeepsFiles ==
  ASSUME TypeOK, FilesAccounted, NEW r \in Recorders, WritePacket(r)
  PROVE /\ Present' = Present
        /\ \A s \in Segments : files[s] = Absent => files'[s] = Absent
<1>1. files[writing[r]] # Absent
  BY WrittenPresent DEF Present, WritePacket
<1>2. files' \in [Segments -> Absent .. MaxFile]
  BY WriteType DEF TypeOK
<1>3. files' = files \/ files' = [files EXCEPT ![writing[r]] = @ + 1]
  BY DEF WritePacket
<1>4. \A s \in Segments : files'[s] = Absent <=> files[s] = Absent
  BY <1>1, <1>3 DEF TypeOK
<1> QED
  BY <1>4 DEF Present

(* A deletion takes one file away, and its entry.                          *)
LEMMA DeletePresent ==
  ASSUME TypeOK, NEW s \in recordings, Delete(s)
  PROVE /\ Present' = Present \ {s} /\ recordings' = recordings \ {s}
        /\ \A x \in Segments : files[x] = Absent => files'[x] = Absent
<1>1. s \in Segments /\ files' = [files EXCEPT ![s] = Absent]
  BY DEF TypeOK, Delete
<1>2. \A x \in Segments : files'[x] = IF x = s THEN Absent ELSE files[x]
  BY <1>1 DEF TypeOK
<1>3. recordings' = recordings \ {s}
  BY DEF Delete
<1> QED
  BY <1>1, <1>2, <1>3 DEF Present

LEMMA DeleteFresh ==
  ASSUME TypeOK, FilesAccounted, Fresh, NEW s \in recordings, Delete(s),
         nextSegment' = nextSegment
  PROVE Fresh'
<1>1. s \in Segments /\ files[s] # Absent
  BY DEF TypeOK, FilesAccounted, Present
<1>2. s < nextSegment
  BY <1>1 DEF Fresh, Segments, TypeOK
<1>3. gone' = gone \cup {s}
  BY DEF Delete
<1> QED
  BY <1>2, <1>3, DeletePresent DEF Fresh

(* Sequence numbers are not used again.                                    *)
LEMMA FreshStep ==
  TypeOK /\ FilesAccounted /\ Fresh /\ [Next]_vars => Fresh'
<1> SUFFICES ASSUME TypeOK, FilesAccounted, Fresh, [Next]_vars PROVE Fresh'
  OBVIOUS
<1> USE DEF Fresh
<1>1. ASSUME NEW r \in Recorders, StartRecorder(r) PROVE Fresh'
  BY <1>1 DEF StartRecorder, controlVars, diskVars, historyVars
<1>2. ASSUME NEW r \in Recorders, OpenSegment(r) PROVE Fresh'
  BY <1>2 DEF OpenSegment, Enter, Goto, historyVars, TypeOK, Segments
<1>3. ASSUME NEW r \in Recorders, OpenFails(r) PROVE Fresh'
  BY <1>3 DEF OpenFails, Enter, Goto, recorderVars, diskVars, historyVars
<1>4. ASSUME NEW r \in Recorders, WritePacket(r) PROVE Fresh'
  BY <1>4, WriteKeepsFiles DEF WritePacket, controlVars, historyVars
<1>5. ASSUME NEW r \in Recorders, Rotate(r) PROVE Fresh'
  BY <1>5 DEF Rotate, CloseSegment, Enter, Goto, diskVars
<1>6. ASSUME NEW r \in Recorders, StopRecorder(r) PROVE Fresh'
  BY <1>6 DEF StopRecorder, CloseSegment, Enter, Goto, controlVars, diskVars,
       historyVars
<1>7. ASSUME NEW r \in Recorders, ListSegment(r) PROVE Fresh'
  BY <1>7 DEF ListSegment, Goto, diskVars, historyVars
<1>8. ASSUME NEW a \in Actors, WriteTemporary(a) PROVE Fresh'
  BY <1>8 DEF WriteTemporary, Goto, recorderVars, historyVars
<1>9. ASSUME NEW a \in Actors, SaveFails(a) PROVE Fresh'
  BY <1>9 DEF SaveFails, Return, Enter, Goto, recorderVars, historyVars
<1>10. ASSUME NEW a \in Actors, Rename(a) PROVE Fresh'
  BY <1>10 DEF Rename, Goto, recorderVars
<1>11. ASSUME NEW a \in Actors, RenameRefused(a) PROVE Fresh'
  BY <1>11 DEF RenameRefused, Goto, recorderVars
<1>12. ASSUME NEW a \in Actors, Clean(a) PROVE Fresh'
  BY <1>12, DeleteFresh DEF Clean, Delete, recorderVars
<1>13. ASSUME NEW a \in Actors, CleanFails(a) PROVE Fresh'
  BY <1>13 DEF CleanFails, Return, Enter, Goto, recorderVars, diskVars, historyVars
<1>14. ASSUME NEW a \in Actors, CleanDone(a) PROVE Fresh'
  BY <1>14 DEF CleanDone, Goto, recorderVars, diskVars, historyVars
<1>15. ASSUME NEW a \in Actors, Done(a) PROVE Fresh'
  BY <1>15 DEF Done, Enter, Goto, diskVars, historyVars
<1>16. ASSUME NEW s \in Segments, RemoveRecording(s) PROVE Fresh'
  BY <1>16, DeleteFresh DEF RemoveRecording, Delete, Enter, Goto, recorderVars
<1>17. CASE Cleanup
  BY <1>17 DEF Cleanup, Enter, Goto, recorderVars, diskVars, historyVars
<1>18. CASE Crash
  BY <1>18 DEF Crash, Loaded, Present
<1>19. CASE UNCHANGED vars
  BY <1>19 DEF vars
<1>20. QED
  BY <1>1, <1>2, <1>3, <1>4, <1>5, <1>6, <1>7, <1>8, <1>9, <1>10, <1>11, <1>12, <1>13,
       <1>14, <1>15, <1>16, <1>17, <1>18, <1>19 DEF Next

(* No step brings a deleted file back.                                     *)
LEMMA DeletedStep ==
  TypeOK /\ FilesAccounted /\ Fresh /\ Deleted /\ [Next]_vars => Deleted'
<1> SUFFICES ASSUME TypeOK, FilesAccounted, Fresh, Deleted, [Next]_vars PROVE Deleted'
  OBVIOUS
<1>1. ASSUME NEW r \in Recorders, StartRecorder(r) PROVE Deleted'
  BY <1>1 DEF StartRecorder, controlVars, diskVars, historyVars, Deleted, Present
<1>2. ASSUME NEW r \in Recorders, OpenSegment(r) PROVE Deleted'
  BY <1>2 DEF OpenSegment, Enter, Goto, historyVars, Deleted, Present, Fresh, TypeOK
<1>3. ASSUME NEW r \in Recorders, OpenFails(r) PROVE Deleted'
  BY <1>3 DEF OpenFails, Enter, Goto, recorderVars, diskVars, historyVars, Deleted,
       Present
<1>4. ASSUME NEW r \in Recorders, WritePacket(r) PROVE Deleted'
  BY <1>4, WriteKeepsFiles DEF WritePacket, controlVars, historyVars, Deleted
<1>5. ASSUME NEW r \in Recorders, Rotate(r) PROVE Deleted'
  BY <1>5 DEF Rotate, CloseSegment, Enter, Goto, diskVars, Deleted, Present
<1>6. ASSUME NEW r \in Recorders, StopRecorder(r) PROVE Deleted'
  BY <1>6 DEF StopRecorder, CloseSegment, Enter, Goto, controlVars, diskVars,
       historyVars, Deleted, Present
<1>7. ASSUME NEW r \in Recorders, ListSegment(r) PROVE Deleted'
  BY <1>7 DEF ListSegment, Goto, diskVars, historyVars, Deleted, Present
<1>8. ASSUME NEW a \in Actors, WriteTemporary(a) PROVE Deleted'
  BY <1>8 DEF WriteTemporary, Goto, recorderVars, historyVars, Deleted, Present
<1>9. ASSUME NEW a \in Actors, SaveFails(a) PROVE Deleted'
  BY <1>9 DEF SaveFails, Return, Enter, Goto, recorderVars, historyVars, Deleted,
       Present
<1>10. ASSUME NEW a \in Actors, Rename(a) PROVE Deleted'
  BY <1>10 DEF Rename, Goto, recorderVars, Deleted, Present
<1>11. ASSUME NEW a \in Actors, RenameRefused(a) PROVE Deleted'
  BY <1>11 DEF RenameRefused, Goto, recorderVars, Deleted, Present
<1>12. ASSUME NEW a \in Actors, Clean(a) PROVE Deleted'
  BY <1>12 DEF Clean, Delete, recorderVars, Deleted, Present, Fresh, TypeOK
<1>13. ASSUME NEW a \in Actors, CleanFails(a) PROVE Deleted'
  BY <1>13 DEF CleanFails, Return, Enter, Goto, recorderVars, diskVars, historyVars,
       Deleted, Present
<1>14. ASSUME NEW a \in Actors, CleanDone(a) PROVE Deleted'
  BY <1>14 DEF CleanDone, Goto, recorderVars, diskVars, historyVars, Deleted, Present
<1>15. ASSUME NEW a \in Actors, Done(a) PROVE Deleted'
  BY <1>15 DEF Done, Enter, Goto, diskVars, historyVars, Deleted, Present
<1>16. ASSUME NEW s \in Segments, RemoveRecording(s) PROVE Deleted'
  BY <1>16 DEF RemoveRecording, Delete, Enter, Goto, recorderVars, Deleted, Present,
       Fresh, TypeOK
<1>17. CASE Cleanup
  BY <1>17 DEF Cleanup, Enter, Goto, recorderVars, diskVars, historyVars, Deleted,
       Present
<1>18. CASE Crash
  BY <1>18 DEF Crash, Loaded, Present, Deleted, Present
<1>19. CASE UNCHANGED vars
  BY <1>19 DEF vars, Deleted, Present
<1>20. QED
  BY <1>1, <1>2, <1>3, <1>4, <1>5, <1>6, <1>7, <1>8, <1>9, <1>10, <1>11, <1>12, <1>13,
       <1>14, <1>15, <1>16, <1>17, <1>18, <1>19 DEF Next

(* No step loses a saved recording: not a deletion, which forgets its own  *)
(* only, not a crash, which loads the index.                               *)
LEMMA KeptStep ==
  TypeOK /\ OneHolder /\ TemporaryCurrent /\ FilesAccounted /\ Kept /\ [Next]_vars => Kept'
<1> SUFFICES ASSUME TypeOK, OneHolder, TemporaryCurrent, FilesAccounted, Kept, [Next]_vars
              PROVE Kept'
  OBVIOUS
<1> USE DEF TypeOK, TemporaryCurrent, Kept
<1>1. ASSUME NEW r \in Recorders, StartRecorder(r) PROVE Kept'
  BY <1>1 DEF StartRecorder, controlVars, diskVars, historyVars
<1>2. ASSUME NEW r \in Recorders, OpenSegment(r) PROVE Kept'
  BY <1>2 DEF OpenSegment, Enter, Goto, historyVars
<1>3. ASSUME NEW r \in Recorders, OpenFails(r) PROVE Kept'
  BY <1>3 DEF OpenFails, Enter, Goto, recorderVars, diskVars, historyVars
<1>4. ASSUME NEW r \in Recorders, WritePacket(r) PROVE Kept'
  BY <1>4 DEF WritePacket, controlVars, historyVars
<1>5. ASSUME NEW r \in Recorders, Rotate(r) PROVE Kept'
  BY <1>5 DEF Rotate, CloseSegment, Enter, Goto, diskVars
<1>6. ASSUME NEW r \in Recorders, StopRecorder(r) PROVE Kept'
  BY <1>6 DEF StopRecorder, CloseSegment, Enter, Goto, controlVars, diskVars,
       historyVars
<1>7. ASSUME NEW r \in Recorders, ListSegment(r) PROVE Kept'
  BY <1>7 DEF ListSegment, Goto, diskVars, historyVars
<1>8. ASSUME NEW a \in Actors, WriteTemporary(a) PROVE Kept'
  BY <1>8 DEF WriteTemporary, Goto, recorderVars, historyVars
<1>9. ASSUME NEW a \in Actors, SaveFails(a) PROVE Kept'
  BY <1>9 DEF SaveFails, Return, Enter, Goto, recorderVars, historyVars
<1>10. ASSUME NEW a \in Actors, Rename(a) PROVE Kept'
  BY <1>10 DEF Rename, Goto, recorderVars
<1>11. ASSUME NEW a \in Actors, RenameRefused(a) PROVE Kept'
  BY <1>11 DEF RenameRefused, Goto, recorderVars
<1>12. ASSUME NEW a \in Actors, Clean(a) PROVE Kept'
  BY <1>12 DEF Clean, Delete, recorderVars
<1>13. ASSUME NEW a \in Actors, CleanFails(a) PROVE Kept'
  BY <1>13 DEF CleanFails, Return, Enter, Goto, recorderVars, diskVars, historyVars
<1>14. ASSUME NEW a \in Actors, CleanDone(a) PROVE Kept'
  BY <1>14 DEF CleanDone, Goto, recorderVars, diskVars, historyVars
<1>15. ASSUME NEW a \in Actors, Done(a) PROVE Kept'
  BY <1>15 DEF Done, Enter, Goto, diskVars, historyVars
<1>16. ASSUME NEW s \in Segments, RemoveRecording(s) PROVE Kept'
  BY <1>16 DEF RemoveRecording, Delete, Enter, Goto, recorderVars
<1>17. CASE Cleanup
  BY <1>17 DEF Cleanup, Enter, Goto, recorderVars, diskVars, historyVars
<1>18. CASE Crash
  BY <1>18 DEF Crash, Loaded, Present, FilesAccounted
<1>19. CASE UNCHANGED vars
  BY <1>19 DEF vars
<1>20. QED
  BY <1>1, <1>2, <1>3, <1>4, <1>5, <1>6, <1>7, <1>8, <1>9, <1>10, <1>11, <1>12, <1>13,
       <1>14, <1>15, <1>16, <1>17, <1>18, <1>19 DEF Next

(* Where each file is: unchanged by the steps that change no file and no   *)
(* hand.                                                                   *)
LEMMA FilesFrame ==
  ASSUME FilesAccounted, UNCHANGED <<writing, closing, recordings, leaked, files>>
  PROVE FilesAccounted'
BY DEF FilesAccounted, InUse, Present

(* ... a new file is in its recorder's hand,                               *)
LEMMA InUseOpen ==
  ASSUME TypeOK, OneSegment, Fresh, FilesAccounted, NEW r \in Recorders, OpenSegment(r)
  PROVE FilesAccounted'
<1>1. nextSegment \in Segments /\ nextSegment \notin Present
  BY DEF OpenSegment, TypeOK, Fresh, Present, Segments
<1>2. writing[r] = 0 /\ closing[r] = 0
  BY DEF OpenSegment, OneSegment, TypeOK
<1>3. /\ writing' = [writing EXCEPT ![r] = nextSegment]
      /\ UNCHANGED <<closing, recordings, leaked>>
  BY DEF OpenSegment, historyVars
<1>4. Present' = Present \cup {nextSegment}
  <2>1. \E n \in {0, 1} : files' = [files EXCEPT ![nextSegment] = n]
    BY DEF OpenSegment
  <2>2. \A s \in Segments :
          files'[s] # Absent <=> (files[s] # Absent \/ s = nextSegment)
    BY <1>1, <2>1 DEF TypeOK
  <2> QED
    BY <1>1, <2>2 DEF Present
<1>5. /\ InUse(r) = {} /\ InUse(r)' = {nextSegment}
      /\ \A q \in Recorders : q # r => InUse(q)' = InUse(q)
  BY <1>1, <1>2, <1>3 DEF InUse, TypeOK, Segments
<1>6. /\ nextSegment \notin recordings \cup leaked
      /\ \A q \in Recorders : nextSegment \notin InUse(q)
  <2>1. recordings \cup leaked \subseteq Present
    BY DEF FilesAccounted
  <2>2. \A q \in Recorders : \A s \in InUse(q) : s \in Segments => s \in Present
    BY DEF FilesAccounted
  <2> QED
    BY <1>1, <2>1, <2>2
<1> QED
  BY <1>1, <1>3, <1>4, <1>5, <1>6 DEF FilesAccounted

(* ... which keeps it, or leaves it behind, when it closes it,             *)
LEMMA InUseClose ==
  ASSUME TypeOK, OneSegment, FilesAccounted, NEW r \in Recorders, at[r] = "idle",
         writing[r] # 0, NEW name, CloseSegment(r, name)
  PROVE FilesAccounted'
<1>1. writing[r] \in Segments /\ closing[r] = 0
  BY DEF TypeOK, OneSegment, Segments
<1>2. InUse(r) = {writing[r]}
  BY <1>1 DEF InUse, Segments
<1>3. /\ writing' = [writing EXCEPT ![r] = 0]
      /\ UNCHANGED <<recordings, files>>
  BY DEF CloseSegment, diskVars
<1>4. CASE closing' = [closing EXCEPT ![r] = writing[r]] /\ leaked' = leaked
  <2>1. \A q \in Recorders : InUse(q)' = InUse(q)
    BY <1>1, <1>2, <1>3, <1>4 DEF InUse, TypeOK
  <2> QED
    BY <1>3, <1>4, <2>1 DEF FilesAccounted, Present
<1>5. CASE closing' = closing /\ leaked' = leaked \cup {writing[r]}
  <2>1. InUse(r)' = {} /\ \A q \in Recorders : q # r => InUse(q)' = InUse(q)
    BY <1>1, <1>3, <1>5 DEF InUse, TypeOK
  <2>2. /\ writing[r] \notin recordings
        /\ \A q \in Recorders : q # r => writing[r] \notin InUse(q)
    BY <1>2 DEF FilesAccounted
  <2> QED
    BY <1>1, <1>2, <1>3, <1>5, <2>1, <2>2 DEF FilesAccounted, Present
<1> QED
  BY <1>4, <1>5 DEF CloseSegment

(* ... and gives it to the list;                                           *)
LEMMA InUseList ==
  ASSUME TypeOK, OneSegment, FilesAccounted, NEW r \in Recorders, ListSegment(r)
  PROVE FilesAccounted'
<1>1. closing[r] \in Segments /\ writing[r] = 0
  BY DEF ListSegment, TypeOK, OneSegment, Segments
<1>2. InUse(r) = {closing[r]}
  BY <1>1 DEF InUse, Segments
<1>3. /\ closing' = [closing EXCEPT ![r] = 0] /\ recordings' = recordings \cup {closing[r]}
      /\ UNCHANGED <<writing, leaked, files>>
  BY DEF ListSegment, diskVars, historyVars
<1>4. InUse(r)' = {} /\ \A q \in Recorders : q # r => InUse(q)' = InUse(q)
  BY <1>1, <1>3 DEF InUse, TypeOK
<1>5. /\ closing[r] \notin leaked
      /\ \A q \in Recorders : q # r => closing[r] \notin InUse(q)
  BY <1>2 DEF FilesAccounted
<1> QED
  BY <1>1, <1>2, <1>3, <1>4, <1>5 DEF FilesAccounted, Present

(* ... a deletion takes a file nobody has in hand,                         *)
LEMMA InUseDelete ==
  ASSUME TypeOK, FilesAccounted, NEW s \in recordings, Delete(s),
         UNCHANGED <<writing, closing, leaked>>
  PROVE FilesAccounted'
<1>1. /\ s \notin leaked
      /\ \A q \in Recorders : s \notin InUse(q) /\ InUse(q)' = InUse(q)
  BY DEF FilesAccounted, InUse
<1> QED
  BY <1>1, DeletePresent DEF FilesAccounted

(* ... and a crash leaves behind all that the index does not name.         *)
LEMMA InUseCrash == ASSUME TypeOK, Crash PROVE FilesAccounted'
<1>1. \A r \in Recorders : InUse(r)' = {}
  BY DEF Crash, InUse
<1>2. Loaded(index) \subseteq Present
  BY DEF TypeOK, Loaded, Present
<1>3. /\ recordings' = Loaded(index) /\ leaked' = Present \ Loaded(index)
      /\ Present' = Present
  BY DEF Crash, Present
<1> QED
  BY <1>1, <1>2, <1>3 DEF FilesAccounted

(* Every step keeps each file in one hand.                                 *)
LEMMA FilesStep ==
  TypeOK /\ OneSegment /\ Fresh /\ FilesAccounted /\ [Next]_vars => FilesAccounted'
<1> SUFFICES ASSUME TypeOK, OneSegment, Fresh, FilesAccounted, [Next]_vars
              PROVE FilesAccounted'
  OBVIOUS
<1>1. ASSUME NEW r \in Recorders, StartRecorder(r) PROVE FilesAccounted'
  BY <1>1, FilesFrame DEF StartRecorder, controlVars, diskVars, historyVars
<1>2. ASSUME NEW r \in Recorders, OpenSegment(r) PROVE FilesAccounted'
  BY <1>2, InUseOpen DEF OpenSegment, Enter, Goto, historyVars
<1>3. ASSUME NEW r \in Recorders, OpenFails(r) PROVE FilesAccounted'
  BY <1>3, FilesFrame DEF OpenFails, Enter, Goto, recorderVars, diskVars, historyVars
<1>4. ASSUME NEW r \in Recorders, WritePacket(r) PROVE FilesAccounted'
  BY <1>4, WriteKeepsFiles DEF WritePacket, controlVars, historyVars, FilesAccounted,
       InUse
<1>5. ASSUME NEW r \in Recorders, Rotate(r) PROVE FilesAccounted'
  BY <1>5, InUseClose DEF Rotate, CloseSegment, Enter, Goto, diskVars
<1>6. ASSUME NEW r \in Recorders, StopRecorder(r) PROVE FilesAccounted'
  BY <1>6, InUseClose, FilesFrame DEF StopRecorder, CloseSegment, Enter, Goto,
       controlVars, diskVars, historyVars
<1>7. ASSUME NEW r \in Recorders, ListSegment(r) PROVE FilesAccounted'
  BY <1>7, InUseList DEF ListSegment, Goto, diskVars, historyVars
<1>8. ASSUME NEW a \in Actors, WriteTemporary(a) PROVE FilesAccounted'
  BY <1>8, FilesFrame DEF WriteTemporary, Goto, recorderVars, historyVars
<1>9. ASSUME NEW a \in Actors, SaveFails(a) PROVE FilesAccounted'
  BY <1>9, FilesFrame DEF SaveFails, Return, Enter, Goto, recorderVars, historyVars
<1>10. ASSUME NEW a \in Actors, Rename(a) PROVE FilesAccounted'
  BY <1>10, FilesFrame DEF Rename, Goto, recorderVars
<1>11. ASSUME NEW a \in Actors, RenameRefused(a) PROVE FilesAccounted'
  BY <1>11, FilesFrame DEF RenameRefused, Goto, recorderVars
<1>12. ASSUME NEW a \in Actors, Clean(a) PROVE FilesAccounted'
  BY <1>12, InUseDelete DEF Clean, Delete, recorderVars
<1>13. ASSUME NEW a \in Actors, CleanFails(a) PROVE FilesAccounted'
  BY <1>13, FilesFrame DEF CleanFails, Return, Enter, Goto, recorderVars, diskVars,
       historyVars
<1>14. ASSUME NEW a \in Actors, CleanDone(a) PROVE FilesAccounted'
  BY <1>14, FilesFrame DEF CleanDone, Goto, recorderVars, diskVars, historyVars
<1>15. ASSUME NEW a \in Actors, Done(a) PROVE FilesAccounted'
  BY <1>15, FilesFrame DEF Done, Enter, Goto, diskVars, historyVars
<1>16. ASSUME NEW s \in Segments, RemoveRecording(s) PROVE FilesAccounted'
  BY <1>16, InUseDelete DEF RemoveRecording, Delete, Enter, Goto, recorderVars
<1>17. CASE Cleanup
  BY <1>17, FilesFrame DEF Cleanup, Enter, Goto, recorderVars, diskVars, historyVars
<1>18. CASE Crash
  BY <1>18, InUseCrash DEF Crash, Loaded, Present
<1>19. CASE UNCHANGED vars
  BY <1>19, FilesFrame DEF vars
<1>20. QED
  BY <1>1, <1>2, <1>3, <1>4, <1>5, <1>6, <1>7, <1>8, <1>9, <1>10, <1>11, <1>12, <1>13,
       <1>14, <1>15, <1>16, <1>17, <1>18, <1>19 DEF Next

-----------------------------------------------------------------------------
(* The invariant holds of an empty storage, and every step keeps it.       *)
LEMMA StorageInit == Init => StorageInv
<1> SUFFICES ASSUME Init PROVE StorageInv
  OBVIOUS
<1>1. TypeOK
  <2>1. files \in [Segments -> Absent .. MaxFile]
    BY DEF Init
  <2>2. nextSegment \in 1 .. MaxSegments + 1
    BY DEF Init
  <2>3. /\ running \in [Recorders -> BOOLEAN] /\ writing \in [Recorders -> 0 .. MaxSegments]
        /\ broken \in [Recorders -> BOOLEAN] /\ rotate \in [Recorders -> BOOLEAN]
        /\ closing \in [Recorders -> 0 .. MaxSegments]
    BY DEF Init
  <2>4. /\ at \in [Actors -> {"idle"}] /\ call \in [Actors -> {"none"}]
    BY DEF Init
  <2>5. /\ recordings = {} /\ lock = Nobody /\ changed = FALSE /\ index = NoIndex
        /\ temporary = NoIndex /\ saved = {} /\ gone = {} /\ leaked = {}
        /\ refused = FALSE
    BY DEF Init
  <2> QED
    BY <2>1, <2>2, <2>3, <2>4, <2>5 DEF TypeOK
<1>2. OneHolder /\ TemporaryCurrent /\ OneSegment
  BY DEF Init, OneHolder, TemporaryCurrent, OneSegment, Critical
<1>3. Present = {} /\ \A r \in Recorders : InUse(r) = {}
  BY DEF Init, Present, InUse
<1>4. FilesAccounted
  BY <1>3 DEF Init, FilesAccounted
<1> QED
  BY <1>1, <1>2, <1>3, <1>4 DEF StorageInv, Fresh, Deleted, Kept, Init

LEMMA StorageStep == StorageInv /\ [Next]_vars => StorageInv'
BY TypeStep, HolderStep, TemporaryStep, SegmentStep, FreshStep, DeletedStep, KeptStep,
   FilesStep DEF StorageInv

(* The inductive invariant holds of every reachable state.                 *)
THEOREM StorageInvariant == Spec => []StorageInv
BY StorageInit, StorageStep, PTL DEF Spec

(* Type correctness of the storage manager: among it, that what a save     *)
(* leaves in the index are segments of this storage.                       *)
THEOREM TypeCorrect == Spec => []TypeOK
BY StorageInvariant, PTL DEF StorageInv

(* persistIndexLocked() before anything is acknowledged, and in two steps: *)
(* a recording of which one save succeeded is in the index and on the disk *)
(* until it is deleted, at every instant a crash may choose.               *)
THEOREM RecordingsDurable == Spec => []Durable
<1>1. StorageInv => Durable
  <2> SUFFICES ASSUME StorageInv, ~refused, NEW s \in saved \ gone
                PROVE s \in Loaded(index)
    BY DEF Durable
  <2>1. s \in recordings /\ s \in index
    BY DEF StorageInv, Kept
  <2>2. s \in Segments /\ files[s] # Absent
    BY <2>1 DEF StorageInv, FilesAccounted, Present
  <2>3. index # NoIndex
    BY <2>1, <2>2 DEF Segments
  <2> QED
    BY <2>1, <2>2, <2>3 DEF Loaded
<1> QED
  BY <1>1, StorageInvariant, PTL

(* What remove() or cleanupLocked() has deleted no crash brings back.      *)
THEOREM DeletedStaysDeleted == Spec => []NoResurrection
<1>1. StorageInv => NoResurrection
  BY DEF StorageInv, Deleted, FilesAccounted, NoResurrection
<1> QED
  BY <1>1, StorageInvariant, PTL

(* Every file is in one hand: listed, written by one recorder, or given up.*)
THEOREM FilesInOneHand == Spec => []FilesAccounted
BY StorageInvariant, PTL DEF StorageInv

-----------------------------------------------------------------------------
(* The services side by side. *)

ServicesInv == StorageInv /\ AlarmInv /\ Store!KeyInv /\ IvaInv /\ EngineInv

(* Whichever service takes the steps, the others stay as they were.        *)
THEOREM ServicesInvariant == ServicesSpec => []ServicesInv
<1>1. ServicesInit => ServicesInv
  BY StorageInit, AlarmBegins, Store!KeyInit, IvaBegins, EngineInit
     DEF ServicesInit, ServicesInv
<1>2. ServicesInv /\ [ServicesNext]_servicesVars => ServicesInv'
  <2> SUFFICES ASSUME ServicesInv, [ServicesNext]_servicesVars PROVE ServicesInv'
    OBVIOUS
  <2>1. [Next]_vars /\ (Alarm!Next \/ UNCHANGED alarmVars) /\ [Store!Next]_keyVars
        /\ (Analysis!Next \/ UNCHANGED ivaVars) /\ [Engine!Next]_engineVars
    BY DEF ServicesNext, servicesVars, storageVars
  <2>2. StorageInv' /\ AlarmInv'
    BY <2>1, StorageStep, AlarmStep, AlarmStays DEF ServicesInv
  <2>3. Store!KeyInv'
    BY <2>1, StoreStays DEF ServicesInv
  <2>4. IvaInv' /\ EngineInv'
    BY <2>1, IvaStep, IvaStays, EngineStep DEF ServicesInv
  <2> QED
    BY <2>2, <2>3, <2>4 DEF ServicesInv
<1> QED
  BY <1>1, <1>2, PTL DEF ServicesSpec

(* Recordings and alarms keep their types, and AlarmManager never keeps    *)
(* more records than maximumRecords, also when the journal that a process  *)
(* loads holds more.                                                       *)
THEOREM ServicesTypesOK == ServicesSpec => []TypesOK
<1>1. ServicesInv => TypesOK
  BY DEF ServicesInv, StorageInv, AlarmInv, TypesOK
<1> QED
  BY <1>1, ServicesInvariant, PTL

(* The journal of processEvent() and acknowledge(), of any length and      *)
(* whatever appends fail, gives the next process every alarm whose lines   *)
(* were written in the state it had in memory, as long as no line was cut  *)
(* off; and the key store gives every process every secret.                *)
THEOREM StoredStaysReadable == ServicesSpec => []StoredIsReadable
<1>1. ServicesInv => StoredIsReadable
  BY AlarmRight DEF ServicesInv, Store!KeyInv, StoredIsReadable
<1> QED
  BY <1>1, ServicesInvariant, PTL

(* Of any number of targets, wherever they move and in whatever order the  *)
(* detector names them: the tracker gives each detection to one target and *)
(* keeps a target's number as long as it is tolerated to be missed, the    *)
(* rules report each move and each stay once, and the engine has one       *)
(* context and no outputs that outlive it.                                 *)
THEOREM AnalysisStaysRight == ServicesSpec => []AnalysisRight
<1>1. ServicesInv => AnalysisRight
  BY IvaRight, EngineRight DEF ServicesInv, AnalysisRight
<1> QED
  BY <1>1, ServicesInvariant, PTL
=============================================================================
