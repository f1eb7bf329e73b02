--------------------------- MODULE LifecycleProofs ---------------------------
(***************************************************************************)
(* The start of the process and the life of the session, for any number of *)
(* options, of moves of the market and of lost connections.                *)
(*                                                                         *)
(* CallbacksFindTables follows from StartInv: main passes the steps in     *)
(* their order.  CaughtUpExact speaks of the moment when nothing is under  *)
(* way; SessionInv says what holds while something is: of the messages on  *)
(* the wire the last that touches a side shows what the venue has there,   *)
(* and where none does the entry shows it already.                         *)
(***************************************************************************)
EXTENDS Lifecycle, FixParseProofs

(***************************************************************************)
(* The start.                                                              *)
(***************************************************************************)

\* The steps before the one main is at are done.
Passed(a, r) == \A n \in 1 .. 10 : a = Steps[n] => \A m \in 1 .. n - 1 : Steps[m] \in r

\* Who has started the initiator has built what its callbacks use.
Tabled(r) == "fix" \in r => {"symbols", "books", "engine"} \subseteq r

StartInv ==
  /\ Passed(at, ready)
  /\ Tabled(ready)
  /\ engine = "running" => "fix" \in ready
  /\ link => engine = "running"

LEMMA StepsDiffer ==
  /\ Len(Steps) = 10 /\ DOMAIN Steps = 1 .. 10
  /\ \A m, n \in 1 .. 10 : Steps[m] = Steps[n] => m = n
  /\ \A n \in 1 .. 10 : Steps[n] \notin {"wait", "stop", "fatal", "killed", "exited"}
BY DEF Steps

LEMMA AfterStep ==
  ASSUME NEW n \in 1 .. 10
  PROVE  After(Steps[n]) = IF n = 10 THEN "wait" ELSE Steps[n + 1]
<1>1. (CHOOSE k \in DOMAIN Steps : Steps[k] = Steps[n]) = n
  BY StepsDiffer
<1>2. Steps[n] = Steps[10] <=> n = 10
  BY StepsDiffer
<1> QED BY <1>1, <1>2, StepsDiffer DEF After

\* A step that succeeds joins those that are done.
LEMMA ProceedKeeps ==
  ASSUME Passed(at, ready), Tabled(ready), NEW n \in 1 .. 10, Proceed(Steps[n])
  PROVE  Passed(at', ready') /\ Tabled(ready') /\ ready \subseteq ready'
<1>1. at = Steps[n] /\ ready' = ready \cup {Steps[n]}
      /\ at' = IF n = 10 THEN "wait" ELSE Steps[n + 1]
  BY AfterStep DEF Proceed
<1>2. \A m \in 1 .. n : Steps[m] \in ready'
  BY <1>1 DEF Passed
<1>3. Passed(at', ready')
  <2>1. CASE n = 10
    BY <1>1, <2>1, StepsDiffer DEF Passed
  <2>2. CASE n # 10
    <3>1. ASSUME NEW k \in 1 .. 10, at' = Steps[k]
          PROVE  k = n + 1
      BY <1>1, <2>2, <3>1, StepsDiffer
    <3> QED BY <1>2, <3>1 DEF Passed
  <2> QED BY <2>1, <2>2
<1>4. Tabled(ready')
  <2>1. CASE Steps[n] = "fix"
    <3>1. n = 9
      BY <2>1 DEF Steps
    <3> QED BY <1>2, <3>1 DEF Tabled, Steps
  <2>2. CASE Steps[n] # "fix"
    BY <1>1, <2>2 DEF Tabled
  <2> QED BY <2>1, <2>2
<1> QED BY <1>1, <1>3, <1>4

\* No step of main lies after a state main is not in.
LEMMA LeaveSteps ==
  ASSUME NEW a \in {"stop", "fatal", "killed", "exited"}, NEW r
  PROVE  Passed(a, r)
BY StepsDiffer DEF Passed

LEMMA StartInvInit == Init => StartInv
<1> SUFFICES ASSUME Init PROVE StartInv
  OBVIOUS
<1>1. \A n \in 1 .. 10 : at = Steps[n] => n = 1
  <2>1. at = Steps[1]
    BY DEF Init
  <2>2. 1 \in 1 .. 10
    OBVIOUS
  <2>3. \A n \in 1 .. 10 : Steps[1] = Steps[n] => 1 = n
    BY <2>2, StepsDiffer
  <2> QED BY <2>1, <2>3
<1> QED BY <1>1 DEF Init, SessionInit, StartInv, Passed, Tabled

LEMMA StartInvStep ==
  ASSUME StartInv, [Next]_vars
  PROVE  StartInv'
<1> USE DEF StartInv
<1>1. CASE UNCHANGED vars
  BY <1>1 DEF vars, mainVars, sessionVars, Passed, Tabled
<1>2. ASSUME NEW n \in 1 .. 10, Proceed(Steps[n]), UNCHANGED sessionVars
      PROVE  StartInv'
  BY <1>2, ProceedKeeps DEF sessionVars
<1>3. ASSUME at' \in {"stop", "fatal", "killed", "exited"}, UNCHANGED ready,
             UNCHANGED <<engine, link>> \/ (engine' = "stopped" /\ link' = FALSE)
      PROVE  StartInv'
  BY <1>3, LeaveSteps
<1>4. CASE Credentials \/ FetchJWTToken \/ BuildUniverse
  <2>1. \E n \in {1, 2, 3} : Proceed(Steps[n]) \/ Fatal(Steps[n])
    BY <1>4 DEF Credentials, FetchJWTToken, BuildUniverse, Steps
  <2>2. UNCHANGED sessionVars
    BY <1>4 DEF Credentials, FetchJWTToken, BuildUniverse
  <2> QED BY <1>2, <1>3, <2>1, <2>2 DEF Fatal, sessionVars
<1>5. CASE Tables \/ NewTelegramFromEnv \/ ChooseStrategy \/ Answer \/ StartEngine \/ Notify
  <2>1. \E n \in {4, 5, 6, 7, 8, 10} : Proceed(Steps[n])
    BY <1>5 DEF Tables, NewTelegramFromEnv, ChooseStrategy, Answer, StartEngine, Notify, Steps
  <2>2. UNCHANGED sessionVars
    BY <1>5 DEF Tables, NewTelegramFromEnv, ChooseStrategy, Answer, StartEngine, Notify
  <2> QED BY <1>2, <2>1, <2>2
<1>6. CASE StartFIX
  <2>1. Proceed(Steps[9]) /\ InitFIXEngine
    BY <1>6 DEF StartFIX, Steps
  <2>2. "fix" \in ready'
    BY <1>6 DEF StartFIX, Proceed
  <2> QED BY <2>1, <2>2, ProceedKeeps DEF InitFIXEngine
<1>7. CASE Signal
  <2>1. CASE UNCHANGED <<at, sessionVars>>
    BY <1>7, <2>1 DEF Signal, sessionVars
  <2>2. CASE at' = "killed" /\ Stopped
    BY <1>3, <1>7, <2>2 DEF Signal, Stopped, Lost
  <2> QED BY <1>7, <2>1, <2>2 DEF Signal
<1>8. CASE Shutdown
  BY <1>3, <1>8 DEF Shutdown, sessionVars
<1>9. CASE Exit
  BY <1>3, <1>9 DEF Exit, StopFIXEngine, Stopped, Lost
<1>10. CASE Session
  <2>1. UNCHANGED <<at, ready>>
    BY <1>10 DEF Session, mainVars
  <2>2. UNCHANGED engine /\ (link' => link \/ engine = "running")
    BY <1>10 DEF Session, SessionStep, SessionGoesOn, Logon, SendQueued, Subscribe,
                 FromApp, Venue, VenueMoves, Disconnect, Lost
  <2> QED BY <2>1, <2>2
<1> QED BY <1>1, <1>4, <1>5, <1>6, <1>7, <1>8, <1>9, <1>10 DEF Next, Main

\* OnLogon and FromApp only run when the tables, the channel and the goroutine
\* they need have been set up, whatever fails and whoever signals when.
THEOREM TablesFirst == Spec => []CallbacksFindTables
<1>1. StartInv => CallbacksFindTables
  BY DEF StartInv, Tabled, CallbacksFindTables
<1> QED BY StartInvInit, StartInvStep, <1>1, PTL DEF Spec

(***************************************************************************)
(* The messages of a subscription of depth 1.                              *)
(***************************************************************************)

Level == [px : Nat, qty : Nat]

Wired == [sym : Options, type : {"W", "X"}, fits : SUBSET {"levels", "index"},
          entries : Seq(Entry)]

\* e holds one complete entry for each side.
Paired(e) == \A s \in SideNames : e[s] \in Entry /\ e[s].kind = s
                                  /\ e[s].px \in Nat /\ e[s].qty \in Nat

\* Read up to max entries, es shows of side s what e has for it if s is in P,
\* and nothing if it is not.
Finds(es, P, e, s, max) ==
  /\ es \in Seq(Entry)
  /\ s \notin P => Complete(es, s, max) = {}
  /\ s \in P => \E k \in DOMAIN es : Complete(es, s, max) = {k} /\ es[k] = e[s]

\* The parser finds the entry of a side that is listed, and no other.
LEMMA ListedFound ==
  ASSUME NEW P \in SUBSET SideNames, NEW e, Paired(e),
         NEW s \in SideNames, NEW max \in Nat, max >= 2
  PROVE  Finds(Listed(P, e), P, e, s, max)
<1> SUFFICES /\ Listed(P, e) \in Seq(Entry)
             /\ s \notin P => Complete(Listed(P, e), s, max) = {}
             /\ s \in P => \E k \in DOMAIN Listed(P, e) :
                  Complete(Listed(P, e), s, max) = {k} /\ Listed(P, e)[k] = e[s]
  BY DEF Finds
<1> DEFINE b == e["bid"]
           a == e["ask"]
<1>1. /\ b \in Entry /\ b.kind = "bid" /\ b.px # Absent /\ b.qty # Absent
      /\ a \in Entry /\ a.kind = "ask" /\ a.px # Absent /\ a.qty # Absent
  BY DEF Paired, SideNames, Absent
<1>2. s = "bid" \/ s = "ask"
  BY DEF SideNames
<1> HIDE DEF a, b
<1>3. CASE "bid" \in P /\ "ask" \in P
  <2> DEFINE c == <<b>> \o <<a>>
  <2>1. Listed(P, e) = c
    BY <1>3 DEF Listed, a, b
  <2>2. c \in Seq(Entry) /\ DOMAIN c = {1, 2} /\ c[1] = b /\ c[2] = a
    <3>1. <<b>> \in Seq(Entry) /\ <<a>> \in Seq(Entry)
      BY <1>1
    <3>2. c \in Seq(Entry) /\ Len(c) = 2
      BY <3>1
    <3>3. c[1] = b /\ c[2] = a
      BY <3>1
    <3> HIDE DEF c
    <3> QED BY <3>2, <3>3
  <2> HIDE DEF c
  <2>3. Complete(c, "bid", max) = {1} /\ Complete(c, "ask", max) = {2}
    BY <1>1, <2>2 DEF Complete
  <2> QED BY <1>2, <1>3, <2>1, <2>2, <2>3 DEF a, b
<1>4. CASE "bid" \in P /\ "ask" \notin P
  <2>1. Listed(P, e) = <<b>>
    BY <1>4 DEF Listed, b
  <2>2. <<b>> \in Seq(Entry) /\ DOMAIN <<b>> = {1} /\ <<b>>[1] = b
    BY <1>1
  <2>3. Complete(<<b>>, "bid", max) = {1} /\ Complete(<<b>>, "ask", max) = {}
    BY <1>1, <2>2 DEF Complete
  <2> QED BY <1>2, <1>4, <2>1, <2>2, <2>3 DEF b
<1>5. CASE "bid" \notin P /\ "ask" \in P
  <2>1. Listed(P, e) = <<a>>
    BY <1>5 DEF Listed, a
  <2>2. <<a>> \in Seq(Entry) /\ DOMAIN <<a>> = {1} /\ <<a>>[1] = a
    BY <1>1
  <2>3. Complete(<<a>>, "bid", max) = {} /\ Complete(<<a>>, "ask", max) = {1}
    BY <1>1, <2>2 DEF Complete
  <2> QED BY <1>2, <1>5, <2>1, <2>2, <2>3 DEF a
<1>6. CASE "bid" \notin P /\ "ask" \notin P
  <2>1. Listed(P, e) = <<>>
    BY <1>6 DEF Listed
  <2>2. <<>> \in Seq(Entry) /\ Complete(<<>>, s, max) = {}
    BY DEF Complete
  <2> QED BY <1>2, <1>6, <2>1, <2>2
<1> QED BY <1>3, <1>4, <1>5, <1>6

\* A side with one level in a snapshot, and one without.
LEMMA SnapshotOfOne ==
  ASSUME RoomForTop, NEW es \in Seq(Entry), NEW s, NEW k \in DOMAIN es,
         Complete(es, s, MaxEntriesW) = {k}, es[k].px > 0, es[k].qty > 0
  PROVE  SnapshotSide(es, s) = [px |-> es[k].px, qty |-> es[k].qty, del |-> FALSE]
<1>1. Levels(es, s) = {k}
  BY DEF Levels
<1>2. k \in Nat /\ es[k].px \in Nat
  <2>1. k \in Nat
    OBVIOUS
  <2>2. es[k].px # Absent
    BY CompleteIn
  <2> QED BY <2>1, <2>2, EntryType
<1>3. \A j \in Levels(es, s) : {i \in Levels(es, s) : i < j} = {}
  BY <1>1, <1>2
<1>4. Kept(es, s) = {k}
  <2>1. \A j \in Levels(es, s) : Cardinality({i \in Levels(es, s) : i < j}) = 0
    BY <1>3, FS_EmptySet
  <2>2. 0 < MaxLevels
    BY FixParseAssumption DEF RoomForTop
  <2>3. \A j \in Levels(es, s) : Cardinality({i \in Levels(es, s) : i < j}) < MaxLevels
    BY <2>1, <2>2
  <2>4. Kept(es, s) = Levels(es, s)
    BY <2>3, Zenon DEF Kept
  <2> QED BY <1>1, <2>4
<1>5. BestOf(es, {k}, s) = k
  <2>1. {k} \in SUBSET DOMAIN es /\ {k} # {} /\ \A j \in {k} : es[j].px \in Nat
    BY <1>2
  <2>2. BestOf(es, {k}, s) \in {k}
    BY <2>1, BestIn
  <2> QED BY <2>2
<1> QED BY <1>4, <1>5 DEF SnapshotSide

\* The same for an increment.
LEMMA IncrementOfOne ==
  ASSUME NEW es \in Seq(Entry), NEW s, NEW k \in DOMAIN es,
         Complete(es, s, MaxEntriesX) = {k}
  PROVE  IncrementalSide(es, s) =
           [px |-> es[k].px, qty |-> IF es[k].del THEN 0 ELSE es[k].qty,
            del |-> es[k].del]
<1>1. Reduced(es, {k}) = k
  <2>1. {k} \in SUBSET DOMAIN es /\ {k} # {}
    OBVIOUS
  <2>2. Reduced(es, {k}) \in {k}
    BY <2>1, ReducedIn
  <2> QED BY <2>2
<1>2. (\E j \in {k} : es[j].del) = es[k].del
  BY EntryType
<1> QED BY <1>1, <1>2 DEF IncrementalSide

(***************************************************************************)
(* What is under way.                                                      *)
(***************************************************************************)

\* The message m writes side s of option o.
Touches(m, o, s) == m.sym = o /\ Applies(FastParseHFT(m, s))

\* What w still brings makes of k the level v: the last message that writes
\* the side shows v, and if none does k shows it.
Arriving(w, k, v, o, s) ==
  /\ \A n \in DOMAIN w :
       Touches(w[n], o, s) /\ (\A j \in DOMAIN w : j > n => ~Touches(w[j], o, s))
         => Shows(Applied(w[n], s, NoLevel), v)
  /\ (\A n \in DOMAIN w : ~Touches(w[n], o, s)) => Shows(k, v)

SessionTyped ==
  /\ venue \in [Options -> [SideNames -> {NoLevel} \cup TopLevels]]
  /\ kept \in [Options -> [SideNames -> Level]]
  /\ sure \in [Options -> [SideNames -> BOOLEAN]]
  /\ wire \in Seq(Wired)

SessionInv ==
  /\ SessionTyped
  /\ ~link => request = "none"
  /\ request # "subscribed" => wire = <<>>
  /\ request = "subscribed" => \A o \in Options : \A s \in SideNames :
       /\ venue[o][s] # NoLevel => sure[o][s]
       /\ sure[o][s] => Arriving(wire, kept[o][s], venue[o][s], o, s)

\* What a message makes of a side it writes does not depend on the side.
LEMMA WrittenAnew ==
  ASSUME NEW m, NEW s, NEW old, NEW older
  PROVE  /\ Applies(FastParseHFT(m, s)) => Applied(m, s, old) = Applied(m, s, older)
         /\ ~Applies(FastParseHFT(m, s)) => Applied(m, s, old) = old
BY DEF Applied

\* Receiving the first message.
LEMMA ArrivesFirst ==
  ASSUME NEW w \in Seq(Wired), w # <<>>, NEW k, NEW v, NEW o, NEW s,
         Arriving(w, k, v, o, s)
  PROVE  Arriving(Tail(w), IF Head(w).sym = o THEN Applied(Head(w), s, k) ELSE k, v, o, s)
<1> DEFINE t == Tail(w)
           k2 == IF Head(w).sym = o THEN Applied(Head(w), s, k) ELSE k
<1>1. /\ Len(w) \in Nat /\ Len(w) >= 1 /\ DOMAIN w = 1 .. Len(w)
      /\ DOMAIN t = 1 .. Len(w) - 1 /\ Head(w) = w[1]
      /\ \A n \in DOMAIN t : t[n] = w[n + 1]
  OBVIOUS
<1> HIDE DEF t
<1>2. ASSUME NEW n \in DOMAIN t, Touches(t[n], o, s),
             \A j \in DOMAIN t : j > n => ~Touches(t[j], o, s)
      PROVE  Shows(Applied(t[n], s, NoLevel), v)
  <2>1. n + 1 \in DOMAIN w /\ t[n] = w[n + 1]
    BY <1>1
  <2>2. ASSUME NEW j \in DOMAIN w, j > n + 1
        PROVE  ~Touches(w[j], o, s)
    <3>1. j - 1 \in DOMAIN t /\ j - 1 > n /\ t[j - 1] = w[j]
      BY <1>1, <2>2
    <3> QED BY <1>2, <3>1
  <2> QED BY <1>2, <2>1, <2>2 DEF Arriving
<1>3. ASSUME \A n \in DOMAIN t : ~Touches(t[n], o, s)
      PROVE  Shows(k2, v)
  <2>1. ASSUME NEW j \in DOMAIN w, j > 1
        PROVE  ~Touches(w[j], o, s)
    <3>1. j - 1 \in DOMAIN t /\ t[j - 1] = w[j]
      BY <1>1, <2>1
    <3> QED BY <1>3, <3>1
  <2>2. CASE Touches(w[1], o, s)
    <3>1. Shows(Applied(w[1], s, NoLevel), v)
      BY <1>1, <2>1, <2>2 DEF Arriving
    <3> QED BY <1>1, <2>2, <3>1, WrittenAnew DEF Touches
  <2>3. CASE ~Touches(w[1], o, s)
    <3>1. \A j \in DOMAIN w : ~Touches(w[j], o, s)
      BY <1>1, <2>1, <2>3
    <3>2. Shows(k, v)
      BY <3>1 DEF Arriving
    <3> QED BY <1>1, <2>3, <3>2, WrittenAnew DEF Touches
  <2> QED BY <2>2, <2>3
<1> QED BY <1>2, <1>3 DEF Arriving, t

LEMMA Appended ==
  ASSUME NEW w \in Seq(Wired), NEW m \in Wired
  PROVE  LET u == Append(w, m)
         IN  /\ u \in Seq(Wired) /\ Len(w) \in Nat
             /\ DOMAIN w = 1 .. Len(w) /\ DOMAIN u = 1 .. Len(w) + 1
             /\ u[Len(w) + 1] = m /\ \A n \in DOMAIN w : u[n] = w[n]
OBVIOUS

\* Sending a message that does not write the side.
LEMMA ArrivesBesides ==
  ASSUME NEW w \in Seq(Wired), NEW m \in Wired, NEW k, NEW v, NEW o, NEW s,
         Arriving(w, k, v, o, s), ~Touches(m, o, s)
  PROVE  Arriving(Append(w, m), k, v, o, s)
<1> DEFINE u == Append(w, m)
<1>1. /\ Len(w) \in Nat
      /\ DOMAIN w = 1 .. Len(w) /\ DOMAIN u = 1 .. Len(w) + 1
      /\ u[Len(w) + 1] = m /\ \A n \in DOMAIN w : u[n] = w[n]
  BY Appended
<1> HIDE DEF u
<1>2. \A n \in DOMAIN u : Touches(u[n], o, s) => n \in DOMAIN w
  BY <1>1
<1>3. \A n \in DOMAIN w : n \in DOMAIN u
  BY <1>1
<1> QED BY <1>1, <1>2, <1>3 DEF Arriving, u

\* Sending one that does: it is the last.
LEMMA ArrivesLast ==
  ASSUME NEW w \in Seq(Wired), NEW m \in Wired, NEW k, NEW v, NEW o, NEW s,
         Touches(m, o, s), Shows(Applied(m, s, NoLevel), v)
  PROVE  Arriving(Append(w, m), k, v, o, s)
<1> DEFINE u == Append(w, m)
           l == Len(w) + 1
<1>1. /\ Len(w) \in Nat /\ DOMAIN u = 1 .. l /\ u[l] = m
  BY Appended
<1>2. l \in DOMAIN u /\ \A n \in DOMAIN u : n # l => l > n
  BY <1>1
<1> HIDE DEF u, l
<1> QED BY <1>1, <1>2 DEF Arriving, u

\* Tops of the book: a level, or none.
LEMMA TopType ==
  ASSUME NEW t \in {NoLevel} \cup TopLevels
  PROVE  /\ t \in Level
         /\ t # NoLevel => t.px > 0 /\ t.qty > 0
<1>1. t = NoLevel \/ t \in [px : Nat \ {0}, qty : Nat \ {0}]
  BY FixSessionAssumption
<1> QED BY <1>1 DEF NoLevel, Level

\* x is an entry for side s with the price and quantity of v.
EntryFor(x, s, v) ==
  x \in Entry /\ x.kind = s /\ x.px = v.px /\ x.qty = v.qty /\ x.px \in Nat /\ x.qty \in Nat

LEMMA EntryOfLevel ==
  ASSUME NEW s \in SideNames, NEW v \in Level
  PROVE  /\ EntryFor(AsEntry(s, v, TRUE), s, v) /\ AsEntry(s, v, TRUE).del = TRUE
         /\ EntryFor(AsEntry(s, v, FALSE), s, v) /\ AsEntry(s, v, FALSE).del = FALSE
<1>1. s \in {"bid", "ask", "index", "other"} /\ v.px \in Nat /\ v.qty \in Nat
  BY DEF SideNames, Level
<1> QED BY <1>1 DEF AsEntry, Entry, EntryFor

\* A snapshot writes the sides that have a level, with that level.
LEMMA SnapshotSays ==
  ASSUME RoomForTop, SessionTyped, NEW o \in Options
  PROVE  /\ Snapshot(o) \in Wired /\ Snapshot(o).sym = o
         /\ \A s \in SideNames :
              /\ venue[o][s] = NoLevel => ~Applies(FastParseHFT(Snapshot(o), s))
              /\ venue[o][s] # NoLevel =>
                   /\ Applies(FastParseHFT(Snapshot(o), s))
                   /\ Shows(Applied(Snapshot(o), s, NoLevel), venue[o][s])
<1> DEFINE e == [s \in SideNames |-> AsEntry(s, venue[o][s], FALSE)]
           P == {s \in SideNames : venue[o][s] # NoLevel}
           es == Listed(P, e)
           m == Snapshot(o)
<1>1. m.type = "W" /\ m.fits = {"levels"} /\ m.entries = es /\ m.sym = o
      /\ m = [sym |-> o, type |-> "W", fits |-> {"levels"}, entries |-> es]
  BY DEF Snapshot
<1>2. \A s \in SideNames :
        /\ venue[o][s] \in Level
        /\ venue[o][s] # NoLevel => venue[o][s].px > 0 /\ venue[o][s].qty > 0
  BY TopType DEF SessionTyped
<1>3. ASSUME NEW s \in SideNames
      PROVE  EntryFor(e[s], s, venue[o][s])
  <2>1. e[s] = AsEntry(s, venue[o][s], FALSE)
    OBVIOUS
  <2> HIDE DEF e
  <2> QED BY <1>2, <2>1, EntryOfLevel
<1>4. Paired(e) /\ P \in SUBSET SideNames
  <2> HIDE DEF e
  <2> QED BY <1>3 DEF Paired, EntryFor
<1>5. MaxEntriesW \in Nat /\ MaxEntriesW >= 2
  BY FixParseAssumption DEF RoomForTop
<1>6. ASSUME NEW s \in SideNames
      PROVE  /\ es \in Seq(Entry)
             /\ s \notin P => Complete(es, s, MaxEntriesW) = {}
             /\ s \in P => \E k \in DOMAIN es :
                  Complete(es, s, MaxEntriesW) = {k} /\ es[k] = e[s]
  <2> HIDE DEF e, P
  <2>1. es = Listed(P, e)
    OBVIOUS
  <2>2. Paired(e) /\ P \in SUBSET SideNames
    BY <1>4
  <2> HIDE DEF es, m
  <2>3. Finds(Listed(P, e), P, e, s, MaxEntriesW)
    BY <1>5, <2>2, ListedFound
  <2>4. Finds(es, P, e, s, MaxEntriesW)
    BY <2>1, <2>3
  <2> QED BY <2>4 DEF Finds
<1>7. \A s \in SideNames : s \in P <=> venue[o][s] # NoLevel
  OBVIOUS
<1> HIDE DEF e, P, es, m
<1>8. es \in Seq(Entry)
  BY <1>6 DEF SideNames
<1>9. m \in Wired
  BY <1>1, <1>8 DEF Wired
<1>10. ASSUME NEW s \in SideNames, venue[o][s] = NoLevel
       PROVE  ~Applies(FastParseHFT(m, s))
  <2>1. Complete(es, s, MaxEntriesW) = {}
    BY <1>6, <1>7, <1>10
  <2>2. Kept(es, s) = {}
    BY <2>1 DEF Kept, Levels
  <2>3. FastParseHFT(m, s) = NoQuote
    BY <1>1, <2>2 DEF FastParseHFT, SnapshotSide
  <2> QED BY <2>3 DEF Applies, NoQuote
<1>11. ASSUME NEW s \in SideNames, venue[o][s] # NoLevel
       PROVE  /\ Applies(FastParseHFT(m, s))
              /\ Shows(Applied(m, s, NoLevel), venue[o][s])
  <2>1. PICK k \in DOMAIN es : Complete(es, s, MaxEntriesW) = {k} /\ es[k] = e[s]
    BY <1>6, <1>7, <1>11
  <2>2. es[k].px = venue[o][s].px /\ es[k].qty = venue[o][s].qty
        /\ es[k].px > 0 /\ es[k].qty > 0
    BY <1>2, <1>3, <1>11, <2>1 DEF EntryFor
  <2>3. SnapshotSide(es, s) = [px |-> es[k].px, qty |-> es[k].qty, del |-> FALSE]
    BY <1>8, <2>1, <2>2, SnapshotOfOne
  <2>4. FastParseHFT(m, s) = SnapshotSide(es, s)
    BY <1>1 DEF FastParseHFT
  <2> QED BY <2>2, <2>3, <2>4 DEF Applies, Applied, Shows
<1> QED BY <1>1, <1>9, <1>10, <1>11 DEF m

\* An increment writes the sides that change, and makes them what they become.
LEMMA IncrementSays ==
  ASSUME RoomForTop, SessionTyped, NEW o \in Options,
         NEW top \in [SideNames -> {NoLevel} \cup TopLevels]
  PROVE  /\ Increment(o, top) \in Wired /\ Increment(o, top).sym = o
         /\ \A s \in SideNames :
              /\ top[s] = venue[o][s] => ~Applies(FastParseHFT(Increment(o, top), s))
              /\ top[s] # venue[o][s] =>
                   /\ Applies(FastParseHFT(Increment(o, top), s))
                   /\ Shows(Applied(Increment(o, top), s, NoLevel), top[s])
<1> DEFINE e == [s \in SideNames |->
                   IF top[s] = NoLevel THEN AsEntry(s, venue[o][s], TRUE)
                   ELSE AsEntry(s, top[s], FALSE)]
           P == {s \in SideNames : top[s] # venue[o][s]}
           es == Listed(P, e)
           m == Increment(o, top)
<1>1. m.type = "X" /\ m.fits = {"levels"} /\ m.entries = es /\ m.sym = o
      /\ m = [sym |-> o, type |-> "X", fits |-> {"levels"}, entries |-> es]
  BY DEF Increment
<1>2. \A s \in SideNames :
        /\ venue[o][s] \in Level /\ top[s] \in Level
        /\ venue[o][s] # NoLevel => venue[o][s].px > 0 /\ venue[o][s].qty > 0
        /\ top[s] # NoLevel => top[s].px > 0 /\ top[s].qty > 0
  BY TopType DEF SessionTyped
<1>3. ASSUME NEW s \in SideNames
      PROVE  /\ top[s] = NoLevel => EntryFor(e[s], s, venue[o][s]) /\ e[s].del = TRUE
             /\ top[s] # NoLevel => EntryFor(e[s], s, top[s]) /\ e[s].del = FALSE
  <2>1. /\ top[s] = NoLevel => e[s] = AsEntry(s, venue[o][s], TRUE)
        /\ top[s] # NoLevel => e[s] = AsEntry(s, top[s], FALSE)
    OBVIOUS
  <2>2. venue[o][s] \in Level /\ top[s] \in Level
    BY <1>2
  <2> HIDE DEF e
  <2> QED BY <2>1, <2>2, EntryOfLevel
<1>4. Paired(e) /\ P \in SUBSET SideNames
  <2> HIDE DEF e
  <2> QED BY <1>3 DEF Paired, EntryFor
<1>5. MaxEntriesX \in Nat /\ MaxEntriesX >= 2
  BY FixParseAssumption DEF RoomForTop
<1>6. ASSUME NEW s \in SideNames
      PROVE  /\ es \in Seq(Entry)
             /\ s \notin P => Complete(es, s, MaxEntriesX) = {}
             /\ s \in P => \E k \in DOMAIN es :
                  Complete(es, s, MaxEntriesX) = {k} /\ es[k] = e[s]
  <2> HIDE DEF e, P
  <2>1. es = Listed(P, e)
    OBVIOUS
  <2>2. Paired(e) /\ P \in SUBSET SideNames
    BY <1>4
  <2> HIDE DEF es, m
  <2>3. Finds(Listed(P, e), P, e, s, MaxEntriesX)
    BY <1>5, <2>2, ListedFound
  <2>4. Finds(es, P, e, s, MaxEntriesX)
    BY <2>1, <2>3
  <2> QED BY <2>4 DEF Finds
<1>7. \A s \in SideNames : s \in P <=> top[s] # venue[o][s]
  OBVIOUS
<1> HIDE DEF e, P, es, m
<1>8. es \in Seq(Entry)
  BY <1>6 DEF SideNames
<1>9. m \in Wired
  BY <1>1, <1>8 DEF Wired
<1>10. \A s \in SideNames : FastParseHFT(m, s) = IncrementalSide(es, s)
  BY <1>1 DEF FastParseHFT
<1>11. ASSUME NEW s \in SideNames, top[s] = venue[o][s]
       PROVE  ~Applies(FastParseHFT(m, s))
  <2>1. Complete(es, s, MaxEntriesX) = {}
    BY <1>6, <1>7, <1>11
  <2>2. FastParseHFT(m, s) = NoQuote
    BY <1>10, <2>1 DEF IncrementalSide
  <2> QED BY <2>2 DEF Applies, NoQuote
<1>12. ASSUME NEW s \in SideNames, top[s] # venue[o][s]
       PROVE  /\ Applies(FastParseHFT(m, s))
              /\ Shows(Applied(m, s, NoLevel), top[s])
  <2>1. PICK k \in DOMAIN es : Complete(es, s, MaxEntriesX) = {k} /\ es[k] = e[s]
    BY <1>6, <1>7, <1>12
  <2>2. FastParseHFT(m, s) = [px |-> es[k].px, del |-> es[k].del,
                              qty |-> IF es[k].del THEN 0 ELSE es[k].qty]
    BY <1>8, <1>10, <2>1, IncrementOfOne
  <2>3. CASE top[s] = NoLevel
    <3>1. e[s].del = TRUE
      BY <1>3, <2>3
    <3>2. es[k].del = TRUE
      BY <2>1, <3>1
    <3> QED BY <2>2, <2>3, <3>2 DEF Applies, Applied, Shows, NoLevel
  <2>4. CASE top[s] # NoLevel
    <3>1. EntryFor(e[s], s, top[s]) /\ e[s].del = FALSE /\ top[s].px > 0
      BY <1>2, <1>3, <2>4
    <3>2. es[k].del = FALSE /\ es[k].px = top[s].px /\ es[k].qty = top[s].qty
      BY <2>1, <3>1 DEF EntryFor
    <3> QED BY <2>2, <3>1, <3>2 DEF Applies, Applied, Shows
  <2> QED BY <2>3, <2>4
<1> QED BY <1>1, <1>9, <1>11, <1>12 DEF m

\* The answer to a request, on a wire that was empty.
LEMMA ArrivesSubscribed ==
  ASSUME RoomForTop, SessionTyped, NEW o \in Options, NEW s \in SideNames,
         venue[o][s] # NoLevel \/ kept[o][s].qty = 0
  PROVE  Arriving([p \in Options |-> Snapshot(p)], kept[o][s], venue[o][s], o, s)
<1> DEFINE w == [p \in Options |-> Snapshot(p)]
<1>1. DOMAIN w = Options /\ \A p \in Options : w[p] = Snapshot(p)
  OBVIOUS
<1>2. \A p \in Options : Snapshot(p).sym = p
  BY SnapshotSays
<1>3. \A p \in Options : Touches(w[p], o, s) => p = o /\ venue[o][s] # NoLevel
  <2> HIDE DEF w
  <2> QED BY <1>1, <1>2, SnapshotSays DEF Touches
<1>4. venue[o][s] # NoLevel =>
        Touches(w[o], o, s) /\ Shows(Applied(w[o], s, NoLevel), venue[o][s])
  <2> HIDE DEF w
  <2> QED BY <1>1, <1>2, SnapshotSays DEF Touches
<1> HIDE DEF w
<1>5. venue[o][s] = NoLevel => Shows(kept[o][s], venue[o][s])
  <2> SUFFICES ASSUME venue[o][s] = NoLevel PROVE Shows(kept[o][s], venue[o][s])
    OBVIOUS
  <2>1. kept[o][s].qty = 0
    OBVIOUS
  <2> QED BY <2>1 DEF Shows, NoLevel
<1> QED BY <1>1, <1>3, <1>4, <1>5 DEF Arriving, w

LEMMA SessionInvInit == Init => SessionInv
<1> SUFFICES ASSUME Init PROVE SessionInv
  OBVIOUS
<1>1. NoLevel \in Level
  BY DEF NoLevel, Level
<1> QED BY <1>1 DEF Init, SessionInit, SessionInv, SessionTyped, Sides

\* Receiving a message changes one option's sides, as Applied says.
LEMMA FromAppKeeps ==
  ASSUME SessionInv, FromApp
  PROVE  SessionInv'
<1> USE DEF SessionInv
<1> DEFINE m == Head(wire)
           k2(o, s) == IF m.sym = o THEN Applied(m, s, kept[o][s]) ELSE kept[o][s]
<1>1. wire \in Seq(Wired) /\ wire # <<>> /\ wire' = Tail(wire)
      /\ UNCHANGED <<link, request, venue, sure>>
  BY DEF FromApp, SessionTyped
<1>2. m \in Wired /\ Tail(wire) \in Seq(Wired)
  BY <1>1
<1>3. kept' = [kept EXCEPT ![m.sym] = [s \in SideNames |-> Applied(m, s, @[s])]]
  BY DEF FromApp
<1>4. m.sym \in Options /\ m.entries \in Seq(Entry)
  BY <1>2 DEF Wired
<1> HIDE DEF m
<1>5. \A s \in SideNames : \A old \in Level : Applied(m, s, old) \in Level
  BY <1>4, ParserType DEF Applied, QuoteSide, Level
<1>6. kept \in [Options -> [SideNames -> Level]]
  BY DEF SessionTyped
<1>7. kept' \in [Options -> [SideNames -> Level]]
  BY <1>3, <1>4, <1>5, <1>6
<1>8. \A o \in Options : \A s \in SideNames : kept'[o][s] = k2(o, s)
  BY <1>3, <1>4, <1>6
<1> HIDE DEF k2
<1>9. SessionTyped'
  BY <1>1, <1>2, <1>7 DEF SessionTyped
<1>10. request = "subscribed"
  BY <1>1
<1>11. ASSUME NEW o \in Options, NEW s \in SideNames, sure[o][s]
       PROVE  Arriving(wire', kept'[o][s], venue[o][s], o, s)
  <2>1. Arriving(wire, kept[o][s], venue[o][s], o, s)
    BY <1>10, <1>11
  <2>2. Arriving(Tail(wire), k2(o, s), venue[o][s], o, s)
    BY <1>1, <2>1, ArrivesFirst DEF k2, m
  <2> QED BY <1>1, <1>8, <2>2
<1> QED BY <1>1, <1>9, <1>10, <1>11

LEMMA VenueKeeps ==
  ASSUME RoomForTop, SessionInv, NEW o \in Options,
         NEW top \in [SideNames -> {NoLevel} \cup TopLevels], VenueMoves(o, top)
  PROVE  SessionInv'
<1> USE DEF SessionInv
<1> DEFINE m == Increment(o, top)
<1>0. SessionTyped
  OBVIOUS
<1>1. /\ venue' = [venue EXCEPT ![o] = top]
      /\ UNCHANGED <<link, request, kept>>
  BY DEF VenueMoves
<1>2. venue \in [Options -> [SideNames -> {NoLevel} \cup TopLevels]]
      /\ sure \in [Options -> [SideNames -> BOOLEAN]] /\ wire \in Seq(Wired)
      /\ kept \in [Options -> [SideNames -> Level]]
  BY DEF SessionTyped
<1>3. /\ venue' \in [Options -> [SideNames -> {NoLevel} \cup TopLevels]]
      /\ venue'[o] = top /\ \A p \in Options : p # o => venue'[p] = venue[p]
  BY <1>1, <1>2
<1>4. CASE request # "subscribed"
  <2>1. UNCHANGED <<wire, sure>>
    BY <1>4 DEF VenueMoves
  <2>2. SessionTyped'
    BY <1>1, <1>2, <1>3, <2>1 DEF SessionTyped
  <2> QED BY <1>1, <1>4, <2>1, <2>2
<1>5. CASE request = "subscribed"
  <2>1. /\ wire' = Append(wire, m)
        /\ sure' = [sure EXCEPT ![o] = [s \in SideNames |-> @[s] \/ top[s] # NoLevel]]
    BY <1>5 DEF VenueMoves
  <2>2. m \in Wired /\ m.sym = o
    BY <1>0, IncrementSays
  <2>3. wire' \in Seq(Wired)
    BY <1>2, <2>1, <2>2
  <2>4. /\ sure' \in [Options -> [SideNames -> BOOLEAN]]
        /\ \A p \in Options : p # o => sure'[p] = sure[p]
        /\ \A s \in SideNames : sure'[o][s] <=> sure[o][s] \/ top[s] # NoLevel
    BY <1>2, <2>1
  <2>5. SessionTyped'
    BY <1>1, <1>2, <1>3, <2>3, <2>4 DEF SessionTyped
  <2>6. ASSUME NEW p \in Options, NEW s \in SideNames
        PROVE  /\ venue'[p][s] # NoLevel => sure'[p][s]
               /\ sure'[p][s] => Arriving(wire', kept[p][s], venue'[p][s], p, s)
    <3>0. /\ venue[p][s] # NoLevel => sure[p][s]
          /\ sure[p][s] => Arriving(wire, kept[p][s], venue[p][s], p, s)
      BY <1>5
    <3>1. CASE p # o
      <4>1. ~Touches(m, p, s)
        BY <2>2, <3>1 DEF Touches
      <4>2. sure'[p] = sure[p] /\ venue'[p] = venue[p]
        BY <1>3, <2>4, <3>1
      <4> HIDE DEF m
      <4>3. sure[p][s] => Arriving(wire', kept[p][s], venue[p][s], p, s)
        BY <1>2, <2>1, <2>2, <3>0, <4>1, ArrivesBesides
      <4> QED BY <3>0, <4>2, <4>3
    <3>2. CASE p = o /\ top[s] = venue[o][s]
      <4>1. ~Touches(m, p, s)
        BY <1>0, <3>2, IncrementSays DEF Touches
      <4>2. (sure'[p][s] => sure[p][s]) /\ (sure[p][s] => sure'[p][s])
            /\ venue'[p][s] = venue[p][s]
        BY <1>3, <2>4, <3>0, <3>2
      <4> HIDE DEF m
      <4>3. sure[p][s] => Arriving(wire', kept[p][s], venue[p][s], p, s)
        BY <1>2, <2>1, <2>2, <3>0, <4>1, ArrivesBesides
      <4> QED BY <3>0, <4>2, <4>3
    <3>3. CASE p = o /\ top[s] # venue[o][s]
      <4>1. Touches(m, p, s) /\ Shows(Applied(m, s, NoLevel), top[s])
        BY <1>0, <2>2, <3>3, IncrementSays DEF Touches
      <4>2. venue'[p][s] = top[s] /\ (top[s] # NoLevel => sure'[p][s])
        BY <1>3, <2>4, <3>3
      <4> HIDE DEF m
      <4>3. Arriving(wire', kept[p][s], top[s], p, s)
        BY <1>2, <2>1, <2>2, <4>1, ArrivesLast
      <4> QED BY <4>2, <4>3
    <3> QED BY <3>1, <3>2, <3>3
  <2> QED BY <1>1, <1>5, <2>5, <2>6
<1> QED BY <1>4, <1>5

LEMMA SubscribeKeeps ==
  ASSUME RoomForTop, SessionInv, Subscribe
  PROVE  SessionInv'
<1> USE DEF SessionInv
<1> DEFINE w == [p \in Options |-> Snapshot(p)]
<1>0. SessionTyped
  OBVIOUS
<1>1. /\ wire = <<>> /\ wire' = wire \o w /\ request = "sent" /\ request' = "subscribed"
      /\ UNCHANGED <<link, venue, kept>>
      /\ sure' = [o \in Options |-> [s \in SideNames |->
                    venue[o][s] # NoLevel \/ kept[o][s].qty = 0]]
  BY DEF Subscribe
<1>2. w \in Seq(Wired)
  <2>1. \A p \in Options : Snapshot(p) \in Wired
    BY <1>0, SnapshotSays
  <2>2. NumOptions \in Nat /\ Options = 1 .. NumOptions
    BY FixSessionAssumption
  <2> QED BY <2>1, <2>2
<1>3. wire' = w
  <2> HIDE DEF w
  <2> QED BY <1>1, <1>2
<1>4. SessionTyped'
  <2> HIDE DEF w
  <2> QED BY <1>0, <1>1, <1>2, <1>3 DEF SessionTyped
<1>5. ASSUME NEW o \in Options, NEW s \in SideNames
      PROVE  sure'[o][s] <=> venue[o][s] # NoLevel \/ kept[o][s].qty = 0
  BY <1>1
<1>6. ASSUME NEW o \in Options, NEW s \in SideNames, sure'[o][s]
      PROVE  Arriving(wire', kept[o][s], venue[o][s], o, s)
  BY <1>0, <1>3, <1>5, <1>6, ArrivesSubscribed
<1> HIDE DEF w
<1> QED BY <1>1, <1>4, <1>5, <1>6

LEMMA SessionInvStep ==
  ASSUME RoomForTop, SessionInv, [Next]_vars
  PROVE  SessionInv'
<1> USE DEF SessionInv
<1>1. CASE UNCHANGED sessionVars
  BY <1>1 DEF sessionVars, SessionTyped
<1>2. ASSUME Lost, UNCHANGED <<venue, kept, sure>>
      PROVE  SessionInv'
  BY <1>2 DEF Lost, SessionTyped
<1>3. CASE InitFIXEngine
  BY <1>3 DEF InitFIXEngine, SessionTyped
<1>4. CASE Logon
  BY <1>4 DEF Logon, SessionTyped
<1>5. CASE SendQueued
  BY <1>5 DEF SendQueued, SessionTyped
<1>6. CASE Subscribe
  BY <1>6, SubscribeKeeps
<1>7. CASE FromApp
  BY <1>7, FromAppKeeps
<1>8. CASE Venue
  BY <1>8, VenueKeeps DEF Venue
<1>9. CASE Disconnect
  BY <1>2, <1>9 DEF Disconnect
<1>10. CASE Stopped
  BY <1>2, <1>10 DEF Stopped
<1>11. CASE UNCHANGED vars
  BY <1>1, <1>11 DEF vars, sessionVars
<1>12. CASE Main
  BY <1>1, <1>3, <1>10, <1>12
     DEF Main, Credentials, Tables, NewTelegramFromEnv, ChooseStrategy, StartEngine,
         StartFIX, Notify, Shutdown, Exit, StopFIXEngine
<1>13. CASE FetchJWTToken \/ BuildUniverse \/ Answer
  BY <1>1, <1>13 DEF FetchJWTToken, BuildUniverse, Answer
<1>14. CASE Signal
  BY <1>1, <1>10, <1>14 DEF Signal, sessionVars
<1>15. CASE Session
  BY <1>4, <1>5, <1>6, <1>7, <1>8, <1>9, <1>15 DEF Session, SessionStep, SessionGoesOn
<1> QED BY <1>11, <1>12, <1>13, <1>14, <1>15 DEF Next

\* However the market moves and however often the connection is lost, when all
\* that was sent has been received the book shows what the venue has, on the
\* sides FixSession's sure tells.
THEOREM BookCaughtUp ==
  ASSUME RoomForTop
  PROVE  Spec => []CaughtUpExact
<1>1. SessionInv => CaughtUpExact
  <2> SUFFICES ASSUME SessionInv, CaughtUp, NEW o \in Options, NEW s \in SideNames, sure[o][s]
               PROVE  Shows(kept[o][s], venue[o][s])
    BY DEF CaughtUpExact
  <2>1. Arriving(<<>>, kept[o][s], venue[o][s], o, s)
    BY DEF SessionInv, CaughtUp
  <2> QED BY <2>1 DEF Arriving
<1>2. SessionInv /\ [Next]_vars => SessionInv'
  BY SessionInvStep
<1> QED BY SessionInvInit, <1>1, <1>2, PTL DEF Spec
=============================================================================
