----------------------------- MODULE FixSession ------------------------------
(***************************************************************************)
(* Package fix, the life of the session: InitFIXEngine starts an initiator *)
(* that connects again whenever the connection is lost; each logon makes   *)
(* OnLogon ask for the market data of all options; the venue answers with  *)
(* a snapshot of each and sends what changes; FromApp applies that to the  *)
(* book, which is never cleared.  The steps between these handlers are     *)
(* those of the vendored quickfix; the venue is modelled from how the code *)
(* uses it.                                                                *)
(***************************************************************************)
EXTENDS FixParse

CONSTANTS
  Options,              \* the symbols subscribed to, as indices 1 .. n
  TopLevels,              \* the levels the venue may have on a side
  MaxMoves, MaxDrops    \* bounds: changes at the venue, lost connections

NumOptions == Cardinality(Options)

ASSUME FixSessionAssumption ==
  /\ NumOptions \in Nat /\ Options = 1 .. NumOptions
  /\ TopLevels \subseteq [px : Nat \ {0}, qty : Nat \ {0}]
  /\ MaxMoves \in Nat /\ MaxDrops \in Nat

\* The parser's limits, 32, 8 and 16 in the code, leave room for the one level
\* a side has in the messages of a subscription of depth 1.
RoomForTop == MaxEntriesW >= 2 /\ MaxEntriesX >= 2 /\ MaxLevels >= 1

VARIABLES
  engine,   \* "off", "running", "failed" (InitFIXEngine), "stopped"
  link,     \* the session is logged on
  request,  \* the market data request of this logon
  wire,     \* messages on their way, in order
  venue,    \* the venue's book of depth 1
  kept,     \* the sides of the DepthEntries
  sure,     \* history: sides the venue has had a level on since the request
            \* arrived, or of which nothing was kept then
  moves, drops

sessionVars == <<engine, link, request, wire, venue, kept, sure, moves, drops>>

Sides(v) == [o \in Options |-> [s \in SideNames |-> v]]

SessionInit ==
  /\ engine = "off" /\ link = FALSE /\ request = "none"
  /\ wire = <<>>
  /\ venue \in [Options -> [SideNames -> {NoLevel} \cup TopLevels]]
  /\ kept = Sides(NoLevel)
  /\ sure = Sides(FALSE)
  /\ moves = 0 /\ drops = 0

AsEntry(s, level, gone) ==
  [kind |-> s, px |-> level.px, qty |-> level.qty, del |-> gone]

\* The entries of a message: bids before asks.
Listed(P, entry) ==
  (IF "bid" \in P THEN <<entry["bid"]>> ELSE <<>>)
    \o (IF "ask" \in P THEN <<entry["ask"]>> ELSE <<>>)

Snapshot(o) ==
  LET entry == [s \in SideNames |-> AsEntry(s, venue[o][s], FALSE)]
  IN  [sym |-> o, type |-> "W", fits |-> {"levels"},
       entries |-> Listed({s \in SideNames : venue[o][s] # NoLevel}, entry)]

\* An entry that deletes names the level that goes.
Increment(o, top) ==
  LET entry == [s \in SideNames |->
                  IF top[s] = NoLevel THEN AsEntry(s, venue[o][s], TRUE)
                  ELSE AsEntry(s, top[s], FALSE)]
  IN  [sym |-> o, type |-> "X", fits |-> {"levels"},
       entries |-> Listed({s \in SideNames : top[s] # venue[o][s]}, entry)]

\* An error leaves the initiator nil, or without a session that runs; main
\* logs it and goes on.
InitFIXEngine ==
  /\ engine = "off"
  /\ engine' \in {"running", "failed"}
  /\ UNCHANGED <<link, request, wire, venue, kept, sure, moves, drops>>

\* Fault: the subscription is thought to outlive the connection.
LogonFirstTime ==
  /\ engine = "running" /\ ~link
  /\ link' = TRUE
  /\ request' \in IF drops = 0 THEN {"queued", "refused"} ELSE {"none"}
  /\ UNCHANGED <<engine, wire, venue, kept, sure, moves, drops>>

\* The venue accepts the logon and quickfix calls OnLogon.  SendToTarget
\* queues the request, or refuses it if it cannot be stored, which is logged.
Logon ==
  /\ engine = "running" /\ ~link
  /\ link' = TRUE
  /\ request' \in {"queued", "refused"}
  /\ UNCHANGED <<engine, wire, venue, kept, sure, moves, drops>>

\* The session's goroutine takes the request from its queue ...
SendQueued ==
  /\ link /\ request = "queued"
  /\ request' = "sent"
  /\ UNCHANGED <<engine, link, wire, venue, kept, sure, moves, drops>>

\* ... and the venue answers: snapshots first, increments from then on.
Subscribe ==
  /\ request = "sent"
  /\ request' = "subscribed"
  /\ wire' = wire \o [o \in Options |-> Snapshot(o)]
  /\ sure' = [o \in Options |-> [s \in SideNames |->
                venue[o][s] # NoLevel \/ kept[o][s].qty = 0]]
  /\ UNCHANGED <<engine, link, venue, kept, moves, drops>>

\* The market also moves before and after, but nothing shows it: Init takes
\* any market, and nothing is received any more.
VenueMoves(o, top) ==
  /\ engine = "running"
  /\ moves < MaxMoves
  /\ top # venue[o]
  /\ moves' = moves + 1
  /\ venue' = [venue EXCEPT ![o] = top]
  /\ wire' = IF request = "subscribed" THEN Append(wire, Increment(o, top)) ELSE wire
  /\ sure' = IF request # "subscribed" THEN sure
             ELSE [sure EXCEPT ![o] = [s \in SideNames |-> @[s] \/ top[s] # NoLevel]]
  /\ UNCHANGED <<engine, link, request, kept, drops>>

\* FromApp; applying a message to the entries is FixFeed's subject.
FromApp ==
  /\ wire # <<>>
  /\ LET m == Head(wire)
     IN  kept' = [kept EXCEPT ![m.sym] = [s \in SideNames |-> Applied(m, s, @[s])]]
  /\ wire' = Tail(wire)
  /\ UNCHANGED <<engine, link, request, venue, sure, moves, drops>>

\* What was under way is lost: the next logon drops what is queued and, by
\* the ResetSeqNumFlag that ToAdmin sets, has nothing sent again.
Lost == link' = FALSE /\ request' = "none" /\ wire' = <<>>

Disconnect ==
  /\ link /\ drops < MaxDrops
  /\ Lost
  /\ drops' = drops + 1
  /\ UNCHANGED <<engine, venue, kept, sure, moves>>

\* What is left when the process stops the initiator, or ends without.
Stopped ==
  /\ engine' = "stopped"
  /\ Lost
  /\ UNCHANGED <<venue, kept, sure, moves, drops>>

StopFIXEngine == engine # "off" /\ Stopped

Venue ==
  \E o \in Options : \E top \in [SideNames -> {NoLevel} \cup TopLevels] : VenueMoves(o, top)

\* What the session owes: one of these at most can be done at a time.
SessionGoesOn == Logon \/ SendQueued \/ Subscribe \/ FromApp

SessionStep == SessionGoesOn \/ Venue \/ Disconnect

(***************************************************************************)
(* Properties.                                                             *)
(***************************************************************************)

CaughtUp == request = "subscribed" /\ wire = <<>>

\* When nothing is under way, the book shows what the venue has, whatever was
\* lost on the way here, on every side the venue has had a level on since the
\* last logon, and on those nothing was kept of before.
CaughtUpExact ==
  CaughtUp => \A o \in Options : \A s \in SideNames :
                sure[o][s] => Shows(kept[o][s], venue[o][s])
=============================================================================
