----------------------------- MODULE EventFeed -----------------------------
(***************************************************************************)
(* The engine's event log and a runner that reads it over the control      *)
(* plane, by cursor and with long polls.  A reset clears the list of       *)
(* events and restarts the clock; it goes on counting events and           *)
(* milliseconds since the run's epoch, and logs itself.  The poll's loop   *)
(* and the answer take the lock separately, so that anything may happen    *)
(* in between.                                                             *)
(***************************************************************************)
EXTENDS Naturals, Sequences, SequencesExt, Selection

CONSTANTS
  Horizon,        \* bound: the clock of a generation stops here
  MaxEvents,      \* bound: events ever logged
  MaxGeneration   \* bound: generations, hence resets

VARIABLES
  generation,  \* bumped by every reset
  now,         \* the engine's clock, since the last reset
  epoch,       \* when that was
  nextEvent,   \* the next event's cursor
  events,      \* the log since the last reset
  past,        \* history: every event ever logged
  reader       \* the runner and its request

engineVars == <<generation, now, epoch, nextEvent, events, past>>
feedVars   == <<engineVars, reader>>

\* What log() appends; the payment that an event is about is left out.
Event(cursor, gen, time) == [cursor |-> cursor, generation |-> gen, unix |-> time]

FeedInit ==
  /\ generation = 1
  /\ now = 0
  /\ epoch = 0
  /\ nextEvent = 1
  /\ events = << >>
  /\ past = << >>
  /\ reader = [at |-> "idle", after |-> 0, news |-> FALSE, known |-> 1, got |-> << >>]

-----------------------------------------------------------------------------
\* The engine, each of its calls under the lock.

Log ==
  LET event == Event(nextEvent, generation, epoch + now) IN
  /\ nextEvent <= MaxEvents
  /\ events' = Append(events, event)
  /\ past' = Append(past, event)
  /\ nextEvent' = nextEvent + 1
  /\ UNCHANGED <<generation, now, epoch, reader>>

Tick ==
  /\ now < Horizon
  /\ now' = now + 1
  /\ UNCHANGED <<generation, epoch, nextEvent, events, past, reader>>

\* Mutant: a reset leaves the list of events empty.
ResetSilent ==
  /\ generation < MaxGeneration
  /\ nextEvent <= MaxEvents
  /\ generation' = generation + 1
  /\ epoch' = epoch + now
  /\ now' = 0
  /\ events' = << >>
  /\ UNCHANGED <<nextEvent, past, reader>>

\* Mutant: a reset starts a new epoch at the old one.
ResetEpochless ==
  LET event == Event(nextEvent, generation + 1, epoch) IN
  /\ generation < MaxGeneration
  /\ nextEvent <= MaxEvents
  /\ generation' = generation + 1
  /\ now' = 0
  /\ events' = <<event>>
  /\ past' = Append(past, event)
  /\ nextEvent' = nextEvent + 1
  /\ UNCHANGED <<epoch, reader>>

\* Mutant: a reset starts counting events anew.
ResetCursor ==
  LET event == Event(1, generation + 1, epoch + now) IN
  /\ generation < MaxGeneration
  /\ generation' = generation + 1
  /\ epoch' = epoch + now
  /\ now' = 0
  /\ events' = <<event>>
  /\ past' = Append(past, event)
  /\ nextEvent' = 2
  /\ UNCHANGED reader

FeedReset ==
  LET event == Event(nextEvent, generation + 1, epoch + now) IN
  /\ generation < MaxGeneration
  /\ nextEvent <= MaxEvents
  /\ generation' = generation + 1
  /\ epoch' = epoch + now
  /\ now' = 0
  /\ events' = <<event>>
  /\ past' = Append(past, event)
  /\ nextEvent' = nextEvent + 1
  /\ UNCHANGED reader

-----------------------------------------------------------------------------
\* The read, one request of the runner at a time.

Newer(after) == Those(events, {i \in DOMAIN events : events[i].cursor > after})

\* The last event, of a list that is not empty, is news.
News == events # << >> /\ Last(events).cursor > reader.after

Ask ==
  /\ reader.at = "idle"
  /\ \E at \in {"polling", "answering"} : reader' = [reader EXCEPT !.at = at, !.news = FALSE]
  /\ UNCHANGED engineVars

\* A look of the poll's loop finds news, or the loop ends without: the deadline
\* has passed, or the server stops.
Wake ==
  /\ reader.at = "polling"
  /\ reader' = [reader EXCEPT !.at = "answering", !.news = News]
  /\ UNCHANGED engineVars

\* The answer, from a look of its own.  The runner takes the cursor from it.
Receive ==
  /\ reader.at = "answering"
  /\ reader' = [reader EXCEPT
       !.at    = "idle",
       !.after = IF events = << >> THEN @ ELSE Last(events).cursor,
       !.known = generation,
       !.got   = @ \o Newer(reader.after)]
  /\ UNCHANGED engineVars

\* The client has gone, or the answer does not reach it: it will ask again.
Miss ==
  /\ reader.at # "idle"
  /\ reader' = [reader EXCEPT !.at = "idle"]
  /\ UNCHANGED engineVars

FeedNext == Log \/ Tick \/ FeedReset \/ Ask \/ Wake \/ Receive \/ Miss

FeedSpec == FeedInit /\ [][FeedNext]_feedVars

-----------------------------------------------------------------------------
\* Properties.

\* No event is skipped or repeated, over lost answers, polls and resets: what
\* lies behind the runner's cursor it has received, once and in the order of
\* logging, or a reset has discarded it, and then the runner has been told the
\* generation that came of the reset.
FeedWhole ==
  /\ \A i \in DOMAIN past :
       past[i].cursor <= reader.after =>
         Contains(reader.got, past[i]) \/ past[i].generation < reader.known
  /\ \A i, j \in DOMAIN reader.got : i < j => reader.got[i].cursor < reader.got[j].cursor

\* Time and generation never go back between the events that a runner receives,
\* although the engine's own clock does at every reset.
FeedChronological ==
  \A i, j \in DOMAIN reader.got :
    i < j => /\ reader.got[i].unix <= reader.got[j].unix
             /\ reader.got[i].generation <= reader.got[j].generation

\* A poll that was woken by news answers with events, even when a reset has
\* cleared the list between the look that woke it and the one it answers from.
NewsIsThere ==
  reader.at = "answering" /\ reader.news => Newer(reader.after) # << >>
=============================================================================
