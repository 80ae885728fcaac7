------------------------------ MODULE EventStreams ------------------------------
(***************************************************************************)
(* The events table as its readers see it: publish, await by await         *)
(* (products/shared/src/event_bus.py), the Server-Sent Events that poll it *)
(* (gateway/src/routes/sse.py), the WebSocket sessions it is dispatched to *)
(* (gateway/src/routes/websocket.py) and the hourly cleanup.  A request    *)
(* with an "after" is the connection by which a client comes back.  All    *)
(* publishers and readers share one connection, and thereby a transaction. *)
(* The filters pass every event; patterns are counted.                     *)
(***************************************************************************)
EXTENDS Coroutines, Integers, FiniteSets, Sequences, Functions

CONSTANTS FirstPublisher,  \* of the events that are there at the start
          ReadLimit        \* rows of one read: 100 in every caller

ASSUME StreamConstants == ReadLimit \in Nat \ {0}

VARIABLES
    events,         \* the events table: id and publisher
    unsaved,        \* those that no commit has reached
    lastId,         \* sqlite_sequence, and what a crash leaves of it
    savedId,
    session,        \* what each connection, and its client, knows
    handlers,       \* _subscribers: <<session, pattern>>
    subscriptions,  \* the subscriptions table
    ghosts,         \* history: events that a crash took back
    purged,         \* history: events that the cleanup deleted
    notes           \* history: what each session could not, or had to, hear

streamVars == <<events, unsaved, lastId, savedId, session, handlers, subscriptions,
                ghosts, purged, notes>>
tableVars == <<events, unsaved, lastId, savedId, ghosts, purged>>
sessionVars == <<session, handlers, subscriptions, notes>>

FirstEvents == [id : {1, 2}, by : {FirstPublisher}]
Fresh == [cursor |-> 0, shown |-> <<>>, queue |-> <<>>, round |-> 0, live |-> FALSE, asked |-> 0]
NoNotes == [replayed |-> {}, missed |-> FirstEvents, earlier |-> {}, inFlight |-> {}]

ById(set) ==
    CHOOSE s \in [1..Cardinality(set) -> set] : \A m, n \in DOMAIN s : m < n => s[m].id < s[n].id
FirstOf(s) == SubSeq(s, 1, IF Len(s) < ReadLimit THEN Len(s) ELSE ReadLimit)

\* Mutant: from the id on.
FromOn(id) == FirstOf(ById({e \in events : e.id >= id}))

\* get_events: the first rows after an id, in the order of the ids, committed
\* or not.
Since(id) == FirstOf(ById({e \in events : e.id > id}))
IdAfter(id, shown) == IF shown = <<>> THEN id ELSE shown[Len(shown)].id
CommitBus == unsaved' = {} /\ savedId' = lastId
Publishing(e) == e.by \in Requests /\ pc[e.by] \in {"save", "dispatch"}
Of(r) == {h \in handlers : h[1] = r}

-----------------------------------------------------------------------------
\* publish: the row gets the next id, then it is committed, then dispatched.
InsertEvent(r) ==
    /\ At(r, "emit", "new")
    /\ LET e == [id |-> lastId + 1, by |-> r] IN
          /\ events' = events \cup {e}
          /\ unsaved' = unsaved \cup {e}
          /\ lastId' = e.id
    /\ Go(r, "save")
    /\ UNCHANGED <<savedId, ghosts, purged, sessionVars>>

SaveEvent(r) ==
    /\ At(r, "emit", "save")
    /\ CommitBus
    /\ Go(r, "dispatch")
    /\ UNCHANGED <<events, lastId, ghosts, purged, sessionVars>>

\* Each matching handler, of whatever session, queues the event: a session
\* with two patterns for it has it twice.
DispatchEvent(r) ==
    /\ At(r, "emit", "dispatch")
    /\ LET e == CHOOSE d \in events \cup purged : d.by = r
           Copies(q) == [n \in 1..Cardinality(Of(q)) |-> e]
       IN /\ session' = [q \in Requests |->
                 [session[q] EXCEPT !.queue = @ \o Copies(q)]]
          /\ notes' = [q \in Requests |-> IF Of(q) # {} THEN notes[q]
                          ELSE [notes[q] EXCEPT !.missed = @ \cup {e}]]
    /\ Go(r, "done")
    /\ UNCHANGED <<tableVars, handlers, subscriptions>>

\* EventBusCleanup: events of more than a day, which every open stream, with
\* its poll a second, has read.
PurgeEvents(r) ==
    /\ At(r, "purge", "new")
    /\ \E id \in 0..lastId :
          LET old == {e \in events : e.id <= id} IN
          /\ \A e \in old : ~Publishing(e)
          /\ \A q \in Requests : At(q, "stream", "poll") => session[q].cursor >= id
          /\ events' = events \ old
          /\ purged' = purged \cup old
    /\ CommitBus
    /\ Go(r, "done")
    /\ UNCHANGED <<lastId, ghosts, sessionVars>>

-----------------------------------------------------------------------------
\* A connection starts where its client says: at an id, or at the id of the
\* last event the client was shown on the connection before.
Before(r) == IF "after" \in DOMAIN job[r]
             THEN session[job[r].after]
             ELSE [Fresh EXCEPT !.cursor = job[r].since]
MayConnect(r) == "after" \in DOMAIN job[r] => pc[job[r].after] \in Terminal
Starting(r) == [Fresh EXCEPT !.cursor = IdAfter(Before(r).cursor, Before(r).shown),
                              !.shown = Before(r).shown]

OpenStream(r) ==
    /\ At(r, "stream", "new") /\ MayConnect(r)
    /\ session' = [session EXCEPT ![r] = Starting(r)]
    /\ Go(r, "poll")
    /\ UNCHANGED <<tableVars, handlers, subscriptions, notes>>

\* sse_event_generator: one poll, which the limit, or the client's end, may cut.
PollEvents(r) ==
    /\ At(r, "stream", "poll")
    /\ LET new == Since(session[r].cursor) IN
       \E n \in 1..Len(new) :
          session' = [session EXCEPT ![r].shown = @ \o SubSeq(new, 1, n),
                                     ![r].cursor = new[n].id]
    /\ UNCHANGED <<pc, tableVars, handlers, subscriptions, notes>>

CloseStream(r) ==
    /\ At(r, "stream", "poll")
    /\ Go(r, "done")
    /\ UNCHANGED <<tableVars, sessionVars>>

-----------------------------------------------------------------------------
\* _WebSocketSession.  The client may subscribe, and subscribe anew.
OpenSession(r) ==
    /\ At(r, "listen", "new") /\ MayConnect(r)
    /\ session' = [session EXCEPT ![r] = [Starting(r) EXCEPT !.asked = job[r].subscribes]]
    /\ Go(r, "open")
    /\ UNCHANGED <<tableVars, handlers, subscriptions, notes>>

\* _handle_subscribe: away with the old subscriptions; then the replay, if the
\* client names an event.
DropHandlers(r) ==
    /\ handlers' = handlers \ Of(r)
    /\ subscriptions' = subscriptions \ Of(r)
    /\ IF Of(r) = {} THEN UNCHANGED <<unsaved, savedId>> ELSE CommitBus

Subscribe(r) ==
    /\ At(r, "listen", "open") /\ session[r].asked > 0
    /\ DropHandlers(r)
    /\ LET last == IdAfter(session[r].cursor, session[r].shown) IN
          /\ session' = [session EXCEPT ![r].cursor = last, ![r].round = 0, ![r].asked = @ - 1]
          /\ Go(r, IF last > 0 THEN "replay" ELSE "register")
    /\ notes' = [notes EXCEPT ![r].replayed = {}, ![r].inFlight = @ \cup Range(session[r].queue)]
    /\ UNCHANGED <<events, lastId, ghosts, purged>>

\* One read for each pattern, everything in it sent, and no second read: what
\* the limit cuts off is not sent.
ReplayEvents(r) ==
    /\ At(r, "listen", "replay")
    /\ LET s == session[r]
           new == Since(s.cursor)
           last == s.round + 1 = job[r].patterns
       IN /\ session' = [session EXCEPT ![r].shown = @ \o new,
                                        ![r].round = IF last THEN 0 ELSE @ + 1]
          /\ notes' = [notes EXCEPT
                 ![r].replayed = @ \cup Range(new),
                 ![r].missed = {}, ![r].earlier = @ \cup notes[r].missed,
                 ![r].inFlight = @ \cup {e \in Range(new) : Publishing(e)}]
          /\ Go(r, IF last THEN "register" ELSE "replay")
    /\ UNCHANGED <<tableVars, handlers, subscriptions>>

\* _register_subscriptions: one pattern, its row and its handler, at a time.
RegisterPattern(r) ==
    /\ At(r, "listen", "register")
    /\ LET n == session[r].round + 1
           last == n = job[r].patterns
       IN /\ handlers' = handlers \cup {<<r, n>>}
          /\ subscriptions' = subscriptions \cup {<<r, n>>}
          /\ session' = [session EXCEPT ![r].round = n, ![r].live = @ \/ last]
          /\ Go(r, IF last THEN "open" ELSE "register")
    /\ CommitBus
    /\ UNCHANGED <<events, lastId, ghosts, purged, notes>>

\* _event_sender_loop: what comes before _subscribed is set is taken and lost.
SendQueued(r) ==
    /\ Running(r) /\ Op(r) = "listen" /\ session[r].queue # <<>>
    /\ LET e == Head(session[r].queue) IN
          /\ session' = [session EXCEPT
                 ![r].queue = Tail(@), ![r].shown = IF session[r].live THEN Append(@, e) ELSE @]
          /\ notes' = IF session[r].live THEN notes
                      ELSE [notes EXCEPT ![r].missed = @ \cup {e}]
    /\ UNCHANGED <<pc, tableVars, handlers, subscriptions>>

\* The client disconnects: the handlers and the rows go, what is queued is lost.
CloseSession(r) ==
    /\ Running(r) /\ Op(r) = "listen"
    /\ DropHandlers(r)
    /\ session' = [session EXCEPT ![r].queue = <<>>, ![r].live = FALSE]
    /\ Go(r, "done")
    /\ UNCHANGED <<events, lastId, ghosts, purged, notes>>

StreamStep(r) == \/ InsertEvent(r) \/ SaveEvent(r) \/ DispatchEvent(r) \/ PurgeEvents(r)
                 \/ OpenStream(r) \/ PollEvents(r) \/ CloseStream(r)
                 \/ OpenSession(r) \/ Subscribe(r) \/ ReplayEvents(r) \/ RegisterPattern(r)
                 \/ SendQueued(r) \/ CloseSession(r)

\* The rows that were not committed go, and their ids will be given again.
StreamCrash ==
    /\ events' = events \ unsaved
    /\ ghosts' = ghosts \cup unsaved
    /\ unsaved' = {}
    /\ lastId' = savedId
    /\ handlers' = {}
    /\ session' = [r \in Requests |-> [session[r] EXCEPT !.queue = <<>>, !.live = FALSE]]
    /\ UNCHANGED <<savedId, subscriptions, purged, notes>>

StreamInit ==
    /\ events = FirstEvents
    /\ lastId = 2 /\ savedId = 2
    /\ unsaved = {} /\ ghosts = {} /\ purged = {}
    /\ session = [r \in Requests |-> Fresh]
    /\ handlers = {} /\ subscriptions = {}
    /\ notes = [r \in Requests |-> NoNotes]

-----------------------------------------------------------------------------
Shown(r) == Range(session[r].shown)
Lost(e) == e.by \in Requests /\ cut[e.by] \in {"save", "dispatch"}

\* A stream, with those it continues, shows the events in the order of their
\* ids, none twice and none left out, but for one whose id was first shown with
\* an event that a crash took back.
StreamsComplete == \A r \in Requests : Op(r) = "stream" =>
    /\ \A m, n \in DOMAIN session[r].shown :
          m < n => session[r].shown[m].id < session[r].shown[n].id
    /\ \A e \in events : e \in Shown(r) \/ e.id > session[r].cursor \/ e.id <= job[r].since
                         \/ \E g \in Shown(r) \cap ghosts : g.id = e.id

\* A session that is open and has sent everything has shown what came after the
\* event its client named, but for what was dispatched, or queued and dropped,
\* after the replay and before the handlers were there, for what the limit cut
\* off the replay, and for an event whose publisher was cut before it
\* dispatched it.
BeyondLimit(r, e) ==
    /\ e \in notes[r].earlier
    /\ Cardinality({d \in notes[r].replayed : d.id < e.id}) >= ReadLimit
SessionsHear == \A r \in Requests :
    At(r, "listen", "open") /\ session[r].live /\ session[r].queue = <<>> =>
       \A e \in events : \/ e.id <= session[r].cursor \/ e \in Shown(r) \/ Publishing(e) \/ Lost(e)
                         \/ e \in notes[r].missed \/ BeyondLimit(r, e)

\* With one pattern an event comes twice only when it was replayed while its
\* publisher had yet to dispatch it, or was queued when the client subscribed
\* anew, or when events were dispatched out of the order of their ids before
\* the client named the last one it was shown.
HeardOnce == \A r \in Requests : Op(r) = "listen" /\ job[r].patterns = 1 =>
    LET shown == session[r].shown IN
    \A m, n \in DOMAIN shown : m < n /\ shown[m] = shown[n] =>
       \/ \E q \in Requests : shown[m] \in notes[q].inFlight
       \/ \E i, j \in 1..(n - 1) : i < j /\ shown[i].id > shown[j].id

\* What was shown was published and kept, until the cleanup, but for what a
\* crash took back; handlers are of open sessions, rows of those and of those
\* that a crash ended.
StreamsTrue ==
    /\ \A r \in Requests : Shown(r) \subseteq events \cup purged \cup ghosts
    /\ \A h \in subscriptions : IF h \in handlers THEN Running(h[1]) ELSE cut[h[1]] # "never"
    /\ handlers \subseteq subscriptions

StreamsHeard == StreamsComplete /\ SessionsHear /\ HeardOnce /\ StreamsTrue
============================================================================
