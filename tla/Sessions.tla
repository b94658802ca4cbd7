------------------------------ MODULE Sessions ------------------------------
(***************************************************************************)
(* NeuronServer/ServerHost and NeuronClient/ClientConnection: who is at    *)
(* the other end of a connection.  A client says Hello; the server seats   *)
(* it, as a commander coming back if the hello names a session that has    *)
(* lapsed and the token it was given, as a new commander otherwise; the    *)
(* seat watches a grid, and the registry counts who is watching.  When the *)
(* connection goes the session lapses, and can be claimed for a while.     *)
(*                                                                         *)
(* Everything on the server happens on its one thread, an event or a tick  *)
(* at a time.  Control messages arrive in order or, once the connection is *)
(* cut, not at all; the server learns of the cut after whatever had        *)
(* reached it, and as late as the transport likes.                         *)
(***************************************************************************)
EXTENDS Integers, Sequences, FiniteSets, SequencesExt, FiniteSetsExt

CONSTANTS
    Clients,      \* the programs that connect
    Grids,        \* the anchors a view can name
    HomeGrid,     \* HomeGrid[p]: WorldFor(p), the grid p is shown at first
    MaxSessions,  \* ServerConfig::maxSessions
    MaxCatchUp,   \* MAX_CATCH_UP_TICKS
    GraceTicks,   \* SESSION_GRACE_SECONDS, in ticks
    TopTick,      \* the largest tick number (0xFFFFFFFF)
    MaxTick,      \* bound: ticks in a run
    MaxConns,     \* bound: connections opened in a run
    MaxWire       \* bound: client messages in flight on a connection

Players == 1..MaxConns    \* a connection mints at most one
Tokens == 1..MaxConns
Conns == 1..MaxConns

ASSUME HomeAssumption == HomeGrid \in [Players -> Grids]
ASSUME NameAssumption == 0 \notin Grids /\ 0 \notin Clients   \* NoGrid, Nobody
ASSUME BoundAssumption ==
    /\ MaxSessions \in Nat /\ GraceTicks \in Nat /\ MaxCatchUp \in Nat
    /\ MaxTick \in Nat /\ TopTick \in Nat /\ MaxTick <= TopTick
    /\ MaxConns \in Nat /\ MaxWire \in Nat \ {0}

VARIABLES
    tick,        \* m_tick
    nextPlayer,  \* m_nextPlayerId
    minted,      \* tokens the source has given out
    sessions,    \* m_sessions
    lapsed,      \* m_resume
    held,        \* Main.cpp's m_viewerGrids: held[p], or NoGrid
    viewers,     \* viewers[g]: LiveWorld::viewers of g
    up,          \* up[k]: what connection k has yet to deliver to the server
    down,        \* down[k]: and to the client
    caller,      \* caller[k]: the client that opened k, or Nobody
    link,        \* link[c]: ClientConnection::m_state
    me,          \* me[c]: whether c has joined, and what it was told last
    spent        \* history: tokens that have resumed a session

serverVars == <<tick, nextPlayer, minted, sessions, lapsed, held, viewers, spent>>
wireVars   == <<up, down, caller>>
clientVars == <<link, me>>
vars == <<serverVars, wireVars, clientVars>>

NoGrid == 0
Nobody == 0      \* INVALID_PLAYER_ID, the zero token and the caller of no one
Down == 0        \* link[c] when c has no connection; else link[c] is one

Session == [conn : Conns, player : Players, token : Tokens, grid : Grids]
Row     == [player : Players, token : Tokens, grid : Grids, expires : 0..TopTick]
Card    == [player : Players \cup {Nobody}, token : Tokens \cup {Nobody},
            grid : Grids \cup {NoGrid}, joined : BOOLEAN]

Hello(who, key) == [type |-> "Hello", player |-> who, token |-> key]
ViewRequest(g)  == [type |-> "ViewRequest", grid |-> g]
Disconnected    == [type |-> "Disconnected"]
Refuse          == [type |-> "Refuse"]
Welcome(s)      == [type |-> "Welcome", player |-> s.player, token |-> s.token, grid |-> s.grid]
ViewChanged(g, ok) == [type |-> "ViewChanged", grid |-> g, accepted |-> ok]

TypeOK ==
    /\ tick \in 0..MaxTick
    /\ nextPlayer \in 1..(MaxConns + 1)
    /\ minted \in 0..MaxConns
    /\ sessions \subseteq Session
    /\ lapsed \subseteq Row
    /\ held \in [Players -> Grids \cup {NoGrid}]
    /\ viewers \in [Grids -> 0..MaxSessions]
    /\ \A k \in Conns : Len(up[k]) <= MaxWire + 1 /\ Len(down[k]) <= MaxWire + 1
    /\ caller \in [Conns -> Clients \cup {Nobody}]
    /\ link \in [Clients -> Conns \cup {Down}]
    /\ me \in [Clients -> Card]
    /\ spent \subseteq Tokens

Init ==
    /\ tick = 0 /\ nextPlayer = 1 /\ minted = 0
    /\ sessions = {} /\ lapsed = {}
    /\ held = [p \in Players |-> NoGrid]
    /\ viewers = [g \in Grids |-> 0]
    /\ up = [k \in Conns |-> <<>>] /\ down = [k \in Conns |-> <<>>]
    /\ caller = [k \in Conns |-> Nobody]
    /\ link = [c \in Clients |-> Down]
    /\ me = [c \in Clients |->
               [player |-> Nobody, token |-> Nobody, grid |-> NoGrid, joined |-> FALSE]]
    /\ spent = {}

-----------------------------------------------------------------------------
(* The client.                                                             *)

\* Connect: a fresh connection, and a Hello that is anonymous or offers back
\* what the last Welcome gave (nothing, before there was one).
Connect(c, k) ==
    /\ link[c] = Down
    /\ caller[k] = Nobody /\ \A j \in 1..(k - 1) : caller[j] # Nobody
    /\ caller' = [caller EXCEPT ![k] = c]
    /\ link' = [link EXCEPT ![c] = k]
    /\ \E hello \in {Hello(me[c].player, me[c].token), Hello(Nobody, Nobody)} :
         up' = [up EXCEPT ![k] = <<hello>>]
    /\ UNCHANGED <<serverVars, down, me>>

\* RequestView, by a client that has joined.
RequestView(c, g) ==
    LET k == link[c]
    IN /\ me[c].joined
       /\ Len(up[k]) + Len(down[k]) < MaxWire
       /\ up' = [up EXCEPT ![k] = Append(@, ViewRequest(g))]
       /\ UNCHANGED <<serverVars, down, caller, clientVars>>

\* HandleMessage.  A Welcome says who and where this is; a ViewChanged is kept
\* for the game, and the connection's own grid stays as it was; a Refuse is the
\* end of the connection.
Receive(c) ==
    LET k == link[c]
        m == Head(down[k])
    IN /\ k # Down
       /\ down[k] # <<>>
       /\ down' = [down EXCEPT ![k] = Tail(@)]
       /\ me' = IF m.type = "Welcome"
                THEN [me EXCEPT ![c] = [player |-> m.player, token |-> m.token, grid |-> m.grid,
                                        joined |-> TRUE]]
                ELSE IF m.type = "Refuse" THEN [me EXCEPT ![c].joined = FALSE] ELSE me
       /\ link' = IF m.type = "Refuse" THEN [link EXCEPT ![c] = Down] ELSE link
       /\ UNCHANGED <<serverVars, up, caller>>

\* Disconnect, or a connection lost: the server may still get a part of what was
\* sent, and then hears that it is over.
Cut(c) ==
    LET k == link[c]
    IN /\ k # Down
       /\ link' = [link EXCEPT ![c] = Down]
       /\ me' = [me EXCEPT ![c].joined = FALSE]
       /\ \E sent \in Prefixes(up[k]) : up' = [up EXCEPT ![k] = Append(sent, Disconnected)]
       /\ down' = [down EXCEPT ![k] = <<>>]
       /\ UNCHANGED <<serverVars, caller>>

-----------------------------------------------------------------------------
(* The holds of Main.cpp and the registry.                                 *)

Released(count) == IF count > 0 THEN count - 1 ELSE 0

\* ViewerOpened: the new grid is held before the old one is let go.
ViewerOpened(p, g) ==
    IF held[p] = g THEN UNCHANGED <<held, viewers>>
    ELSE /\ held' = [held EXCEPT ![p] = g]
         /\ viewers' = [x \in Grids |->
                          IF x = g THEN viewers[x] + 1
                          ELSE IF x = held[p] THEN Released(viewers[x]) ELSE viewers[x]]

ViewerClosedForgetting(p) ==
    /\ held' = [held EXCEPT ![p] = NoGrid]
    /\ viewers' = viewers

ViewerClosed(p) ==
    /\ held' = [held EXCEPT ![p] = NoGrid]
    /\ viewers' = [x \in Grids |-> IF x = held[p] THEN Released(viewers[x]) ELSE viewers[x]]

-----------------------------------------------------------------------------
(* The resume table.                                                       *)

\* TryResume: the row this hello is about, whether or not it is in time.
ClaimedByNameAlone(who, key) == {r \in lapsed : who # Nobody /\ r.player = who}
Claimed(who, key) == {r \in lapsed : who # Nobody /\ key # Nobody /\ r.player = who /\ r.token = key}

InTimeWhenever(r) == TRUE
InTime(r) == tick <= r.expires

DeadlineWhateverTheWidth(now) == now + GraceTicks

\* ResumeDeadlineTick saturates: a deadline past the last tick is the last tick.
Deadline(now) == Min({now + GraceTicks, TopTick})

\* Lapse: one row a commander, and it is the newest.
Lapsed(s) ==
    {r \in lapsed : r.player # s.player} \cup
    {[player |-> s.player, token |-> s.token, grid |-> s.grid, expires |-> Deadline(tick)]}

Expired(now) == {r \in lapsed : now > r.expires}

-----------------------------------------------------------------------------
(* The server: the event at the head of connection k, or a tick.           *)

Heard(k, type) == up[k] # <<>> /\ Head(up[k]).type = type

\* What is sent on a connection that has been cut goes nowhere.
Sent(k, m) == IF link[caller[k]] = k THEN [down EXCEPT ![k] = Append(@, m)] ELSE down

HelloRefused(k) ==
    /\ Heard(k, "Hello")
    /\ Cardinality(sessions) >= MaxSessions
    /\ down' = Sent(k, Refuse)
    /\ up' = [up EXCEPT ![k] = <<>>]
    /\ UNCHANGED <<serverVars, caller, clientVars>>

\* A token of its own for every session; on a resume as well.
FreshToken == minted + 1

\* A commander who can prove it is back keeps its player and its grid; anyone
\* else is a new player, at home.
Seat(k, resumed) ==
    IF resumed = {}
    THEN [conn |-> k, player |-> nextPlayer, token |-> FreshToken, grid |-> HomeGrid[nextPlayer]]
    ELSE LET r == CHOOSE r \in resumed : TRUE
         IN [conn |-> k, player |-> r.player, token |-> FreshToken, grid |-> r.grid]

MintedTwice(resumed) == nextPlayer
NextMinted(resumed) == IF resumed = {} THEN nextPlayer + 1 ELSE nextPlayer

HelloSeated(k) ==
    LET claimed == Claimed(Head(up[k]).player, Head(up[k]).token)
        resumed == {r \in claimed : InTime(r)}
        seat == Seat(k, resumed)
    IN /\ Heard(k, "Hello")
       /\ Cardinality(sessions) < MaxSessions
       /\ lapsed' = lapsed \ claimed
       /\ nextPlayer' = NextMinted(resumed)
       /\ minted' = minted + 1
       /\ sessions' = sessions \cup {seat}
       /\ ViewerOpened(seat.player, seat.grid)
       /\ spent' = spent \cup {r.token : r \in resumed}
       /\ down' = Sent(k, Welcome(seat))
       /\ up' = [up EXCEPT ![k] = Tail(@)]
       /\ UNCHANGED <<tick, caller, clientVars>>

\* ViewRequest: MayView (the registry's HasPresence) says yes or no.
ViewAnswered(k) ==
    /\ Heard(k, "ViewRequest")
    /\ \E s \in sessions, accepted \in BOOLEAN :
         /\ s.conn = k
         /\ LET g == Head(up[k]).grid
            IN /\ IF accepted
                  THEN /\ sessions' = (sessions \ {s}) \cup {[s EXCEPT !.grid = g]}
                       /\ ViewerOpened(s.player, g)
                  ELSE UNCHANGED <<sessions, held, viewers>>
               /\ down' = Sent(k, ViewChanged(g, accepted))
    /\ up' = [up EXCEPT ![k] = Tail(@)]
    /\ UNCHANGED <<tick, nextPlayer, minted, lapsed, spent, caller, clientVars>>

\* Disconnected: the session lapses with the grid it was watching, and its hold
\* goes with the socket.
SessionLapses(k) ==
    /\ Heard(k, "Disconnected")
    /\ \E s \in sessions :
         /\ s.conn = k
         /\ lapsed' = Lapsed(s)
         /\ ViewerClosed(s.player)
         /\ sessions' = sessions \ {s}
    /\ up' = [up EXCEPT ![k] = Tail(@)]
    /\ UNCHANGED <<tick, nextPlayer, minted, spent, down, caller, clientVars>>

\* A connection that never got a seat leaves nothing behind.
ConnectionEnds(k) ==
    /\ Heard(k, "Disconnected")
    /\ \A s \in sessions : s.conn # k
    /\ up' = [up EXCEPT ![k] = Tail(@)]
    /\ UNCHANGED <<serverVars, down, caller, clientVars>>

\* One turn of the tick loop: a tick and the sweep of the resume table, then
\* the catch-up ticks that are owed, which sweep nothing.
Turn ==
    /\ \E owed \in 0..MaxCatchUp :
         /\ tick + 1 + owed <= MaxTick
         /\ tick' = tick + 1 + owed
    /\ lapsed' = lapsed \ Expired(tick + 1)
    /\ UNCHANGED <<nextPlayer, minted, sessions, held, viewers, spent, wireVars, clientVars>>

Next ==
    \/ \E c \in Clients :
         \/ \E k \in Conns : Connect(c, k)
         \/ \E g \in Grids : RequestView(c, g)
         \/ Receive(c)
         \/ Cut(c)
    \/ \E k \in Conns :
         \/ HelloRefused(k) \/ HelloSeated(k) \/ ViewAnswered(k)
         \/ SessionLapses(k) \/ ConnectionEnds(k)
    \/ Turn

Spec == Init /\ [][Next]_vars

-----------------------------------------------------------------------------
(* Properties.                                                             *)

\* SessionResume.h: "a commander has one session".  At any time a player has one
\* seat, or one row that can be claimed for it, and never both.
OneSeatEach ==
    /\ \A s, t \in sessions : s.player = t.player \/ s.conn = t.conn => s = t
    /\ \A r, q \in lapsed : r.player = q.player => r = q
    /\ \A s \in sessions, r \in lapsed : s.player # r.player

\* The composition root's table of holds and the registry's counts both follow
\* the sessions, through joins, switches, lapses and resumes: no grid is kept
\* alive for somebody who has gone, none goes from under somebody watching.
HoldsFollowSessions ==
    /\ \A p \in Players :
         held[p] = (IF \E s \in sessions : s.player = p
                    THEN (CHOOSE s \in sessions : s.player = p).grid ELSE NoGrid)
    /\ \A g \in Grids : viewers[g] = Cardinality({s \in sessions : s.grid = g})

\* Those seated by this step.
Seated == {s \in sessions' : \A t \in sessions : t.conn # s.conn}

\* ServerHost.cpp: "a token seen once on the wire is worth one reconnect".  A
\* hello that offers a token again is a stranger's, whoever it names, however
\* often its session has lapsed since, and whatever the client never heard.
TokensAreSpent ==
    [][\A s \in Seated : Head(up[s.conn]).token \in spent => s.player = nextPlayer]_vars

\* A commander's row leaves the resume table in one of two ways: claimed by its
\* holder, on its deadline or before, or given up after it.  It makes no difference
\* whether a sweep or a claim comes first, nor whether catch-up ticks skipped the
\* sweep.
RowsAreClaimedInTime ==
    \A r \in lapsed \ lapsed' :
        (\E s \in sessions' : s.player = r.player) <=> tick' <= r.expires

\* A commander's grid changes by a view request of theirs that was accepted, and
\* by nothing else: it goes with the session into the resume table and comes
\* back out of it.
GridsAreKept ==
    \A s \in sessions \cup lapsed, t \in sessions' \cup lapsed' :
        s.player = t.player /\ s.grid # t.grid =>
          /\ s \in sessions /\ Heard(s.conn, "ViewRequest")
          /\ up'[s.conn] = Tail(up[s.conn]) /\ t.grid = Head(up[s.conn]).grid

\* What the grace period promises a commander who was cut off.
GraceHolds == [][RowsAreClaimedInTime /\ GridsAreKept]_vars

=============================================================================
