--------------------------- MODULE SessionsProofs ---------------------------
(* Proofs about module Sessions: for any clients, any grids and any bounds,  *)
(* one seat a commander, holds that follow the sessions, tokens that are     *)
(* spent when they are used, and a grace period that is kept.                *)
EXTENDS Sessions, FiniteSetTheorems, TLAPS

ClientMsg ==
    [type : {"Hello"}, player : Players \cup {Nobody}, token : Tokens \cup {Nobody}]
    \cup [type : {"ViewRequest"}, grid : Grids] \cup [type : {"Disconnected"}]
ServerMsg ==
    [type : {"Welcome"}, player : Players, token : Tokens, grid : Grids]
    \cup [type : {"ViewChanged"}, grid : Grids, accepted : BOOLEAN] \cup [type : {"Refuse"}]

\* What is on the wires: a Hello is the first thing said on a connection, and
\* nothing is said on one that nobody has opened.
Wires ==
    /\ up \in [Conns -> Seq(ClientMsg)] /\ down \in [Conns -> Seq(ServerMsg)]
    /\ \A k \in Conns : caller[k] = Nobody => up[k] = <<>> /\ down[k] = <<>>
    /\ \A k \in Conns : \A i \in DOMAIN up[k] : up[k][i].type = "Hello" => i = 1

Traffic(k) == Len(up[k]) + Len(down[k])

\* Room on the wires: the client that holds a live connection keeps to MaxWire,
\* and the cut adds one message.
Room ==
    /\ \A c \in Clients : link[c] # Down => caller[link[c]] = c
    /\ \A c \in Clients : me[c].joined => link[c] # Down
    /\ \A k \in Conns : Traffic(k) <= MaxWire + 1
    /\ \A c \in Clients : link[c] # Down => Traffic(link[c]) <= MaxWire

\* Connections that may still be given a seat.
Unheard(k) == \E i \in DOMAIN up[k] : up[k][i].type = "Hello"
Waiting == {k \in Conns : caller[k] = Nobody \/ Unheard(k)}

\* Every seat is a connection's only one, so the names do not run out.
Budget ==
    /\ minted + Cardinality(Waiting) <= MaxConns
    /\ nextPlayer <= minted + 1
    /\ IsFiniteSet(sessions) /\ Cardinality(sessions) <= MaxSessions
    /\ \A s \in sessions : s.conn \notin Waiting

\* Names are given out in order, and a token opens one door.
Minted ==
    /\ \A s \in sessions : s.player < nextPlayer /\ s.token <= minted
    /\ \A r \in lapsed : r.player < nextPlayer /\ r.token <= minted
TokensApart ==
    /\ \A s, t \in sessions : s.token = t.token => s = t
    /\ \A r, q \in lapsed : r.token = q.token => r = q
    /\ \A s \in sessions, r \in lapsed : s.token # r.token
    /\ \A x \in spent : x <= minted
    /\ \A s \in sessions : s.token \notin spent
    /\ \A r \in lapsed : r.token \notin spent

IInv ==
    TypeOK /\ Wires /\ Room /\ Budget /\ Minted /\ TokensApart /\ OneSeatEach
    /\ HoldsFollowSessions

-----------------------------------------------------------------------------

LEMMA MinOfTwo ==
    ASSUME NEW a \in Int, NEW b \in Int
    PROVE  Min({a, b}) = IF a <= b THEN a ELSE b
BY DEF Min

LEMMA DeadlineType == ASSUME NEW now \in Nat PROVE Deadline(now) \in 0..TopTick
BY MinOfTwo, BoundAssumption DEF Deadline

LEMMA WaitingFinite ==
    /\ IsFiniteSet(Waiting) /\ Cardinality(Waiting) \in Nat
    /\ (IsFiniteSet(Waiting'))
<1>1. IsFiniteSet(Conns)
  BY FS_Interval, BoundAssumption DEF Conns
<1> QED BY <1>1, FS_Subset, FS_CardinalityType DEF Waiting

-----------------------------------------------------------------------------
(* The wires. *)

\* What the head of a wire is, and what is left when it has been taken.
LEMMA HeadTaken ==
    ASSUME Wires, NEW k \in Conns, up[k] # <<>>
    PROVE  /\ Head(up[k]) \in ClientMsg /\ Tail(up[k]) \in Seq(ClientMsg)
           /\ Len(Tail(up[k])) = Len(up[k]) - 1 /\ Len(up[k]) \in Nat
           /\ Head(up[k]) = up[k][1] /\ 1 \in DOMAIN up[k]
           /\ \A i \in DOMAIN Tail(up[k]) :
                Tail(up[k])[i].type # "Hello"
           /\ caller[k] # Nobody
<1>1. up[k] \in Seq(ClientMsg) /\ caller[k] # Nobody
  BY DEF Wires
<1>2. /\ Head(up[k]) \in ClientMsg /\ Tail(up[k]) \in Seq(ClientMsg)
      /\ Len(Tail(up[k])) = Len(up[k]) - 1 /\ Len(up[k]) \in Nat
      /\ Head(up[k]) = up[k][1] /\ 1 \in DOMAIN up[k]
  BY <1>1
<1>3. ASSUME NEW i \in DOMAIN Tail(up[k]) PROVE Tail(up[k])[i].type # "Hello"
  <2>1. /\ i \in Nat /\ i >= 1 /\ i + 1 \in DOMAIN up[k] /\ Tail(up[k])[i] = up[k][i + 1]
    BY <1>1, <1>2, <1>3
  <2> QED BY <2>1 DEF Wires
<1> QED BY <1>1, <1>2, <1>3

\* What an answer does to the wires down.
LEMMA SentDown ==
    ASSUME Wires, Room, NEW k \in Conns, NEW m \in ServerMsg
    PROVE  /\ Sent(k, m) \in [Conns -> Seq(ServerMsg)]
           /\ \A j \in Conns : j # k => Sent(k, m)[j] = down[j]
           /\ Sent(k, m)[k] = down[k] \/ Len(Sent(k, m)[k]) = Len(down[k]) + 1
           /\ \A j \in Conns : Len(down[j]) \in Nat /\ Len(up[j]) \in Nat
BY DEF Sent, Wires

LEMMA OneWire ==
    ASSUME Wires, NEW k \in Conns, NEW w \in Seq(ClientMsg), up' = [up EXCEPT ![k] = w]
    PROVE  /\ up' \in [Conns -> Seq(ClientMsg)] /\ up'[k] = w
           /\ \A j \in Conns : j # k => up'[j] = up[j]
BY DEF Wires

LEMMA Lengths ==
    ASSUME Wires
    PROVE  \A j \in Conns : Len(up[j]) \in Nat /\ Len(down[j]) \in Nat /\ Traffic(j) \in Nat
BY DEF Wires, Traffic

-----------------------------------------------------------------------------
(* What the server does at a step. *)

\* A hello on k is answered with a seat, and the rows it claimed are gone.
Joins(k, seat, claimed) ==
    /\ k \in Waiting /\ seat.conn = k
    /\ seat.token = minted + 1 /\ minted < MaxConns /\ minted' = minted + 1
    /\ Cardinality(sessions) < MaxSessions
    /\ \A s \in sessions : s.player # seat.player /\ s.conn # k
    /\ \A r \in lapsed \ claimed : r.player # seat.player
    /\ \/ /\ seat.player = nextPlayer /\ nextPlayer' = nextPlayer + 1 /\ spent' = spent
          /\ \A r \in claimed : ~InTime(r)
       \/ \E r \in claimed :
            /\ claimed = {r} /\ InTime(r) /\ seat.player = r.player /\ seat.grid = r.grid
            /\ nextPlayer' = nextPlayer /\ spent' = spent \cup {r.token}
            /\ r.token = Head(up[k]).token
    /\ sessions' = sessions \cup {seat} /\ lapsed' = lapsed \ claimed
    /\ ViewerOpened(seat.player, seat.grid)
    /\ tick' = tick

\* A session switches its view to g.
Switches(s, g) ==
    /\ sessions' = (sessions \ {s}) \cup {[s EXCEPT !.grid = g]}
    /\ ViewerOpened(s.player, g)
    /\ Heard(s.conn, "ViewRequest") /\ Head(up[s.conn]).grid = g
    /\ up' = [up EXCEPT ![s.conn] = Tail(@)]
    /\ UNCHANGED <<tick, nextPlayer, minted, lapsed, spent>>

\* A session is over, and has a row.
Leaves(s) ==
    /\ lapsed' = Lapsed(s) /\ sessions' = sessions \ {s}
    /\ ViewerClosed(s.player)
    /\ UNCHANGED <<tick, nextPlayer, minted, spent>>

LEMMA SeatFacts ==
    ASSUME TypeOK, Wires, Budget, Minted, OneSeatEach, NEW k \in Conns, HelloSeated(k)
    PROVE  \E seat \in Session, claimed \in SUBSET lapsed :
             Joins(k, seat, claimed) /\ down' = Sent(k, Welcome(seat))
<1> DEFINE who == Head(up[k]).player
           key == Head(up[k]).token
           claimed == Claimed(who, key)
           resumed == {r \in claimed : InTime(r)}
           seat == Seat(k, resumed)
<1> USE BoundAssumption, HomeAssumption
<1>1. /\ up[k] # <<>> /\ Head(up[k]).type = "Hello" /\ Cardinality(sessions) < MaxSessions
      /\ lapsed' = lapsed \ claimed /\ nextPlayer' = NextMinted(resumed)
      /\ minted' = minted + 1 /\ sessions' = sessions \cup {seat}
      /\ ViewerOpened(seat.player, seat.grid)
      /\ spent' = spent \cup {r.token : r \in resumed}
      /\ down' = Sent(k, Welcome(seat)) /\ tick' = tick
  BY DEF HelloSeated, Heard
<1>2. k \in Waiting
  BY <1>1, HeadTaken DEF Waiting, Unheard
<1>3. minted < MaxConns /\ minted + 1 \in Tokens
  <2>1. Cardinality(Waiting) >= 1
    BY <1>2, WaitingFinite, FS_EmptySet
  <2> QED BY <2>1, WaitingFinite DEF Budget, TypeOK, Tokens
<1>4. nextPlayer \in Players
  BY <1>3 DEF Budget, TypeOK, Players
<1>5. \A r \in claimed : r \in lapsed /\ r.player = who /\ r.token = key /\ r \in Row
  BY DEF Claimed, TypeOK
<1>6. claimed \in SUBSET lapsed /\ \A r, q \in claimed : r = q
  BY <1>5 DEF OneSeatEach
<1>7. \A s \in sessions : s.conn # k
  BY <1>2 DEF Budget
<1> HIDE DEF claimed, who, key
<1>8. CASE resumed = {}
  <2>1. seat = [conn |-> k, player |-> nextPlayer, token |-> minted + 1, grid |-> HomeGrid[nextPlayer]]
    BY <1>8 DEF Seat, FreshToken
  <2>2. seat \in Session
    BY <2>1, <1>3, <1>4 DEF Session
  <2>3. nextPlayer' = nextPlayer + 1 /\ spent' = spent /\ \A r \in claimed : ~InTime(r)
    BY <1>1, <1>8 DEF NextMinted
  <2>4. seat.conn = k /\ seat.player = nextPlayer /\ seat.token = minted + 1
    BY <2>1
  <2>5. /\ \A s \in sessions : s.player # nextPlayer
        /\ \A r \in lapsed : r.player # nextPlayer
    BY DEF Minted, TypeOK, Session, Row, Players
  <2> HIDE DEF seat, resumed
  <2>6. Joins(k, seat, claimed)
    BY <1>1, <1>2, <1>3, <1>7, <2>3, <2>4, <2>5 DEF Joins
  <2> QED BY <1>1, <1>6, <2>2, <2>6
<1>9. CASE resumed # {}
  <2>1. PICK r \in resumed : TRUE
    BY <1>9
  <2>2. r \in claimed /\ InTime(r) /\ claimed = {r} /\ resumed = {r}
    BY <2>1, <1>6
  <2>3. seat = [conn |-> k, player |-> r.player, token |-> minted + 1, grid |-> r.grid]
    BY <2>2 DEF Seat, FreshToken
  <2>4. r \in Row /\ r.token = key /\ r \in lapsed
    BY <2>2, <1>5
  <2>5. seat \in Session
    BY <2>3, <2>4, <1>3 DEF Session, Row
  <2>6. nextPlayer' = nextPlayer /\ spent' = spent \cup {r.token}
    BY <1>1, <2>2 DEF NextMinted
  <2>7. seat.conn = k /\ seat.player = r.player /\ seat.token = minted + 1 /\ seat.grid = r.grid
    BY <2>3
  <2>8. /\ \A s \in sessions : s.player # r.player
        /\ \A q \in lapsed \ claimed : q.player # r.player
    BY <2>2, <2>4 DEF OneSeatEach
  <2> HIDE DEF seat, resumed
  <2>9. \E q \in claimed :
            /\ claimed = {q} /\ InTime(q) /\ seat.player = q.player /\ seat.grid = q.grid
            /\ nextPlayer' = nextPlayer /\ spent' = spent \cup {q.token}
            /\ q.token = Head(up[k]).token
    BY <2>2, <2>4, <2>6, <2>7 DEF key
  <2>10. Joins(k, seat, claimed)
    BY <1>1, <1>2, <1>3, <1>7, <2>7, <2>8, <2>9 DEF Joins
  <2> QED BY <1>1, <1>6, <2>5, <2>10
<1> QED BY <1>8, <1>9

-----------------------------------------------------------------------------
LEMMA WiresStep ==
    ASSUME TypeOK, Wires, Room, Budget, Minted, OneSeatEach, [Next]_vars
    PROVE  Wires' /\ Room'
<1> USE NameAssumption, BoundAssumption
<1>1. ASSUME NEW c \in Clients, NEW k \in Conns, Connect(c, k)
      PROVE  Wires' /\ Room'
  <2>1. PICK hello \in {Hello(me[c].player, me[c].token), Hello(Nobody, Nobody)} :
             up' = [up EXCEPT ![k] = <<hello>>]
    BY <1>1 DEF Connect
  <2>2. hello \in ClientMsg /\ hello.type = "Hello"
    BY <2>1 DEF Hello, ClientMsg, TypeOK, Card
  <2>3. <<hello>> \in Seq(ClientMsg) /\ Len(<<hello>>) = 1 /\ DOMAIN <<hello>> = 1..1
    BY <2>2
  <2>4. down[k] = <<>> /\ Len(down[k]) = 0 /\ k # Down
    BY <1>1 DEF Connect, Wires, Conns, Down
  <2>5. Wires'
    BY <1>1, <2>1, <2>2, <2>3 DEF Connect, Wires, TypeOK, serverVars, Nobody
  <2>6. /\ up'[k] = <<hello>> /\ \A j \in Conns : j # k => up'[j] = up[j]
        /\ down' = down /\ me' = me /\ link[c] = Down
        /\ caller' = [caller EXCEPT ![k] = c] /\ link' = [link EXCEPT ![c] = k]
        /\ caller[k] = Nobody
    BY <1>1, <2>1, <2>2, <2>3, OneWire DEF Connect
  <2>7. \A d \in Clients : d # c /\ link[d] # Down => link[d] # k /\ link[d] \in Conns
    BY <2>6 DEF Room, TypeOK, Nobody
  <2>8. Traffic(k)' = 1 /\ \A j \in Conns : j # k => Traffic(j)' = Traffic(j)
    <3>1. Len(up'[k]) = 1 /\ Len(down'[k]) = 0
      BY <2>3, <2>4, <2>6
    <3>2. Traffic(k)' = 1
      BY <3>1 DEF Traffic
    <3>3. ASSUME NEW j \in Conns, j # k PROVE Traffic(j)' = Traffic(j)
      <4>1. up'[j] = up[j] /\ down'[j] = down[j]
        BY <2>6, <3>3
      <4> QED BY <4>1 DEF Traffic
    <3> QED BY <3>2, <3>3
  <2>9. Room'
    BY <2>4, <2>6, <2>7, <2>8, Lengths DEF Room, TypeOK
  <2> QED BY <2>5, <2>9
<1>2. ASSUME NEW c \in Clients, NEW g \in Grids, RequestView(c, g)
      PROVE  Wires' /\ Room'
  <2> DEFINE m == ViewRequest(g)
  <2>1. PICK k \in Conns : k = link[c] /\ caller[k] = c /\ k # Down
    BY <1>2 DEF RequestView, Room, TypeOK, Conns, Down
  <2>2. m \in ClientMsg /\ m.type # "Hello"
    BY DEF ViewRequest, ClientMsg
  <2>3. up' = [up EXCEPT ![k] = Append(@, m)] /\ Len(up[k]) + Len(down[k]) < MaxWire
    BY <1>2, <2>1 DEF RequestView
  <2>4. /\ Append(up[k], m) \in Seq(ClientMsg) /\ Len(Append(up[k], m)) = Len(up[k]) + 1
        /\ \A i \in DOMAIN Append(up[k], m) : Append(up[k], m)[i].type = "Hello" => i = 1
        /\ Len(up[k]) \in Nat /\ Len(down[k]) \in Nat
    BY <2>1, <2>2 DEF Wires
  <2> DEFINE w == Append(up[k], m)
  <2>5. /\ up' = [up EXCEPT ![k] = w] /\ w \in Seq(ClientMsg)
        /\ UNCHANGED <<down, caller, link, me>>
    BY <1>2, <2>3, <2>4 DEF RequestView, clientVars
  <2>6. Len(w) = Len(up[k]) + 1 /\ \A i \in DOMAIN w : w[i].type = "Hello" => i = 1
    BY <2>4
  <2> HIDE DEF m, w
  <2>7. /\ up' \in [Conns -> Seq(ClientMsg)] /\ up'[k] = w
        /\ \A j \in Conns : j # k => up'[j] = up[j]
    BY <2>1, <2>5, OneWire
  <2>8. Wires'
    BY <2>1, <2>5, <2>6, <2>7, NameAssumption DEF Wires, Nobody
  <2>9. Traffic(k)' = Traffic(k) + 1 /\ \A j \in Conns : j # k => Traffic(j)' = Traffic(j)
    <3>1. Len(up'[k]) = Len(up[k]) + 1 /\ down' = down
      BY <2>5, <2>6, <2>7
    <3>2. Traffic(k)' = Traffic(k) + 1
      <4>1. Len(up'[k]) \in Nat /\ Len(down'[k]) = Len(down[k])
        BY <3>1, <2>4
      <4> DEFINE x == Len(up'[k])  y == Len(down'[k])  a == Len(up[k])  b == Len(down[k])
      <4>2. a \in Nat /\ b \in Nat /\ x = a + 1 /\ y = b
        BY <3>1, <4>1, <2>4
      <4> HIDE DEF x, y, a, b
      <4>3. x + y = (a + b) + 1
        BY <4>2
      <4> QED BY <4>3 DEF x, y, a, b, Traffic
    <3>3. ASSUME NEW j \in Conns, j # k PROVE Traffic(j)' = Traffic(j)
      BY <2>7, <3>1, <3>3 DEF Traffic
    <3> QED BY <3>2, <3>3
  <2>10. Traffic(k)' <= MaxWire /\ Traffic(k)' <= MaxWire + 1
    <3>1. Traffic(k) < MaxWire
      BY <2>3 DEF Traffic
    <3> QED BY <2>9, <3>1, Lengths
  <2>11. Room'
    BY <2>1, <2>5, <2>9, <2>10, Lengths DEF Room, TypeOK
  <2> QED BY <2>8, <2>11
<1>3. ASSUME NEW c \in Clients, Receive(c)
      PROVE  Wires' /\ Room'
  <2>1. PICK k \in Conns : k = link[c] /\ caller[k] = c /\ down[k] # <<>>
    BY <1>3 DEF Receive, Room, TypeOK, Conns, Down
  <2>2. /\ Tail(down[k]) \in Seq(ServerMsg)
        /\ Len(Tail(down[k])) = Len(down[k]) - 1
        /\ \A j \in Conns : Len(down[j]) \in Nat /\ Len(up[j]) \in Nat
    BY <2>1 DEF Wires
  <2>3. Wires'
    BY <1>3, <2>1, <2>2 DEF Receive, Wires
  <2>4. /\ \A d \in Clients : link'[d] # Down => link'[d] = link[d] /\ link[d] # Down
        /\ \A d \in Clients : me'[d].joined => link'[d] # Down
    <3>1. /\ link' = link \/ (link' = [link EXCEPT ![c] = Down] /\ ~me'[c].joined)
          /\ \A d \in Clients : d # c => me'[d] = me[d]
          /\ link[c] # Down
      BY <1>3 DEF Receive, TypeOK, Card
    <3> QED BY <3>1 DEF Room, TypeOK, Card
  <2>5. /\ UNCHANGED <<up, caller>>
        /\ down'[k] = Tail(down[k])
        /\ \A j \in Conns : j # k => down'[j] = down[j]
    BY <1>3, <2>1 DEF Receive, Wires
  <2>6. ASSUME NEW j \in Conns PROVE Traffic(j)' \in Nat /\ Traffic(j)' <= Traffic(j)
    <3>1. CASE j = k
      <4> DEFINE x == Len(up'[j])  y == Len(down'[j])  a == Len(up[j])  b == Len(down[j])
      <4>1. down'[j] \in Seq(ServerMsg)
        BY <2>3 DEF Wires
      <4>2. y \in Nat
        BY <4>1
      <4>3. a \in Nat /\ b \in Nat /\ x = a /\ y = b - 1
        BY <2>2, <2>5, <3>1
      <4> HIDE DEF x, y, a, b
      <4>4. x + y \in Nat /\ x + y <= a + b
        BY <4>2, <4>3
      <4> QED BY <4>4 DEF x, y, a, b, Traffic
    <3>2. CASE j # k
      <4>1. down'[j] = down[j] /\ up' = up
        BY <2>5, <3>2
      <4>2. Traffic(j)' = Traffic(j)
        BY <4>1 DEF Traffic
      <4>3. Traffic(j) \in Nat
        BY Lengths
      <4> QED BY <4>2, <4>3
    <3> QED BY <3>1, <3>2
  <2>7. Room'
    BY <2>4, <2>5, <2>6, Lengths DEF Room, TypeOK
  <2> QED BY <2>3, <2>7
<1>4. ASSUME NEW c \in Clients, Cut(c)
      PROVE  Wires' /\ Room'
  <2>1. PICK k \in Conns : k = link[c] /\ caller[k] = c /\ k # Down
    BY <1>4 DEF Cut, Room, TypeOK, Conns, Down
  <2>2. PICK l \in 0..Len(up[k]) :
             up' = [up EXCEPT ![k] = Append(SubSeq(up[k], 1, l), Disconnected)]
    BY ZenonT(40), <1>4, <2>1 DEF Cut, Prefixes
  <2>3. Disconnected \in ClientMsg /\ Disconnected.type # "Hello"
    BY DEF Disconnected, ClientMsg
  <2>4. /\ up[k] \in Seq(ClientMsg) /\ Len(up[k]) \in Nat
        /\ \A j \in Conns : Len(down[j]) \in Nat /\ Len(up[j]) \in Nat
        /\ Len(up[k]) <= MaxWire
    <3>1. Len(up[k]) + Len(down[k]) <= MaxWire
      BY <2>1 DEF Room, Traffic
    <3> QED BY <2>1, <3>1, Lengths DEF Wires
  <2>5. /\ SubSeq(up[k], 1, l) \in Seq(ClientMsg)
        /\ Len(SubSeq(up[k], 1, l)) = l
        /\ \A i \in 1..l : SubSeq(up[k], 1, l)[i] = up[k][i]
    BY <2>2, <2>4
  <2> DEFINE new == Append(SubSeq(up[k], 1, l), Disconnected)
  <2>6. /\ new \in Seq(ClientMsg) /\ Len(new) = l + 1 /\ l + 1 <= MaxWire + 1
        /\ \A i \in DOMAIN new : new[i].type = "Hello" => i = 1
    BY <2>1, <2>2, <2>3, <2>4, <2>5 DEF Wires
  <2> HIDE DEF new
  <2>7. /\ up' = [up EXCEPT ![k] = new] /\ down' = [down EXCEPT ![k] = <<>>]
        /\ caller' = caller /\ link' = [link EXCEPT ![c] = Down]
        /\ me' = [me EXCEPT ![c].joined = FALSE]
    BY <1>4, <2>1, <2>2 DEF Cut, new
  <2>8. Wires'
    BY SMTT(30), <2>1, <2>6, <2>7, <2>4 DEF Wires, Nobody
  <2>9. Room'
    <3>1. \A d \in Clients : d # c /\ link[d] # Down => link[d] # k /\ link[d] \in Conns
      BY <2>1 DEF Room, TypeOK, Conns, Down
    <3>2. Len(down'[k]) = 0 /\ Len(up'[k]) = l + 1
      BY <2>1, <2>6, <2>7 DEF Wires
    <3>3. /\ Traffic(k)' <= MaxWire + 1
          /\ \A j \in Conns : j # k => Traffic(j)' = Traffic(j)
      <4>1. Traffic(k)' = l + 1
        BY <3>2, <2>2 DEF Traffic
      <4>2. ASSUME NEW j \in Conns, j # k PROVE Traffic(j)' = Traffic(j)
        BY <2>7, <4>2 DEF Traffic, Wires
      <4> QED BY <4>1, <4>2, <2>6
    <3>4. /\ \A d \in Clients : d # c => link'[d] = link[d]
          /\ link'[c] = Down /\ ~me'[c].joined
          /\ \A d \in Clients : d # c => me'[d] = me[d]
      BY <2>7 DEF TypeOK, Card
    <3> QED BY <2>1, <2>7, <3>1, <3>3, <3>4 DEF Room
  <2> QED BY <2>8, <2>9
<1>5. ASSUME NEW k \in Conns, NEW m \in ServerMsg, up[k] # <<>>,
             \/ up' = [up EXCEPT ![k] = Tail(@)] /\ down' = Sent(k, m)
             \/ up' = [up EXCEPT ![k] = Tail(@)] /\ down' = down
             \/ up' = [up EXCEPT ![k] = <<>>] /\ down' = Sent(k, m),
             UNCHANGED <<caller, link, me>>
      PROVE  Wires' /\ Room'
  <2>1. /\ Tail(up[k]) \in Seq(ClientMsg) /\ <<>> \in Seq(ClientMsg)
        /\ Len(Tail(up[k])) = Len(up[k]) - 1 /\ Len(<<>>) = 0
        /\ Len(up[k]) \in Nat /\ Len(up[k]) >= 1
        /\ \A i \in DOMAIN Tail(up[k]) : Tail(up[k])[i].type # "Hello"
        /\ caller[k] # Nobody
    BY <1>5, HeadTaken DEF Wires
  <2>2. /\ down' \in [Conns -> Seq(ServerMsg)]
        /\ \A j \in Conns : j # k => down'[j] = down[j]
        /\ down'[k] = down[k] \/ Len(down'[k]) = Len(down[k]) + 1
        /\ \A j \in Conns : Len(down[j]) \in Nat /\ Len(up[j]) \in Nat
    BY <1>5, SentDown DEF Wires
  <2>3. /\ up' \in [Conns -> Seq(ClientMsg)]
        /\ \A j \in Conns : j # k => up'[j] = up[j]
        /\ up'[k] = Tail(up[k]) \/ up'[k] = <<>>
    BY <1>5, <2>1, OneWire
  <2>4. /\ Len(up'[k]) <= Len(up[k]) - 1 /\ Len(up'[k]) \in Nat
        /\ \A i \in DOMAIN up'[k] : up'[k][i].type # "Hello"
    <3>1. CASE up'[k] = Tail(up[k])
      BY <2>1, <3>1
    <3>2. CASE up'[k] = <<>>
      BY <2>1, <3>2
    <3> QED BY <2>3, <3>1, <3>2
  <2>5. Wires'
    BY <1>5, <2>1, <2>2, <2>3, <2>4 DEF Wires
  <2>6. ASSUME NEW j \in Conns PROVE Traffic(j)' \in Nat /\ Traffic(j)' <= Traffic(j)
    <3>1. CASE j # k
      <4>1. up'[j] = up[j] /\ down'[j] = down[j]
        BY <2>2, <2>3, <3>1
      <4>2. Traffic(j)' = Traffic(j)
        BY <4>1 DEF Traffic
      <4> QED BY <4>2, Lengths
    <3>2. CASE j = k
      <4>1. Len(down[k]) \in Nat
        BY <2>2
      <4>2. Len(down'[k]) = Len(down[k]) \/ Len(down'[k]) = Len(down[k]) + 1
        BY <2>2
      <4> DEFINE a == Len(up'[k])  b == Len(down'[k])  d == Len(up[k])  e == Len(down[k])
      <4>3. e \in Nat /\ d \in Nat /\ a \in Nat /\ a <= d - 1 /\ (b = e \/ b = e + 1)
        BY <2>1, <2>4, <4>1, <4>2
      <4> HIDE DEF a, b, d, e
      <4>4. a + b \in Nat /\ a + b <= d + e
        BY <4>3
      <4> QED BY <3>2, <4>4 DEF a, b, d, e, Traffic
    <3> QED BY <3>1, <3>2
  <2>7. Room'
    BY <1>5, <2>6, Lengths DEF Room, TypeOK
  <2> QED BY <2>5, <2>7
<1>6. Refuse \in ServerMsg
  BY DEF Refuse, ServerMsg
<1>7. ASSUME NEW k \in Conns, HelloRefused(k) PROVE Wires' /\ Room'
  BY <1>5, <1>6, <1>7 DEF HelloRefused, Heard, clientVars
<1>8. ASSUME NEW k \in Conns, SessionLapses(k) \/ ConnectionEnds(k) PROVE Wires' /\ Room'
  BY <1>5, <1>6, <1>8 DEF SessionLapses, ConnectionEnds, Heard, clientVars
<1>9. ASSUME NEW k \in Conns, ViewAnswered(k) PROVE Wires' /\ Room'
  <2>1. up[k] # <<>> /\ Head(up[k]) \in ClientMsg /\ Head(up[k]).type = "ViewRequest"
    BY <1>9, HeadTaken DEF ViewAnswered, Heard
  <2>2. Head(up[k]).grid \in Grids
    BY <2>1 DEF ClientMsg
  <2>3. PICK accepted \in BOOLEAN : down' = Sent(k, ViewChanged(Head(up[k]).grid, accepted))
    BY <1>9 DEF ViewAnswered
  <2>4. ViewChanged(Head(up[k]).grid, accepted) \in ServerMsg
    BY <2>2 DEF ViewChanged, ServerMsg
  <2> QED BY <1>5, <1>9, <2>1, <2>3, <2>4 DEF ViewAnswered, clientVars
<1>10. ASSUME NEW k \in Conns, HelloSeated(k) PROVE Wires' /\ Room'
  <2>1. PICK seat \in Session : down' = Sent(k, Welcome(seat))
    BY <1>10, SeatFacts
  <2>2. Welcome(seat) \in ServerMsg
    BY DEF Welcome, ServerMsg, Session
  <2> QED BY <1>5, <1>10, <2>1, <2>2 DEF HelloSeated, Heard, clientVars
<1>11. CASE Turn
  BY <1>11 DEF Turn, wireVars, clientVars, Wires, Room, Traffic
<1>12. CASE UNCHANGED vars
  BY <1>12 DEF vars, wireVars, clientVars, Wires, Room, Traffic
<1> QED BY <1>1, <1>2, <1>3, <1>4, <1>7, <1>8, <1>9, <1>10, <1>11, <1>12 DEF Next

-----------------------------------------------------------------------------
(* The steps, by what they do to the server's tables. *)

\* No connection gets a second chance of a seat.
LEMMA WaitingStep ==
    ASSUME IInv, [Next]_vars
    PROVE  /\ Waiting' \subseteq Waiting
           /\ \A k \in Conns : HelloSeated(k) => k \notin Waiting'
<1> USE NameAssumption DEF IInv
<1>1. ASSUME NEW c \in Clients, NEW k \in Conns, Connect(c, k) PROVE Waiting' \subseteq Waiting
  <2>1. PICK hello \in {Hello(me[c].player, me[c].token), Hello(Nobody, Nobody)} :
             up' = [up EXCEPT ![k] = <<hello>>]
    BY <1>1 DEF Connect
  <2>2. caller' = [caller EXCEPT ![k] = c] /\ k \in Waiting
    BY <1>1 DEF Connect, Waiting
  <2>3. \A j \in Conns : j # k => up'[j] = up[j] /\ caller'[j] = caller[j]
    BY <2>1, <2>2 DEF Wires, TypeOK
  <2>4. \A j \in Conns : j # k /\ j \in Waiting' => j \in Waiting
    BY <2>3 DEF Waiting, Unheard
  <2> QED BY <2>2, <2>4 DEF Waiting
<1>2. ASSUME NEW c \in Clients, NEW g \in Grids, RequestView(c, g)
      PROVE  Waiting' \subseteq Waiting
  <2> DEFINE m == ViewRequest(g)
  <2>1. PICK k \in Conns : k = link[c]
    BY <1>2 DEF RequestView, Room, TypeOK, Conns, Down
  <2>2. m.type # "Hello" /\ up' = [up EXCEPT ![k] = Append(@, m)] /\ caller' = caller
    BY <1>2, <2>1 DEF RequestView, ViewRequest
  <2>3. up[k] \in Seq(ClientMsg) /\ m \in ClientMsg
    BY DEF Wires, ViewRequest, ClientMsg
  <2> HIDE DEF m
  <2>4. \A i \in DOMAIN Append(up[k], m) :
           Append(up[k], m)[i].type = "Hello" => i \in DOMAIN up[k] /\ up[k][i].type = "Hello"
    BY <2>2, <2>3
  <2>5. up'[k] = Append(up[k], m) /\ \A j \in Conns : j # k => up'[j] = up[j]
    BY <2>2 DEF Wires
  <2>6. \A j \in Conns : Unheard(j)' => Unheard(j)
    BY <2>4, <2>5 DEF Unheard
  <2> QED BY <2>2, <2>6 DEF Waiting
<1>3. ASSUME NEW c \in Clients, Receive(c) PROVE Waiting' \subseteq Waiting
  BY <1>3 DEF Receive, Waiting, Unheard
<1>4. ASSUME NEW c \in Clients, Cut(c) PROVE Waiting' \subseteq Waiting
  <2>1. PICK k \in Conns : k = link[c]
    BY <1>4 DEF Cut, TypeOK, Down
  <2>2. PICK l \in 0..Len(up[k]) :
             up' = [up EXCEPT ![k] = Append(SubSeq(up[k], 1, l), Disconnected)]
    BY <1>4, <2>1 DEF Cut, Prefixes
  <2>3. up[k] \in Seq(ClientMsg) /\ Disconnected.type # "Hello" /\ caller' = caller
    BY <1>4 DEF Wires, Disconnected, Cut
  <2> DEFINE sent == SubSeq(up[k], 1, l)
             new  == Append(sent, Disconnected)
  <2>4. /\ sent \in Seq(ClientMsg) /\ Len(sent) = l /\ DOMAIN sent = 1..l
        /\ \A i \in 1..l : sent[i] = up[k][i] /\ i \in DOMAIN up[k]
    BY <2>2, <2>3
  <2>5. Disconnected \in ClientMsg
    BY DEF Disconnected, ClientMsg
  <2> HIDE DEF sent
  <2>6. \A i \in DOMAIN new : new[i].type = "Hello" => i \in DOMAIN up[k] /\ up[k][i].type = "Hello"
    BY <2>3, <2>4, <2>5
  <2> HIDE DEF new
  <2>7. up'[k] = new /\ \A j \in Conns : j # k => up'[j] = up[j]
    BY <2>2 DEF Wires, sent, new
  <2>8. \A j \in Conns : Unheard(j)' => Unheard(j)
    BY <2>6, <2>7 DEF Unheard
  <2> QED BY <2>3, <2>8 DEF Waiting
<1>5. ASSUME NEW k \in Conns, up[k] # <<>>, caller' = caller,
             up' = [up EXCEPT ![k] = Tail(@)] \/ up' = [up EXCEPT ![k] = <<>>]
      PROVE  Waiting' \subseteq Waiting /\ k \notin Waiting'
  <2>1. /\ up'[k] = Tail(up[k]) \/ up'[k] = <<>>
        /\ \A j \in Conns : j # k => up'[j] = up[j]
    BY <1>5 DEF Wires
  <2>2. ~Unheard(k)' /\ caller'[k] # Nobody
    <3>1. \A i \in DOMAIN Tail(up[k]) : Tail(up[k])[i].type # "Hello"
      BY <1>5, HeadTaken
    <3>2. caller'[k] # Nobody
      BY <1>5, HeadTaken
    <3>3. CASE up'[k] = Tail(up[k])
      BY <3>1, <3>2, <3>3 DEF Unheard
    <3>4. CASE up'[k] = <<>>
      BY <3>2, <3>4 DEF Unheard
    <3> QED BY <2>1, <3>3, <3>4
  <2>3. \A j \in Conns : j # k /\ j \in Waiting' => j \in Waiting
    BY <1>5, <2>1 DEF Waiting, Unheard
  <2> QED BY <2>2, <2>3 DEF Waiting
<1>6. ASSUME NEW k \in Conns,
             HelloRefused(k) \/ HelloSeated(k) \/ ViewAnswered(k)
               \/ SessionLapses(k) \/ ConnectionEnds(k)
      PROVE  Waiting' \subseteq Waiting /\ k \notin Waiting'
  <2>1. /\ up[k] # <<>> /\ caller' = caller
        /\ up' = [up EXCEPT ![k] = Tail(@)] \/ up' = [up EXCEPT ![k] = <<>>]
    BY <1>6 DEF HelloRefused, HelloSeated, ViewAnswered, SessionLapses, ConnectionEnds, Heard
  <2> QED BY <1>5, <2>1
<1>7. ASSUME Turn \/ UNCHANGED vars PROVE Waiting' \subseteq Waiting
  BY <1>7 DEF Turn, vars, wireVars, Waiting, Unheard
<1> QED BY <1>1, <1>2, <1>3, <1>4, <1>6, <1>7 DEF Next

LEMMA ServerStep ==
    ASSUME IInv, [Next]_vars
    PROVE  \/ \E k \in Conns, seat \in Session, claimed \in SUBSET lapsed :
                  Joins(k, seat, claimed) /\ k \notin Waiting'
           \/ \E s \in sessions, g \in Grids : Switches(s, g)
           \/ \E s \in sessions : Leaves(s)
           \/ Turn
           \/ UNCHANGED serverVars
<1>1. ASSUME NEW c \in Clients, NEW k \in Conns, Connect(c, k) PROVE UNCHANGED serverVars
  BY <1>1 DEF Connect
<1>2. ASSUME NEW c \in Clients, NEW g \in Grids, RequestView(c, g) PROVE UNCHANGED serverVars
  BY <1>2 DEF RequestView
<1>3. ASSUME NEW c \in Clients, Receive(c) \/ Cut(c) PROVE UNCHANGED serverVars
  BY <1>3 DEF Receive, Cut
<1>4. ASSUME NEW k \in Conns, HelloRefused(k) \/ ConnectionEnds(k) PROVE UNCHANGED serverVars
  BY <1>4 DEF HelloRefused, ConnectionEnds
<1>5. ASSUME NEW k \in Conns, HelloSeated(k)
      PROVE  \E seat \in Session, claimed \in SUBSET lapsed :
               Joins(k, seat, claimed) /\ k \notin Waiting'
  BY <1>5, SeatFacts, WaitingStep DEF IInv
<1>6. ASSUME NEW k \in Conns, ViewAnswered(k)
      PROVE  (\E s \in sessions, g \in Grids : Switches(s, g)) \/ UNCHANGED serverVars
  <2>1. PICK s \in sessions, accepted \in BOOLEAN :
          /\ s.conn = k
          /\ IF accepted
             THEN /\ sessions' = (sessions \ {s}) \cup {[s EXCEPT !.grid = Head(up[k]).grid]}
                  /\ ViewerOpened(s.player, Head(up[k]).grid)
             ELSE UNCHANGED <<sessions, held, viewers>>
    BY <1>6 DEF ViewAnswered
  <2>2. /\ Heard(k, "ViewRequest") /\ up' = [up EXCEPT ![k] = Tail(@)]
        /\ UNCHANGED <<tick, nextPlayer, minted, lapsed, spent>>
    BY <1>6 DEF ViewAnswered
  <2>3. Head(up[k]).grid \in Grids
    BY <2>2, HeadTaken DEF Heard, ClientMsg, IInv
  <2>4. CASE accepted
    BY <2>1, <2>2, <2>3, <2>4 DEF Switches
  <2>5. CASE ~accepted
    BY <2>1, <2>2, <2>5 DEF serverVars
  <2> QED BY <2>4, <2>5
<1>7. ASSUME NEW k \in Conns, SessionLapses(k) PROVE \E s \in sessions : Leaves(s)
  BY <1>7 DEF SessionLapses, Leaves
<1>8. CASE UNCHANGED vars
  BY <1>8 DEF vars
<1> QED BY <1>1, <1>2, <1>3, <1>4, <1>5, <1>6, <1>7, <1>8 DEF Next

-----------------------------------------------------------------------------
(* The tables after a step. *)

Watching(g) == {s \in sessions : s.grid = g}

LEMMA Counting ==
    ASSUME IInv
    PROVE  /\ IsFiniteSet(sessions) /\ Cardinality(sessions) \in Nat
           /\ \A g \in Grids : IsFiniteSet(Watching(g)) /\ Cardinality(Watching(g)) \in Nat
           /\ \A g \in Grids : viewers[g] = Cardinality(Watching(g))
           /\ \A s \in sessions : held[s.player] = s.grid /\ s \in Session
           /\ \A p \in Players : (\A s \in sessions : s.player # p) => held[p] = NoGrid
<1>1. IsFiniteSet(sessions) /\ Cardinality(sessions) \in Nat
  BY FS_CardinalityType DEF IInv, Budget
<1>2. \A g \in Grids : IsFiniteSet(Watching(g)) /\ Cardinality(Watching(g)) \in Nat
  BY <1>1, FS_Subset, FS_CardinalityType DEF Watching
<1>3. \A g \in Grids : viewers[g] = Cardinality(Watching(g))
  BY DEF IInv, HoldsFollowSessions, Watching
<1>4. ASSUME NEW s \in sessions PROVE held[s.player] = s.grid /\ s \in Session
  <2>1. s \in Session /\ s.player \in Players
    BY DEF IInv, TypeOK, Session
  <2>2. \A t \in sessions : t.player = s.player => t = s
    BY DEF IInv, OneSeatEach
  <2>3. (CHOOSE t \in sessions : t.player = s.player) = s
    BY <2>2
  <2> QED BY <2>1, <2>3 DEF IInv, HoldsFollowSessions
<1>5. \A p \in Players : (\A s \in sessions : s.player # p) => held[p] = NoGrid
  BY DEF IInv, HoldsFollowSessions
<1> QED BY <1>1, <1>2, <1>3, <1>4, <1>5

\* Who has a seat, and who a row.
LEMMA SeatsStep ==
    ASSUME IInv, [Next]_vars
    PROVE  OneSeatEach' /\ Minted' /\ TokensApart'
<1> USE DEF OneSeatEach, Minted, TokensApart
<1>1. TypeOK /\ OneSeatEach /\ Minted /\ TokensApart /\ Budget
  BY DEF IInv
<1>2. ASSUME NEW k \in Conns, NEW seat \in Session, NEW claimed \in SUBSET lapsed,
             Joins(k, seat, claimed)
      PROVE  OneSeatEach' /\ Minted' /\ TokensApart'
  <2>1. /\ sessions' = sessions \cup {seat} /\ lapsed' = lapsed \ claimed
        /\ seat.conn = k /\ seat.token = minted + 1 /\ minted' = minted + 1
        /\ \A s \in sessions : s.player # seat.player /\ s.conn # k
        /\ \A r \in lapsed' : r.player # seat.player
        /\ minted \in Nat /\ nextPlayer \in Nat
    BY <1>1, <1>2 DEF Joins, TypeOK
  <2>2. OneSeatEach'
    BY <1>1, <2>1
  <2>3. \/ seat.player = nextPlayer /\ nextPlayer' = nextPlayer + 1 /\ spent' = spent
        \/ \E r \in lapsed : /\ claimed = {r} /\ seat.player = r.player
                             /\ nextPlayer' = nextPlayer /\ spent' = spent \cup {r.token}
    BY <1>2 DEF Joins
  <2>4. /\ \A s \in sessions : s.player \in Nat /\ s.token \in Nat
        /\ \A r \in lapsed : r.player \in Nat /\ r.token \in Nat
        /\ \A x \in spent : x \in Nat
    BY <1>1 DEF TypeOK, Session, Row, Players, Tokens
  <2>5. Minted'
    BY <1>1, <2>1, <2>3, <2>4
  <2>6. TokensApart'
    BY <1>1, <2>1, <2>3, <2>4
  <2> QED BY <2>2, <2>5, <2>6
<1>3. ASSUME NEW s \in sessions, NEW g \in Grids, Switches(s, g)
      PROVE  OneSeatEach' /\ Minted' /\ TokensApart'
  <2> DEFINE t == [s EXCEPT !.grid = g]
  <2>1. s \in Session
    BY <1>1 DEF TypeOK
  <2>2. t.player = s.player /\ t.conn = s.conn /\ t.token = s.token
    BY <2>1 DEF Session
  <2>3. sessions' = (sessions \ {s}) \cup {t} /\ UNCHANGED <<nextPlayer, minted, lapsed, spent>>
    BY <1>3 DEF Switches
  <2> HIDE DEF t
  <2> QED BY <1>1, <2>2, <2>3
<1>4. ASSUME NEW s \in sessions, Leaves(s)
      PROVE  OneSeatEach' /\ Minted' /\ TokensApart'
  <2> DEFINE q == [player |-> s.player, token |-> s.token, grid |-> s.grid, expires |-> Deadline(tick)]
  <2>1. /\ sessions' = sessions \ {s} /\ lapsed' = {r \in lapsed : r.player # s.player} \cup {q}
        /\ UNCHANGED <<nextPlayer, minted, spent>>
    BY <1>4 DEF Leaves, Lapsed
  <2>2. q.player = s.player /\ q.token = s.token
    OBVIOUS
  <2> HIDE DEF q
  <2> QED BY <1>1, <2>1, <2>2
<1>5. CASE Turn
  <2>1. lapsed' \subseteq lapsed /\ UNCHANGED <<nextPlayer, minted, sessions, spent>>
    BY <1>5 DEF Turn
  <2> QED BY <1>1, <2>1
<1>6. CASE UNCHANGED serverVars
  BY <1>1, <1>6 DEF serverVars
<1> QED BY ServerStep, <1>2, <1>3, <1>4, <1>5, <1>6

\* The names left are enough for the connections that may still be seated.
LEMMA BudgetStep ==
    ASSUME IInv, [Next]_vars
    PROVE  Budget'
<1>1. /\ minted + Cardinality(Waiting) <= MaxConns /\ nextPlayer <= minted + 1
      /\ IsFiniteSet(sessions) /\ Cardinality(sessions) <= MaxSessions
      /\ Cardinality(sessions) \in Nat
      /\ \A s \in sessions : s.conn \notin Waiting
      /\ minted \in Nat /\ nextPlayer \in Nat
  BY Counting DEF IInv, Budget, TypeOK
<1>2. /\ Waiting' \subseteq Waiting /\ IsFiniteSet(Waiting) /\ Cardinality(Waiting) \in Nat
      /\ IsFiniteSet(Waiting') /\ Cardinality(Waiting') \in Nat
      /\ Cardinality(Waiting') <= Cardinality(Waiting)
  BY WaitingStep, WaitingFinite, FS_Subset, FS_CardinalityType
<1>3. ASSUME NEW k \in Conns, NEW seat \in Session, NEW claimed \in SUBSET lapsed,
             Joins(k, seat, claimed), k \notin Waiting'
      PROVE  Budget'
  <2>1. /\ k \in Waiting /\ seat.conn = k /\ minted' = minted + 1
        /\ sessions' = sessions \cup {seat} /\ Cardinality(sessions) < MaxSessions
        /\ nextPlayer' = nextPlayer \/ nextPlayer' = nextPlayer + 1
    BY <1>3 DEF Joins
  <2>2. Cardinality(Waiting') <= Cardinality(Waiting) - 1
    <3>1. IsFiniteSet(Waiting \ {k}) /\ Cardinality(Waiting \ {k}) = Cardinality(Waiting) - 1
      BY <1>2, <2>1, FS_RemoveElement
    <3>2. Waiting' \subseteq Waiting \ {k}
      BY <1>2, <1>3
    <3> QED BY <3>1, <3>2, FS_Subset
  <2>3. seat \notin sessions
    BY <1>1, <2>1
  <2>4. IsFiniteSet(sessions') /\ Cardinality(sessions') = Cardinality(sessions) + 1
    BY <1>1, <2>1, <2>3, FS_AddElement
  <2>5. minted' + Cardinality(Waiting') <= MaxConns /\ nextPlayer' <= minted' + 1
    BY <1>1, <1>2, <2>1, <2>2, BoundAssumption
  <2>6. Cardinality(sessions') <= MaxSessions
    BY <1>1, <2>1, <2>4, BoundAssumption
  <2>7. \A s \in sessions' : s.conn \notin Waiting'
    BY <1>1, <1>2, <1>3, <2>1
  <2> QED BY <2>4, <2>5, <2>6, <2>7 DEF Budget
<1>4. ASSUME NEW s \in sessions, NEW g \in Grids, Switches(s, g)
      PROVE  Budget'
  <2> DEFINE t == [s EXCEPT !.grid = g]
  <2>1. t.conn = s.conn
    BY DEF IInv, TypeOK, Session
  <2>2. sessions' = (sessions \ {s}) \cup {t} /\ UNCHANGED <<nextPlayer, minted>>
    BY <1>4 DEF Switches
  <2> HIDE DEF t
  <2>3. IsFiniteSet(sessions \ {s}) /\ Cardinality(sessions \ {s}) = Cardinality(sessions) - 1
    BY <1>1, FS_RemoveElement
  <2>4. IsFiniteSet(sessions') /\ Cardinality(sessions') <= Cardinality(sessions)
    <3> DEFINE others == sessions \ {s}
    <3>1. IsFiniteSet(others) /\ Cardinality(others) = Cardinality(sessions) - 1
      BY <2>3
    <3>2. sessions' = others \cup {t}
      BY <2>2
    <3> HIDE DEF others
    <3>3. CASE t \in others
      <4>1. sessions' = others
        BY <3>2, <3>3
      <4> QED BY <1>1, <3>1, <4>1
    <3>4. CASE t \notin others
      <4>1. IsFiniteSet(others \cup {t}) /\ Cardinality(others \cup {t}) = Cardinality(others) + 1
        BY <3>1, <3>4, FS_AddElement
      <4> QED BY <1>1, <3>1, <3>2, <4>1
    <3> QED BY <3>3, <3>4
  <2>5. \A u \in sessions' : u.conn \notin Waiting'
    BY <1>1, <1>2, <2>1, <2>2
  <2>6. Cardinality(sessions') \in Nat
    BY <2>4, FS_CardinalityType
  <2>7. Cardinality(sessions') <= MaxSessions /\ minted' + Cardinality(Waiting') <= MaxConns
    BY <1>1, <1>2, <2>2, <2>4, <2>6, BoundAssumption
  <2> QED BY <1>1, <2>2, <2>4, <2>5, <2>7 DEF Budget
<1>5. ASSUME sessions' \subseteq sessions, UNCHANGED <<nextPlayer, minted>>
      PROVE  Budget'
  <2>1. IsFiniteSet(sessions') /\ Cardinality(sessions') <= Cardinality(sessions)
    BY <1>1, <1>5, FS_Subset
  <2>2. Cardinality(sessions') \in Nat
    BY <2>1, FS_CardinalityType
  <2>3. Cardinality(sessions') <= MaxSessions /\ minted' + Cardinality(Waiting') <= MaxConns
    BY <1>1, <1>2, <1>5, <2>1, <2>2, BoundAssumption
  <2> QED BY <1>1, <1>2, <1>5, <2>1, <2>3 DEF Budget
<1>6. ASSUME NEW s \in sessions, Leaves(s) PROVE Budget'
  BY <1>5, <1>6 DEF Leaves
<1>7. CASE Turn
  BY <1>5, <1>7 DEF Turn
<1>8. CASE UNCHANGED serverVars
  BY <1>5, <1>8 DEF serverVars
<1> QED BY ServerStep, <1>3, <1>4, <1>6, <1>7, <1>8

\* The holds and the counts after a step, from what the step does to the seats.
LEMMA HoldsStep ==
    ASSUME IInv, [Next]_vars
    PROVE  /\ HoldsFollowSessions'
           /\ held' \in [Players -> Grids \cup {NoGrid}] /\ viewers' \in [Grids -> Nat]
<1> DEFINE Good == /\ \A s \in sessions' : held'[s.player] = s.grid
                   /\ \A p \in Players : (\A s \in sessions' : s.player # p) => held'[p] = NoGrid
                   /\ \A g \in Grids : viewers'[g] = Cardinality(Watching(g)')
                   /\ held' \in [Players -> Grids \cup {NoGrid}] /\ viewers' \in [Grids -> Nat]
<1> USE NameAssumption
<1>1. ASSUME Good PROVE HoldsFollowSessions'
  <2>1. OneSeatEach'
    BY SeatsStep
  <2>2. ASSUME NEW p \in Players
        PROVE  held'[p] = (IF \E s \in sessions' : s.player = p
                           THEN (CHOOSE s \in sessions' : s.player = p).grid ELSE NoGrid)
    <3>1. CASE \E s \in sessions' : s.player = p
      <4>1. PICK s \in sessions' : s.player = p
        BY <3>1
      <4>2. \A u \in sessions' : u.player = p => u = s
        BY <2>1, <4>1 DEF OneSeatEach
      <4>3. (CHOOSE u \in sessions' : u.player = p) = s
        BY <4>1, <4>2
      <4> QED BY <1>1, <3>1, <4>1, <4>3
    <3>2. CASE ~\E s \in sessions' : s.player = p
      BY <1>1, <3>2
    <3> QED BY <3>1, <3>2
  <2> QED BY <1>1, <2>2 DEF HoldsFollowSessions, Watching
<1>2. /\ held \in [Players -> Grids \cup {NoGrid}] /\ viewers \in [Grids -> 0..MaxSessions]
      /\ OneSeatEach /\ sessions \subseteq Session
  BY DEF IInv, TypeOK
<1>3. ASSUME NEW k \in Conns, NEW seat \in Session, NEW claimed \in SUBSET lapsed,
             Joins(k, seat, claimed)
      PROVE  Good
  <2> DEFINE p == seat.player
             g == seat.grid
  <2>1. /\ sessions' = sessions \cup {seat} /\ seat \notin sessions
        /\ \A s \in sessions : s.player # p
        /\ ViewerOpened(p, g) /\ p \in Players /\ g \in Grids
    BY <1>3 DEF Joins, Session
  <2>2. held[p] = NoGrid /\ g # NoGrid /\ \A x \in Grids : x # NoGrid
    BY <2>1, Counting DEF NoGrid
  <2>3. /\ held' = [held EXCEPT ![p] = g]
        /\ viewers' = [x \in Grids |-> IF x = g THEN viewers[x] + 1 ELSE viewers[x]]
    BY <2>1, <2>2 DEF ViewerOpened
  <2>4. ASSUME NEW x \in Grids PROVE viewers'[x] = Cardinality(Watching(x)')
    <3>1. CASE x = g
      <4>1. Watching(x)' = Watching(x) \cup {seat} /\ seat \notin Watching(x)
        BY <2>1, <3>1 DEF Watching
      <4>2. Cardinality(Watching(x)') = Cardinality(Watching(x)) + 1
        BY <4>1, Counting, FS_AddElement
      <4> QED BY <2>3, <3>1, <4>2, Counting
    <3>2. CASE x # g
      <4>1. Watching(x)' = Watching(x)
        BY <2>1, <3>2 DEF Watching
      <4> QED BY <2>3, <3>2, <4>1, Counting
    <3> QED BY <3>1, <3>2
  <2>5. \A s \in sessions : held[s.player] = s.grid /\ s.player \in Players
    BY Counting DEF Session
  <2>6. held' \in [Players -> Grids \cup {NoGrid}] /\ viewers' \in [Grids -> Nat]
    BY <1>2, <2>1, <2>3, BoundAssumption
  <2>7. \A s \in sessions' : held'[s.player] = s.grid
    BY <1>2, <2>1, <2>3, <2>5
  <2>8. \A q \in Players : (\A s \in sessions' : s.player # q) => held'[q] = NoGrid
    BY <1>2, <2>1, <2>3, Counting
  <2> QED BY <2>4, <2>6, <2>7, <2>8
<1>4. ASSUME NEW s \in sessions, NEW g \in Grids, Switches(s, g)
      PROVE  Good
  <2> DEFINE t == [s EXCEPT !.grid = g]
             p == s.player
  <2>1. /\ t.player = p /\ t.grid = g /\ s \in Session /\ p \in Players
        /\ held[p] = s.grid /\ s.grid \in Grids
        /\ \A u \in sessions : u.player = p => u = s
        /\ s.grid = g => t = s
    BY <1>2, Counting DEF Session, OneSeatEach
  <2>2. sessions' = (sessions \ {s}) \cup {t} /\ ViewerOpened(p, g)
    BY <1>4 DEF Switches
  <2> HIDE DEF t, p
  <2>3. CASE s.grid = g
    <3>1. sessions' = sessions /\ held' = held /\ viewers' = viewers
      BY <2>1, <2>2, <2>3 DEF ViewerOpened
    <3>2. \A x \in Grids : Watching(x)' = Watching(x)
      BY <3>1 DEF Watching
    <3> QED BY <1>2, <3>1, <3>2, Counting, BoundAssumption
  <2>4. CASE s.grid # g
    <3>1. /\ held' = [held EXCEPT ![p] = g]
          /\ viewers' = [x \in Grids |->
                           IF x = g THEN viewers[x] + 1
                           ELSE IF x = s.grid THEN Released(viewers[x]) ELSE viewers[x]]
      BY <2>1, <2>2, <2>4 DEF ViewerOpened
    <3>2. t \notin sessions
      BY <2>1, <2>4
    <3>3. ASSUME NEW x \in Grids PROVE viewers'[x] = Cardinality(Watching(x)')
      <4>1. CASE x = g
        <5>1. Watching(x)' = Watching(x) \cup {t} /\ t \notin Watching(x)
          BY <2>1, <2>2, <2>4, <3>2, <4>1 DEF Watching
        <5>2. Cardinality(Watching(x)') = Cardinality(Watching(x)) + 1
          BY <5>1, Counting, FS_AddElement
        <5> QED BY <3>1, <4>1, <5>2, Counting
      <4>2. CASE x = s.grid
        <5>1. Watching(x)' = Watching(x) \ {s} /\ s \in Watching(x)
          BY <2>1, <2>2, <2>4, <4>2 DEF Watching
        <5>2. Cardinality(Watching(x)') = Cardinality(Watching(x)) - 1
          BY <5>1, Counting, FS_RemoveElement
        <5>3. Cardinality(Watching(x)) > 0
          BY <5>1, Counting, FS_EmptySet
        <5> QED BY <2>4, <3>1, <4>2, <5>2, <5>3, Counting DEF Released
      <4>3. CASE x # g /\ x # s.grid
        <5>1. Watching(x)' = Watching(x)
          BY <2>1, <2>2, <4>3 DEF Watching
        <5> QED BY <3>1, <4>3, <5>1, Counting
      <4> QED BY <4>1, <4>2, <4>3
    <3>4. \A u \in sessions : held[u.player] = u.grid /\ u.player \in Players
      BY Counting DEF Session
    <3>5. held' \in [Players -> Grids \cup {NoGrid}] /\ viewers' \in [Grids -> Nat]
      <4>1. \A x \in Grids : viewers[x] \in Nat /\ viewers[x] + 1 \in Nat /\ Released(viewers[x]) \in Nat
        BY <1>2, BoundAssumption DEF Released
      <4> QED BY <1>2, <2>1, <3>1, <4>1
    <3>6. \A u \in sessions' : held'[u.player] = u.grid
      BY <1>2, <2>1, <2>2, <3>1, <3>4
    <3>7. \A q \in Players : (\A u \in sessions' : u.player # q) => held'[q] = NoGrid
      BY <1>2, <2>1, <2>2, <3>1, Counting
    <3> QED BY <3>3, <3>5, <3>6, <3>7
  <2> QED BY <2>3, <2>4
<1>5. ASSUME NEW s \in sessions, Leaves(s)
      PROVE  Good
  <2> DEFINE p == s.player
  <2>1. /\ sessions' = sessions \ {s} /\ ViewerClosed(p) /\ p \in Players
        /\ held[p] = s.grid /\ s.grid \in Grids
        /\ \A u \in sessions : u.player = p => u = s
    BY <1>2, <1>5, Counting DEF Leaves, Session, OneSeatEach
  <2> HIDE DEF p
  <2>2. /\ held' = [held EXCEPT ![p] = NoGrid]
        /\ viewers' = [x \in Grids |-> IF x = s.grid THEN Released(viewers[x]) ELSE viewers[x]]
    BY <2>1 DEF ViewerClosed
  <2>3. ASSUME NEW x \in Grids PROVE viewers'[x] = Cardinality(Watching(x)')
    <3>1. CASE x = s.grid
      <4>1. Watching(x)' = Watching(x) \ {s} /\ s \in Watching(x)
        BY <2>1, <3>1 DEF Watching
      <4>2. Cardinality(Watching(x)') = Cardinality(Watching(x)) - 1
        BY <4>1, Counting, FS_RemoveElement
      <4>3. Cardinality(Watching(x)) > 0
        BY <4>1, Counting, FS_EmptySet
      <4> QED BY <2>2, <3>1, <4>2, <4>3, Counting DEF Released
    <3>2. CASE x # s.grid
      <4>1. Watching(x)' = Watching(x)
        BY <2>1, <3>2 DEF Watching
      <4> QED BY <2>2, <3>2, <4>1, Counting
    <3> QED BY <3>1, <3>2
  <2>4. \A u \in sessions : held[u.player] = u.grid /\ u.player \in Players
    BY Counting DEF Session
  <2>5. held' \in [Players -> Grids \cup {NoGrid}] /\ viewers' \in [Grids -> Nat]
    <3>1. \A x \in Grids : viewers[x] \in Nat /\ Released(viewers[x]) \in Nat
      BY <1>2, BoundAssumption DEF Released
    <3> QED BY <1>2, <2>1, <2>2, <3>1
  <2>6. \A u \in sessions' : held'[u.player] = u.grid
    BY <1>2, <2>1, <2>2, <2>4
  <2>7. \A q \in Players : (\A u \in sessions' : u.player # q) => held'[q] = NoGrid
    <3>1. ASSUME NEW q \in Players, q # p, \A u \in sessions' : u.player # q
          PROVE  held'[q] = NoGrid
      <4>1. \A u \in sessions : u.player # q
        BY <2>1, <3>1 DEF p
      <4> QED BY <1>2, <2>2, <3>1, <4>1, Counting
    <3> QED BY <1>2, <2>1, <2>2, <3>1
  <2> QED BY <2>3, <2>5, <2>6, <2>7
<1>6. ASSUME UNCHANGED <<sessions, held, viewers>> PROVE Good
  <2>1. \A x \in Grids : Watching(x)' = Watching(x)
    BY <1>6 DEF Watching
  <2> QED BY <1>2, <1>6, <2>1, Counting, BoundAssumption
<1>7. ASSUME Turn \/ UNCHANGED serverVars PROVE Good
  BY <1>6, <1>7 DEF Turn, serverVars
<1> HIDE DEF Good
<1>9. Good
  BY ServerStep, <1>3, <1>4, <1>5, <1>7
<1> QED BY <1>1, <1>9 DEF Good

\* The client's own variables keep their types.
LEMMA ClientTypeStep ==
    ASSUME TypeOK, Wires, [Next]_vars
    PROVE  /\ caller' \in [Conns -> Clients \cup {Nobody}]
           /\ link' \in [Clients -> Conns \cup {Down}]
           /\ me' \in [Clients -> Card]
<1> USE DEF TypeOK
<1>1. ASSUME NEW c \in Clients, NEW k \in Conns, Connect(c, k)
      PROVE  /\ caller' \in [Conns -> Clients \cup {Nobody}]
             /\ link' \in [Clients -> Conns \cup {Down}] /\ me' = me
  BY <1>1 DEF Connect
<1>2. ASSUME NEW c \in Clients, Receive(c)
      PROVE  /\ caller' = caller /\ link' \in [Clients -> Conns \cup {Down}]
             /\ me' \in [Clients -> Card]
  <2>1. PICK k \in Conns : k = link[c] /\ down[k] # <<>>
    BY <1>2 DEF Receive, Down
  <2> DEFINE m == Head(down[k])
  <2>2. m \in ServerMsg
    BY <2>1 DEF Wires
  <2>3. /\ caller' = caller
        /\ me' = IF m.type = "Welcome"
                 THEN [me EXCEPT ![c] = [player |-> m.player, token |-> m.token, grid |-> m.grid,
                                         joined |-> TRUE]]
                 ELSE IF m.type = "Refuse" THEN [me EXCEPT ![c].joined = FALSE] ELSE me
        /\ link' = IF m.type = "Refuse" THEN [link EXCEPT ![c] = Down] ELSE link
    BY <1>2, <2>1 DEF Receive
  <2> HIDE DEF m
  <2>4. CASE m.type = "Welcome"
    <3>1. [player |-> m.player, token |-> m.token, grid |-> m.grid, joined |-> TRUE] \in Card
      BY <2>2, <2>4 DEF ServerMsg, Card
    <3> QED BY <2>3, <2>4, <3>1
  <2>5. CASE m.type = "Refuse"
    <3>1. [me EXCEPT ![c].joined = FALSE] \in [Clients -> Card]
      BY DEF Card
    <3> QED BY <2>3, <2>5, <3>1
  <2>6. CASE m.type # "Welcome" /\ m.type # "Refuse"
    BY <2>3, <2>6
  <2> QED BY <2>4, <2>5, <2>6
<1>3. ASSUME NEW c \in Clients, Cut(c)
      PROVE  /\ caller' = caller /\ link' \in [Clients -> Conns \cup {Down}]
             /\ me' \in [Clients -> Card]
  <2>1. /\ caller' = caller /\ link' = [link EXCEPT ![c] = Down]
        /\ me' = [me EXCEPT ![c].joined = FALSE]
    BY <1>3 DEF Cut
  <2>2. [me EXCEPT ![c].joined = FALSE] \in [Clients -> Card]
    BY DEF Card
  <2> QED BY <2>1, <2>2
<1>4. ASSUME NEW c \in Clients, NEW g \in Grids, RequestView(c, g) PROVE UNCHANGED <<caller, link, me>>
  BY <1>4 DEF RequestView, clientVars
<1>5. ASSUME NEW k \in Conns,
             HelloRefused(k) \/ HelloSeated(k) \/ ViewAnswered(k)
               \/ SessionLapses(k) \/ ConnectionEnds(k)
      PROVE  UNCHANGED <<caller, link, me>>
  BY <1>5 DEF HelloRefused, HelloSeated, ViewAnswered, SessionLapses, ConnectionEnds, clientVars
<1>6. ASSUME Turn \/ UNCHANGED vars PROVE UNCHANGED <<caller, link, me>>
  BY <1>6 DEF Turn, vars, wireVars, clientVars
<1> QED BY <1>1, <1>2, <1>3, <1>4, <1>5, <1>6 DEF Next

LEMMA TypeStep ==
    ASSUME IInv, [Next]_vars
    PROVE  TypeOK'
<1> USE BoundAssumption
<1>1. TypeOK /\ Wires
  BY DEF IInv
<1>2. /\ tick' \in 0..MaxTick /\ sessions' \subseteq Session /\ lapsed' \subseteq Row
      /\ nextPlayer' \in Nat \ {0} /\ minted' \in Nat /\ spent' \subseteq Tokens
  <2>1. ASSUME NEW k \in Conns, NEW seat \in Session, NEW claimed \in SUBSET lapsed,
               Joins(k, seat, claimed)
        PROVE  /\ tick' = tick /\ sessions' \subseteq Session /\ lapsed' \subseteq lapsed
               /\ nextPlayer' \in Nat \ {0} /\ minted' \in Nat /\ spent' \subseteq Tokens
    <3>1. /\ tick' = tick /\ sessions' = sessions \cup {seat} /\ lapsed' = lapsed \ claimed
          /\ minted' = minted + 1
          /\ nextPlayer' = nextPlayer \/ nextPlayer' = nextPlayer + 1
          /\ spent' = spent \/ \E r \in lapsed : spent' = spent \cup {r.token}
      BY <2>1 DEF Joins
    <3>2. sessions' \subseteq Session /\ lapsed' \subseteq lapsed
      BY <1>1, <3>1 DEF TypeOK
    <3>3. nextPlayer' \in Nat \ {0} /\ minted' \in Nat
      BY <1>1, <3>1 DEF TypeOK
    <3>4. spent' \subseteq Tokens
      BY <1>1, <3>1 DEF TypeOK, Row
    <3> QED BY <3>1, <3>2, <3>3, <3>4
  <2>2. ASSUME NEW s \in sessions, NEW g \in Grids, Switches(s, g)
        PROVE  /\ UNCHANGED <<tick, nextPlayer, minted, lapsed, spent>>
               /\ sessions' \subseteq Session
    <3>1. [s EXCEPT !.grid = g] \in Session
      BY <1>1 DEF TypeOK, Session
    <3> QED BY <1>1, <2>2, <3>1 DEF Switches, TypeOK
  <2>3. ASSUME NEW s \in sessions, Leaves(s)
        PROVE  /\ UNCHANGED <<tick, nextPlayer, minted, spent>>
               /\ sessions' \subseteq sessions /\ lapsed' \subseteq Row
    <3>1. Deadline(tick) \in 0..TopTick
      BY <1>1, DeadlineType DEF TypeOK
    <3>2. [player |-> s.player, token |-> s.token, grid |-> s.grid, expires |-> Deadline(tick)] \in Row
      BY <1>1, <3>1 DEF TypeOK, Session, Row
    <3> QED BY <1>1, <2>3, <3>2 DEF Leaves, Lapsed, TypeOK
  <2>4. ASSUME Turn
        PROVE  /\ tick' \in 0..MaxTick /\ lapsed' \subseteq lapsed
               /\ UNCHANGED <<nextPlayer, minted, sessions, spent>>
    BY <1>1, <2>4 DEF Turn, TypeOK
  <2>5. ASSUME UNCHANGED serverVars
        PROVE  UNCHANGED <<tick, nextPlayer, minted, sessions, lapsed, spent>>
    BY <2>5 DEF serverVars
  <2>6. /\ tick \in 0..MaxTick /\ sessions \subseteq Session /\ lapsed \subseteq Row
        /\ nextPlayer \in Nat \ {0} /\ minted \in Nat /\ spent \subseteq Tokens
    BY <1>1 DEF TypeOK
  <2>7. CASE \E k \in Conns, seat \in Session, claimed \in SUBSET lapsed : Joins(k, seat, claimed)
    BY <2>1, <2>6, <2>7
  <2>8. CASE \E s \in sessions, g \in Grids : Switches(s, g)
    BY <2>2, <2>6, <2>8
  <2>9. CASE \E s \in sessions : Leaves(s)
    BY <2>3, <2>6, <2>9
  <2>10. CASE Turn \/ UNCHANGED serverVars
    BY <2>4, <2>5, <2>6, <2>10
  <2> QED BY ServerStep, <2>7, <2>8, <2>9, <2>10
<1>3. nextPlayer' \in 1..(MaxConns + 1) /\ minted' \in 0..MaxConns
  <2>1. Cardinality(Waiting') \in Nat
    BY WaitingFinite, FS_CardinalityType
  <2> QED BY <1>2, <2>1, BudgetStep DEF Budget
<1>4. viewers' \in [Grids -> 0..MaxSessions] /\ held' \in [Players -> Grids \cup {NoGrid}]
  <2>1. ASSUME NEW g \in Grids PROVE viewers'[g] <= MaxSessions
    <3>1. IsFiniteSet(sessions') /\ Cardinality(sessions') <= MaxSessions
      BY BudgetStep DEF Budget
    <3>2. /\ Cardinality({s \in sessions' : s.grid = g}) <= Cardinality(sessions')
          /\ IsFiniteSet({s \in sessions' : s.grid = g})
      BY <3>1, FS_Subset
    <3>3. /\ Cardinality(sessions') \in Nat
          /\ Cardinality({s \in sessions' : s.grid = g}) \in Nat
      BY <3>1, <3>2, FS_CardinalityType
    <3>4. viewers'[g] = Cardinality({s \in sessions' : s.grid = g})
      BY HoldsStep DEF HoldsFollowSessions
    <3> QED BY <3>1, <3>2, <3>3, <3>4
  <2> QED BY <2>1, HoldsStep
<1>5. \A k \in Conns : Len(up'[k]) <= MaxWire + 1 /\ Len(down'[k]) <= MaxWire + 1
  <2>1. Wires' /\ Room'
    BY WiresStep DEF IInv
  <2>2. ASSUME NEW k \in Conns PROVE Len(up'[k]) <= MaxWire + 1 /\ Len(down'[k]) <= MaxWire + 1
    <3> DEFINE x == Len(up'[k])  y == Len(down'[k])
    <3>1. x \in Nat /\ y \in Nat
      BY <2>1 DEF Wires
    <3>2. x + y <= MaxWire + 1
      BY <2>1 DEF Room, Traffic
    <3> HIDE DEF x, y
    <3>3. x <= MaxWire + 1 /\ y <= MaxWire + 1
      BY <3>1, <3>2
    <3> QED BY <3>3 DEF x, y
  <2> QED BY <2>2
<1> QED BY <1>1, <1>2, <1>3, <1>4, <1>5, ClientTypeStep DEF TypeOK

-----------------------------------------------------------------------------
(* The theorems. *)

LEMMA IInvInit == Init => IInv
<1> SUFFICES ASSUME Init PROVE IInv
  OBVIOUS
<1> USE BoundAssumption, NameAssumption, HomeAssumption DEF Init
<1>1. TypeOK
  BY DEF TypeOK, Card, Nobody, NoGrid, Down
<1>2. Wires /\ Room
  <2>1. \A k \in Conns : up[k] = <<>> /\ down[k] = <<>>
    OBVIOUS
  <2>2. \A k \in Conns : Traffic(k) = 0
    BY <2>1 DEF Traffic
  <2> QED BY <2>1, <2>2 DEF Wires, Room, Down
<1>3. Budget
  <2>1. Waiting = 1..MaxConns
    BY DEF Waiting, Conns
  <2>2. Cardinality(Waiting) = MaxConns
    BY <2>1, FS_Interval
  <2>3. IsFiniteSet({}) /\ Cardinality({}) = 0
    BY FS_EmptySet
  <2> QED BY <2>2, <2>3 DEF Budget
<1>4. Minted /\ TokensApart /\ OneSeatEach
  BY DEF Minted, TokensApart, OneSeatEach
<1>5. HoldsFollowSessions
  <2>1. \A g \in Grids : {s \in sessions : s.grid = g} = {}
    OBVIOUS
  <2> QED BY <2>1, FS_EmptySet DEF HoldsFollowSessions
<1> QED BY <1>1, <1>2, <1>3, <1>4, <1>5 DEF IInv

LEMMA IInvStep == IInv /\ [Next]_vars => IInv'
<1> SUFFICES ASSUME IInv, [Next]_vars PROVE IInv'
  OBVIOUS
<1>1. Wires' /\ Room'
  BY WiresStep DEF IInv
<1> QED BY <1>1, TypeStep, BudgetStep, SeatsStep, HoldsStep DEF IInv

LEMMA Invariance == Spec => []IInv
<1> QED BY IInvInit, IInvStep, PTL DEF Spec

\* The server's tables, the wires and the clients are always well formed: ids and
\* tokens fit what a connection can mint, no grid has more viewers than there are
\* seats, and no wire holds more than a client puts on it.
THEOREM SessionsTyped == Spec => []TypeOK
<1>1. IInv => TypeOK
  BY DEF IInv
<1> QED BY <1>1, Invariance, PTL

\* A commander has one seat, or one row in the resume table, and never both,
\* through every order of hellos, drops, late disconnects, claims and sweeps.
THEOREM SeatsAreApart == Spec => []OneSeatEach
<1>1. IInv => OneSeatEach
  BY DEF IInv
<1> QED BY <1>1, Invariance, PTL

\* The composition root's holds and the registry's viewer counts are exactly the
\* sessions' grids, always.
THEOREM HoldsAreSessions == Spec => []HoldsFollowSessions
<1>1. IInv => HoldsFollowSessions
  BY DEF IInv
<1> QED BY <1>1, Invariance, PTL

\* A token that has resumed a session seats nobody but a stranger from then on.
THEOREM SpentForGood == Spec => TokensAreSpent
<1>1. ASSUME IInv, [Next]_vars, NEW s \in Seated, Head(up[s.conn]).token \in spent
      PROVE  s.player = nextPlayer
  <2>1. s \in sessions' /\ \A t \in sessions : t.conn # s.conn
    BY <1>1 DEF Seated
  <2>2. ASSUME NEW k \in Conns, NEW seat \in Session, NEW claimed \in SUBSET lapsed,
               Joins(k, seat, claimed)
        PROVE  s.player = nextPlayer
    <3>1. s = seat /\ s.conn = k
      BY <2>1, <2>2 DEF Joins
    <3>2. \A r \in claimed : r.token \notin spent
      BY <1>1 DEF IInv, TokensApart
    <3> QED BY <1>1, <2>2, <3>1, <3>2 DEF Joins
  <2>3. ASSUME NEW t \in sessions, NEW g \in Grids, Switches(t, g) PROVE FALSE
    <3>1. [t EXCEPT !.grid = g].conn = t.conn
      BY <1>1 DEF IInv, TypeOK, Session
    <3> QED BY <2>1, <2>3, <3>1 DEF Switches
  <2>4. ASSUME NEW t \in sessions, Leaves(t) PROVE FALSE
    BY <2>1, <2>4 DEF Leaves
  <2>5. ASSUME Turn \/ UNCHANGED serverVars PROVE FALSE
    BY <2>1, <2>5 DEF Turn, serverVars
  <2> QED BY <1>1, ServerStep, <2>2, <2>3, <2>4, <2>5
<1>2. IInv /\ [Next]_vars =>
        [\A s \in Seated : Head(up[s.conn]).token \in spent => s.player = nextPlayer]_vars
  BY <1>1
<1> QED BY <1>2, Invariance, PTL DEF Spec, TokensAreSpent

\* A row leaves the resume table claimed on its deadline or before, or given up
\* after it, whatever the catch-up ticks skip; and a commander's grid survives the
\* drop and the return.
THEOREM GraceIsKept == Spec => GraceHolds
<1>1. ASSUME IInv, [Next]_vars PROVE RowsAreClaimedInTime /\ GridsAreKept
  <2>0. TypeOK /\ Wires /\ Minted /\ OneSeatEach
    BY <1>1 DEF IInv
  <2>1. /\ tick \in Nat /\ nextPlayer \in Nat
        /\ \A r \in lapsed : r.expires \in Nat /\ r.player \in Nat /\ r.player < nextPlayer
        /\ \A s \in sessions : s.player \in Nat /\ s.player < nextPlayer
    BY <2>0 DEF TypeOK, Session, Row, Players, Minted
  <2>2. \A s, t \in sessions \cup lapsed : s.player = t.player => s = t
    BY <2>0 DEF OneSeatEach
  <2>3. ASSUME NEW k \in Conns, NEW seat \in Session, NEW claimed \in SUBSET lapsed,
               Joins(k, seat, claimed)
        PROVE  RowsAreClaimedInTime /\ GridsAreKept
    <3>1. /\ sessions' = sessions \cup {seat} /\ lapsed' = lapsed \ claimed /\ tick' = tick
          /\ \A s \in sessions : s.player # seat.player
          /\ \A r \in lapsed \ claimed : r.player # seat.player
      BY <2>3 DEF Joins
    <3>2. \/ seat.player = nextPlayer /\ \A r \in claimed : tick > r.expires
          \/ \E r \in claimed : /\ claimed = {r} /\ tick <= r.expires
                                /\ seat.player = r.player /\ seat.grid = r.grid
      BY <2>1, <2>3 DEF Joins, InTime
    <3>3. \A r \in lapsed, s \in sessions : s.player # r.player
      BY <2>0 DEF OneSeatEach
    <3>4. RowsAreClaimedInTime
      BY <2>1, <3>1, <3>2, <3>3 DEF RowsAreClaimedInTime
    <3>5. \A s \in sessions \cup lapsed : s.player = seat.player => s.grid = seat.grid
      BY <2>1, <3>1, <3>2
    <3>6. GridsAreKept
      BY <2>2, <3>1, <3>5 DEF GridsAreKept
    <3> QED BY <3>4, <3>6
  <2>4. ASSUME NEW s \in sessions, NEW g \in Grids, Switches(s, g)
        PROVE  RowsAreClaimedInTime /\ GridsAreKept
    <3> DEFINE t == [s EXCEPT !.grid = g]
    <3>1. t.player = s.player /\ t.grid = g /\ s.conn \in Conns
      BY <2>0 DEF TypeOK, Session
    <3>2. /\ sessions' = (sessions \ {s}) \cup {t} /\ lapsed' = lapsed
          /\ Heard(s.conn, "ViewRequest") /\ Head(up[s.conn]).grid = g
          /\ up' = [up EXCEPT ![s.conn] = Tail(@)]
      BY <2>4 DEF Switches
    <3>3. up'[s.conn] = Tail(up[s.conn])
      BY <2>0, <3>1, <3>2 DEF Wires
    <3> HIDE DEF t
    <3>4. GridsAreKept
      BY <2>2, <3>1, <3>2, <3>3 DEF GridsAreKept
    <3> QED BY <3>2, <3>4 DEF RowsAreClaimedInTime
  <2>5. ASSUME NEW s \in sessions, Leaves(s)
        PROVE  RowsAreClaimedInTime /\ GridsAreKept
    <3> DEFINE q == [player |-> s.player, token |-> s.token, grid |-> s.grid, expires |-> Deadline(tick)]
    <3>1. sessions' = sessions \ {s} /\ lapsed' = {r \in lapsed : r.player # s.player} \cup {q}
      BY <2>5 DEF Leaves, Lapsed
    <3>2. q.player = s.player /\ q.grid = s.grid
      OBVIOUS
    <3> HIDE DEF q
    <3>3. lapsed \ lapsed' = {}
      BY <2>0, <3>1 DEF OneSeatEach
    <3>4. GridsAreKept
      BY <2>2, <3>1, <3>2 DEF GridsAreKept
    <3> QED BY <3>3, <3>4 DEF RowsAreClaimedInTime
  <2>6. CASE Turn
    <3>1. /\ sessions' = sessions /\ lapsed' = lapsed \ Expired(tick + 1)
          /\ tick' >= tick + 1 /\ tick' \in Nat
      BY <2>1, <2>6, BoundAssumption DEF Turn
    <3>2. \A r \in lapsed \ lapsed' : tick + 1 > r.expires
      BY <3>1 DEF Expired
    <3>3. \A r \in lapsed, s \in sessions : s.player # r.player
      BY <2>0 DEF OneSeatEach
    <3>4. RowsAreClaimedInTime
      BY <2>1, <3>1, <3>2, <3>3 DEF RowsAreClaimedInTime
    <3>5. GridsAreKept
      BY <2>2, <3>1 DEF GridsAreKept
    <3> QED BY <3>4, <3>5
  <2>7. CASE UNCHANGED serverVars
    BY <2>2, <2>7 DEF serverVars, RowsAreClaimedInTime, GridsAreKept
  <2> QED BY <1>1, ServerStep, <2>3, <2>4, <2>5, <2>6, <2>7
<1> QED BY <1>1, Invariance, PTL DEF Spec, GraceHolds

=============================================================================
