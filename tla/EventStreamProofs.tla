--------------------------- MODULE EventStreamProofs ---------------------------
(***************************************************************************)
(* The hub and the stream of a session's events: an inductive invariant of *)
(* the hub's channels and pumps, kept by every step of the hub, of the     *)
(* subscriber and of a connection, and one of the log, the requests and    *)
(* the guest's client on top of it.                                        *)
(***************************************************************************)
EXTENDS EventStream, TLAPS

(* What an append, a tail and a head are, for the provers. *)
LEMMA AppendFacts ==
  ASSUME NEW S, NEW q \in Seq(S), NEW x \in S
  PROVE  /\ Append(q, x) \in Seq(S) /\ Len(Append(q, x)) = Len(q) + 1
         /\ \A i \in 1..Len(q) : Append(q, x)[i] = q[i]
         /\ Append(q, x)[Len(q) + 1] = x
  OBVIOUS

LEMMA TailFacts ==
  ASSUME NEW S, NEW q \in Seq(S), q # << >>
  PROVE  /\ Head(q) \in S /\ Head(q) = q[1]
         /\ Len(q) \in Nat /\ Len(q) >= 1
         /\ Tail(q) \in Seq(S) /\ Len(Tail(q)) = Len(q) - 1
         /\ \A i \in 1..Len(Tail(q)) : Tail(q)[i] = q[i + 1]
  OBVIOUS

-----------------------------------------------------------------------------
(* The events among the messages of a channel. *)

\* EventsOf with the lengths of the two sequences as numbers.
Matches(at, n, o, l, q) ==
  /\ at \in [1..n -> 1..l]
  /\ \A i \in 1..n : o[i] # Pong /\ q[at[i]] = o[i]
  /\ \A i, j \in 1..n : i < j => at[i] < at[j]
  /\ \A k \in 1..l : q[k] # Pong => \E i \in 1..n : at[i] = k

\* oo is the first n of o and then m.
Added(oo, o, n, m) == oo[n + 1] = m /\ \A i \in 1..n : oo[i] = o[i]

LEMMA EventsOfMatches ==
  ASSUME NEW o, NEW q
  PROVE  EventsOf(o, q) <=> \E at : Matches(at, Len(o), o, Len(q), q)
BY DEF EventsOf, Matches

LEMMA EventsOfPongs ==
  ASSUME NEW q \in Seq(Nat), \A k \in 1..Len(q) : q[k] = Pong
  PROVE  EventsOf(<< >>, q)
<1> DEFINE at == [i \in 1..Len(<< >>) |-> 1]
<1>1. at \in [1..Len(<< >>) -> 1..Len(q)]
  OBVIOUS
<1>2. 1..Len(<< >>) = {}
  OBVIOUS
<1> HIDE DEF at
<1> QED
  BY <1>1, <1>2 DEF EventsOf

\* An event at the end of both.
LEMMA MatchesMore ==
  ASSUME NEW n \in Nat, NEW l \in Nat, NEW o, NEW q, NEW oo, NEW qq, NEW at,
         Matches(at, n, o, l, q), NEW m, m # Pong,
         Added(oo, o, n, m), Added(qq, q, l, m)
  PROVE  \E b : Matches(b, n + 1, oo, l + 1, qq)
<1> DEFINE b == [i \in 1..n+1 |-> IF i = n + 1 THEN l + 1 ELSE at[i]]
<1>1. \A i \in 1..n : at[i] \in 1..l
  BY DEF Matches
<1>2. b \in [1..n+1 -> 1..l+1]
  BY <1>1
<1>3. b[n+1] = l + 1 /\ \A i \in 1..n : b[i] = at[i]
  OBVIOUS
<1> HIDE DEF b
<1>4. \A i \in 1..n+1 : oo[i] # Pong /\ qq[b[i]] = oo[i]
  <2> TAKE i \in 1..n+1
  <2>1. CASE i = n + 1
    BY <2>1, <1>3 DEF Added
  <2>2. CASE i \in 1..n
    BY <2>2, <1>1, <1>3 DEF Matches, Added
  <2> QED BY <2>1, <2>2
<1>5. \A i, j \in 1..n+1 : i < j => b[i] < b[j]
  <2> TAKE i, j \in 1..n+1
  <2> SUFFICES ASSUME i < j PROVE b[i] < b[j]
    OBVIOUS
  <2>1. CASE j = n + 1
    BY <2>1, <1>1, <1>3
  <2>2. CASE j \in 1..n
    <3>1. i \in 1..n
       BY <2>2
    <3> QED BY <2>2, <3>1, <1>3 DEF Matches
  <2> QED BY <2>1, <2>2
<1>6. \A k \in 1..l+1 : qq[k] # Pong => \E i \in 1..n+1 : b[i] = k
  <2> SUFFICES ASSUME NEW k \in 1..l+1, qq[k] # Pong
               PROVE  \E i \in 1..n+1 : b[i] = k
    OBVIOUS
  <2>1. CASE k = l + 1
    BY <1>3, <2>1 DEF Added
  <2>2. CASE k \in 1..l
    <3>1. PICK i \in 1..n : at[i] = k
      BY <2>2 DEF Matches, Added
    <3> QED
      BY <3>1, <1>3
  <2> QED
    BY <2>1, <2>2
<1>7. Matches(b, n+1, oo, l+1, qq)
  BY <1>2, <1>4, <1>5, <1>6 DEF Matches
<1> QED BY <1>7

\* A pong at the end of the channel.
LEMMA MatchesPong ==
  ASSUME NEW n \in Nat, NEW l \in Nat, NEW o, NEW q, NEW qq, NEW at,
         Matches(at, n, o, l, q),
         \A i \in 1..l : qq[i] = q[i], qq[l + 1] = Pong
  PROVE  Matches(at, n, o, l + 1, qq)
<1>1. \A i \in 1..n : at[i] \in 1..l
  BY DEF Matches
<1>2. at \in [1..n -> 1..l+1]
  BY <1>1 DEF Matches
<1>3. \A k \in 1..l+1 : qq[k] # Pong => \E i \in 1..n : at[i] = k
  <2> SUFFICES ASSUME NEW k \in 1..l+1, qq[k] # Pong
               PROVE  \E i \in 1..n : at[i] = k
    OBVIOUS
  <2>1. k \in 1..l
    OBVIOUS
  <2> QED
    BY <2>1 DEF Matches
<1> QED
  BY <1>1, <1>2, <1>3 DEF Matches

\* A pong at the head of the channel.
LEMMA MatchesWithoutPong ==
  ASSUME NEW n \in Nat, NEW l \in Nat, l >= 1, NEW o, NEW q, NEW qq, NEW at,
         Matches(at, n, o, l, q), q[1] = Pong,
         \A i \in 1..l-1 : qq[i] = q[i + 1]
  PROVE  \E b : Matches(b, n, o, l - 1, qq)
<1> DEFINE b == [i \in 1..n |-> at[i] - 1]
<1>1. \A i \in 1..n : at[i] \in 2..l
  <2> TAKE i \in 1..n
  <2>1. at[i] # 1 /\ at[i] \in 1..l
    BY DEF Matches
  <2> QED
    BY <2>1
<1>2. b \in [1..n -> 1..l-1]
  BY <1>1
<1>3. \A i \in 1..n : b[i] = at[i] - 1
  OBVIOUS
<1> HIDE DEF b
<1>4. \A i \in 1..n : o[i] # Pong /\ qq[b[i]] = o[i]
  <2> TAKE i \in 1..n
  <2>1. b[i] \in 1..l-1 /\ b[i] + 1 = at[i]
    BY <1>1, <1>3
  <2> QED
    BY <2>1 DEF Matches
<1>5. \A i, j \in 1..n : i < j => b[i] < b[j]
  BY <1>1, <1>3 DEF Matches
<1>6. \A k \in 1..l-1 : qq[k] # Pong => \E i \in 1..n : b[i] = k
  <2> SUFFICES ASSUME NEW k \in 1..l-1, qq[k] # Pong
               PROVE  \E i \in 1..n : b[i] = k
    OBVIOUS
  <2>1. k + 1 \in 1..l /\ q[k + 1] # Pong
    OBVIOUS
  <2>2. PICK i \in 1..n : at[i] = k + 1
    BY <2>1 DEF Matches
  <2> QED
    BY <2>2, <1>3
<1>7. Matches(b, n, o, l - 1, qq)
  BY <1>2, <1>4, <1>5, <1>6 DEF Matches
<1> QED
  BY <1>7

\* An event at the head of the channel.
LEMMA MatchesSome ==
  ASSUME NEW n \in Nat, NEW l \in Nat, l >= 1, NEW o, NEW q, NEW at,
         Matches(at, n, o, l, q), q[1] # Pong
  PROVE  n >= 1
<1>1. PICK first \in 1..n : at[first] = 1
  BY DEF Matches
<1> QED
  BY <1>1

LEMMA MatchesWithoutEvent ==
  ASSUME NEW n \in Nat, NEW l \in Nat, l >= 1, NEW o, NEW q, NEW oo, NEW qq, NEW at,
         Matches(at, n, o, l, q), q[1] # Pong,
         \A i \in 1..l-1 : qq[i] = q[i + 1],
         \A i \in 1..n-1 : oo[i] = o[i + 1]
  PROVE  \E b : Matches(b, n - 1, oo, l - 1, qq)
<1> DEFINE b == [i \in 1..n-1 |-> at[i + 1] - 1]
<1>1. PICK first \in 1..n : at[first] = 1
  BY DEF Matches
<1>2. n >= 1 /\ at[1] = 1
  <2>1. 1 \in 1..n /\ at[1] \in 1..l
    BY <1>1 DEF Matches
  <2>2. 1 < first => at[1] < at[first]
    BY <2>1, <1>1 DEF Matches
  <2> QED
    BY <2>1, <2>2, <1>1
<1>3. \A i \in 1..n-1 : at[i + 1] \in 2..l
  <2> TAKE i \in 1..n-1
  <2>1. i + 1 \in 1..n /\ 1 \in 1..n /\ 1 < i + 1
    OBVIOUS
  <2>2. at[1] < at[i + 1] /\ at[i + 1] \in 1..l
    BY <2>1 DEF Matches
  <2> QED
    BY <2>2, <1>2
<1>4. b \in [1..n-1 -> 1..l-1]
  BY <1>3
<1>5. \A i \in 1..n-1 : b[i] = at[i + 1] - 1
  OBVIOUS
<1> HIDE DEF b
<1>6. \A i \in 1..n-1 : oo[i] # Pong /\ qq[b[i]] = oo[i]
  <2> TAKE i \in 1..n-1
  <2>1. b[i] \in 1..l-1 /\ b[i] + 1 = at[i + 1] /\ i + 1 \in 1..n
    BY <1>3, <1>5
  <2>2. o[i + 1] # Pong /\ q[at[i + 1]] = o[i + 1]
    BY <2>1 DEF Matches
  <2> QED
    BY <2>1, <2>2
<1>7. \A i, j \in 1..n-1 : i < j => b[i] < b[j]
  <2> SUFFICES ASSUME NEW i \in 1..n-1, NEW j \in 1..n-1, i < j
               PROVE  b[i] < b[j]
    OBVIOUS
  <2>1. i + 1 \in 1..n /\ j + 1 \in 1..n /\ i + 1 < j + 1
    OBVIOUS
  <2>2. at[i + 1] < at[j + 1]
    BY <2>1 DEF Matches
  <2> QED
    BY <2>2, <1>3, <1>5
<1>8. \A k \in 1..l-1 : qq[k] # Pong => \E i \in 1..n-1 : b[i] = k
  <2> SUFFICES ASSUME NEW k \in 1..l-1, qq[k] # Pong
               PROVE  \E i \in 1..n-1 : b[i] = k
    OBVIOUS
  <2>1. k + 1 \in 1..l /\ q[k + 1] # Pong
    OBVIOUS
  <2>2. PICK i \in 1..n : at[i] = k + 1
    BY <2>1 DEF Matches
  <2>3. i # 1
    BY <2>2, <1>2
  <2>4. i - 1 \in 1..n-1 /\ i - 1 + 1 = i
    BY <2>2, <2>3
  <2> QED
    BY <2>2, <2>4, <1>5
<1>9. Matches(b, n - 1, oo, l - 1, qq)
  BY <1>4, <1>6, <1>7, <1>8 DEF Matches
<1> QED
  BY <1>9

LEMMA EventsOfAppendEvent ==
  ASSUME NEW q \in Seq(Nat), NEW o \in Seq(Nat), EventsOf(o, q),
         NEW m \in Nat, m # Pong
  PROVE  EventsOf(Append(o, m), Append(q, m))
<1> DEFINE oo == Append(o, m)
           qq == Append(q, m)
<1>1. PICK at : Matches(at, Len(o), o, Len(q), q)
  BY EventsOfMatches
<1>2. /\ Len(oo) = Len(o) + 1 /\ oo[Len(o) + 1] = m
      /\ \A i \in 1..Len(o) : oo[i] = o[i]
  BY AppendFacts
<1>3. /\ Len(qq) = Len(q) + 1 /\ qq[Len(q) + 1] = m
      /\ \A i \in 1..Len(q) : qq[i] = q[i]
  BY AppendFacts
<1>4. Len(o) \in Nat /\ Len(q) \in Nat
  OBVIOUS
<1> HIDE DEF oo, qq
<1>5. Added(oo, o, Len(o), m) /\ Added(qq, q, Len(q), m)
  BY <1>2, <1>3 DEF Added
<1>6. \E b : Matches(b, Len(o) + 1, oo, Len(q) + 1, qq)
  BY <1>1, <1>4, <1>5, MatchesMore
<1>7. EventsOf(oo, qq)
  BY <1>2, <1>3, <1>6, EventsOfMatches
<1> QED
  BY <1>7 DEF oo, qq

LEMMA EventsOfAppendPong ==
  ASSUME NEW q \in Seq(Nat), NEW o \in Seq(Nat), EventsOf(o, q)
  PROVE  EventsOf(o, Append(q, Pong))
<1> DEFINE qq == Append(q, Pong)
<1>1. PICK at : Matches(at, Len(o), o, Len(q), q)
  BY EventsOfMatches
<1>2. /\ Len(qq) = Len(q) + 1 /\ qq[Len(q) + 1] = Pong
      /\ \A i \in 1..Len(q) : qq[i] = q[i]
  BY AppendFacts DEF Pong
<1>3. Len(o) \in Nat /\ Len(q) \in Nat
  OBVIOUS
<1> HIDE DEF qq
<1>4. Matches(at, Len(o), o, Len(q) + 1, qq)
  BY <1>1, <1>2, <1>3, MatchesPong
<1>5. EventsOf(o, qq)
  BY <1>2, <1>4, EventsOfMatches
<1> QED
  BY <1>5 DEF qq

LEMMA EventsOfTailPong ==
  ASSUME NEW q \in Seq(Nat), NEW o \in Seq(Nat), EventsOf(o, q),
         q # << >>, Head(q) = Pong
  PROVE  EventsOf(o, Tail(q))
<1> DEFINE qq == Tail(q)
<1>1. PICK at : Matches(at, Len(o), o, Len(q), q)
  BY EventsOfMatches
<1>2. /\ q[1] = Pong /\ Len(q) \in Nat /\ Len(q) >= 1 /\ Len(qq) = Len(q) - 1
      /\ \A i \in 1..Len(q)-1 : qq[i] = q[i + 1]
  BY TailFacts
<1>3. Len(o) \in Nat
  OBVIOUS
<1> HIDE DEF qq
<1>4. \E b : Matches(b, Len(o), o, Len(q) - 1, qq)
  BY <1>1, <1>2, <1>3, MatchesWithoutPong
<1>5. EventsOf(o, qq)
  BY <1>2, <1>4, EventsOfMatches
<1> QED
  BY <1>5 DEF qq

LEMMA EventsOfTailEvent ==
  ASSUME NEW q \in Seq(Nat), NEW o \in Seq(Nat), EventsOf(o, q),
         q # << >>, Head(q) # Pong
  PROVE  o # << >> /\ EventsOf(Tail(o), Tail(q))
<1> DEFINE oo == Tail(o)
           qq == Tail(q)
<1>1. PICK at : Matches(at, Len(o), o, Len(q), q)
  BY EventsOfMatches
<1>2. /\ q[1] # Pong /\ Len(q) \in Nat /\ Len(q) >= 1 /\ Len(qq) = Len(q) - 1
      /\ \A i \in 1..Len(q)-1 : qq[i] = q[i + 1]
  BY TailFacts
<1>3. Len(o) \in Nat
  OBVIOUS
<1> HIDE DEF oo, qq
<1>4. Len(o) >= 1
  BY <1>1, <1>2, <1>3, MatchesSome
<1>5. o # << >>
  BY <1>4
<1>6. Len(oo) = Len(o) - 1 /\ \A i \in 1..Len(o)-1 : oo[i] = o[i + 1]
  BY <1>5, TailFacts DEF oo
<1>7. \E b : Matches(b, Len(o) - 1, oo, Len(q) - 1, qq)
  BY <1>1, <1>2, <1>3, <1>6, MatchesWithoutEvent
<1>8. EventsOf(oo, qq)
  BY <1>2, <1>6, <1>7, EventsOfMatches
<1> QED
  BY <1>5, <1>8 DEF oo, qq

-----------------------------------------------------------------------------
(* The inductive invariant of the hub. *)

(* A connection waits at most once to enter the room, and is not in it.       *)
RegisteredOnce ==
  /\ \A i, j \in 1..Len(register) : register[i] = register[j] => i = j
  /\ \A i \in 1..Len(register) : register[i] \notin room

(* Until it enters, nothing but pongs was sent to it: it owes no event.       *)
RegisteredIsQuiet ==
  \A i \in 1..Len(register) :
    \A k \in 1..Len(send[register[i]]) : send[register[i]][k] = Pong

(* What the hub was asked to forget has closed its socket.                    *)
UnregisteredIsClosed == \A i \in 1..Len(unregister) : conn[unregister[i]] # "open"

(* An open socket has its writePump, which is what closes it.                 *)
OpenIsWritten == \A c \in Sockets : conn[c] = "open" => writer[c]

BroadcastsEvents == \A i \in 1..Len(broadcast) : broadcast[i] # Pong

HubInv ==
  /\ TypeOKHub /\ RegisteredOnce /\ RegisteredIsQuiet /\ UnregisteredIsClosed
  /\ OpenIsWritten /\ BroadcastsEvents /\ NobodyDeaf /\ NoSilentGap

(* No message has a number above n.                                           *)
Known(n) ==
  /\ \A i \in 1..Len(broadcast) : broadcast[i] <= n
  /\ \A c \in Sockets : \A i \in 1..Len(send[c]) : send[c][i] <= n

LEMMA HubStart == HubInit => HubInv /\ \A n : Known(n)
<1> SUFFICES ASSUME HubInit PROVE HubInv /\ \A n : Known(n)
  OBVIOUS
<1> USE DEF HubInit
<1>1. TypeOKHub
  BY DEF TypeOKHub
<1>2. RegisteredOnce /\ RegisteredIsQuiet /\ UnregisteredIsClosed /\ BroadcastsEvents
  BY DEF RegisteredOnce, RegisteredIsQuiet, UnregisteredIsClosed, BroadcastsEvents
<1>3. OpenIsWritten /\ NobodyDeaf /\ NoSilentGap
  BY DEF OpenIsWritten, NobodyDeaf, NoSilentGap
<1>4. \A n : Known(n)
  BY DEF Known
<1> QED
  BY <1>1, <1>2, <1>3, <1>4 DEF HubInv

LEMMA EndKeeps ==
  ASSUME HubInv, NEW n \in Nat, NEW how \in {"down", "panicked"}, End(how)
  PROVE  HubInv' /\ Known(n)'
<1> USE DEF End
<1>1. TypeOKHub'
  <2>1. proc' \in {"up", "draining", "down", "panicked"} /\ subscribed' \in BOOLEAN
    OBVIOUS
  <2>2. /\ room' \subseteq Sockets /\ register' \in Seq(Sockets)
        /\ unregister' \in Seq(Sockets) /\ broadcast' \in Seq(Nat)
    OBVIOUS
  <2>3. conn' \in [Sockets -> {"free", "open", "closed"}]
    BY DEF TypeOKHub, HubInv
  <2>4. /\ reader' \in [Sockets -> BOOLEAN] /\ writer' \in [Sockets -> BOOLEAN]
        /\ sendClosed' \in [Sockets -> BOOLEAN]
    OBVIOUS
  <2>5. send' \in [Sockets -> Seq(Nat)] /\ owed' \in [Sockets -> Seq(Nat)]
    OBVIOUS
  <2> QED
    BY <2>1, <2>2, <2>3, <2>4, <2>5 DEF TypeOKHub
<1>2. /\ RegisteredOnce' /\ RegisteredIsQuiet' /\ UnregisteredIsClosed'
      /\ BroadcastsEvents'
  BY DEF RegisteredOnce, RegisteredIsQuiet, UnregisteredIsClosed, BroadcastsEvents
<1>3. OpenIsWritten' /\ NobodyDeaf' /\ NoSilentGap'
  BY DEF OpenIsWritten, NobodyDeaf, NoSilentGap
<1>4. Known(n)'
  BY DEF Known
<1> QED
  BY <1>1, <1>2, <1>3, <1>4 DEF HubInv

LEMMA SubscriptionKeeps ==
  ASSUME HubInv, NEW n \in Nat, Known(n),
         Restart \/ LoseSubscription \/ Resubscribe
  PROVE  HubInv' /\ Known(n)'
<1> USE DEF Restart, LoseSubscription, Resubscribe, queues, pumps, HubInv
<1>1. TypeOKHub'
  BY DEF TypeOKHub
<1>2. /\ RegisteredOnce' /\ RegisteredIsQuiet' /\ UnregisteredIsClosed'
      /\ BroadcastsEvents'
  BY DEF RegisteredOnce, RegisteredIsQuiet, UnregisteredIsClosed, BroadcastsEvents
<1>3. OpenIsWritten' /\ NobodyDeaf'
  BY DEF OpenIsWritten, NobodyDeaf
<1>4. NoSilentGap'
  BY DEF NoSilentGap
<1>5. Known(n)'
  BY DEF Known
<1> QED
  BY <1>1, <1>2, <1>3, <1>4, <1>5

LEMMA drainAllKeeps ==
  ASSUME HubInv, NEW n \in Nat, Known(n), drainAll
  PROVE  HubInv' /\ Known(n)'
<1> USE DEF drainAll, queues, pumps, HubInv
<1>1. TypeOKHub'
  BY DEF TypeOKHub
<1>2. /\ RegisteredOnce' /\ RegisteredIsQuiet' /\ UnregisteredIsClosed'
      /\ BroadcastsEvents'
  BY DEF RegisteredOnce, RegisteredIsQuiet, UnregisteredIsClosed, BroadcastsEvents
<1>3. OpenIsWritten' /\ NoSilentGap'
  BY DEF OpenIsWritten, NoSilentGap
<1>4. NobodyDeaf'
  BY DEF OpenIsWritten, NobodyDeaf
<1>5. Known(n)'
  BY DEF Known
<1> QED
  BY <1>1, <1>2, <1>3, <1>4, <1>5

LEMMA PublishKeeps ==
  ASSUME HubInv, NEW n \in Nat, Known(n),
         NEW m \in Nat, m # Pong, m <= n, Publish(m)
  PROVE  HubInv' /\ Known(n)'
<1> USE DEF HubInv
<1>1. broadcast \in Seq(Nat)
  BY DEF TypeOKHub
<1>2. /\ broadcast' \in Seq(Nat)
      /\ \A i \in 1..Len(broadcast') : broadcast'[i] # Pong /\ broadcast'[i] <= n
  <2>1. CASE broadcast' = broadcast
    BY <1>1, <2>1 DEF BroadcastsEvents, Known
  <2>2. CASE broadcast' = Append(broadcast, m)
    <3> DEFINE b == Append(broadcast, m)
    <3>1. /\ b \in Seq(Nat) /\ Len(b) = Len(broadcast) + 1
          /\ \A i \in 1..Len(broadcast) : b[i] = broadcast[i]
          /\ b[Len(broadcast) + 1] = m
      BY <1>1, AppendFacts
    <3>2. Len(broadcast) \in Nat
      BY <1>1
    <3> HIDE DEF b
    <3>3. ASSUME NEW i \in 1..Len(b) PROVE b[i] # Pong /\ b[i] <= n
      <4>1. CASE i \in 1..Len(broadcast)
        BY <3>1, <4>1 DEF BroadcastsEvents, Known
      <4>2. CASE i = Len(broadcast) + 1
        BY <3>1, <4>2
      <4> QED
        BY <3>1, <3>2, <3>3, <4>1, <4>2
    <3> QED
      BY <2>2, <3>1, <3>3 DEF b
  <2> QED
    BY <2>1, <2>2 DEF Publish
<1> USE DEF Publish, pumps
<1>3. TypeOKHub'
  BY <1>2 DEF TypeOKHub
<1>4. RegisteredOnce' /\ RegisteredIsQuiet' /\ UnregisteredIsClosed'
  BY DEF RegisteredOnce, RegisteredIsQuiet, UnregisteredIsClosed
<1>5. OpenIsWritten' /\ NobodyDeaf' /\ NoSilentGap'
  BY DEF OpenIsWritten, NobodyDeaf, NoSilentGap
<1>6. BroadcastsEvents' /\ Known(n)'
  BY <1>2 DEF BroadcastsEvents, Known
<1> QED
  BY <1>3, <1>4, <1>5, <1>6

LEMMA addToRoomKeeps ==
  ASSUME HubInv, NEW n \in Nat, Known(n), addToRoom
  PROVE  HubInv' /\ Known(n)'
<1> DEFINE h == Head(register)
<1>1. register \in Seq(Sockets) /\ register # << >>
  BY DEF TypeOKHub, HubInv, addToRoom
<1>2. /\ h \in Sockets /\ h = register[1] /\ Len(register) \in Nat /\ Len(register) >= 1
      /\ Tail(register) \in Seq(Sockets) /\ Len(Tail(register)) = Len(register) - 1
      /\ \A i \in 1..Len(Tail(register)) : Tail(register)[i] = register[i + 1]
  BY <1>1, TailFacts
<1>3. /\ room' = room \cup {h} /\ register' = Tail(register)
      /\ owed' = [owed EXCEPT ![h] = << >>]
      /\ send' = send /\ sendClosed' = sendClosed /\ conn' = conn /\ writer' = writer
      /\ reader' = reader /\ proc' = proc /\ subscribed' = subscribed
      /\ unregister' = unregister /\ broadcast' = broadcast
  BY DEF addToRoom, pumps
<1> HIDE DEF h
<1>4. /\ Len(register') = Len(register) - 1
      /\ \A i \in 1..Len(register') : i + 1 \in 1..Len(register) /\ register'[i] = register[i + 1]
  BY <1>2, <1>3
<1>5. TypeOKHub'
  BY <1>2, <1>3 DEF TypeOKHub, HubInv
<1>6. RegisteredOnce'
  <2>1. ASSUME NEW i \in 1..Len(register'), NEW j \in 1..Len(register'),
               register'[i] = register'[j]
        PROVE  i = j
    <3>1. register[i + 1] = register[j + 1]
      BY <1>4, <2>1
    <3>2. i + 1 = j + 1
      BY <1>4, <2>1, <3>1 DEF RegisteredOnce, HubInv
    <3> QED
      BY <3>2
  <2>2. ASSUME NEW i \in 1..Len(register') PROVE register'[i] \notin room'
    <3>1. i + 1 \in 1..Len(register) /\ i + 1 # 1 /\ 1 \in 1..Len(register)
      BY <1>2, <1>4
    <3>2. register[i + 1] # register[1] /\ register[i + 1] \notin room
      BY <3>1 DEF RegisteredOnce, HubInv
    <3> QED
      BY <1>2, <1>3, <1>4, <3>2
  <2> QED
    BY <2>1, <2>2 DEF RegisteredOnce
<1>7. RegisteredIsQuiet'
  BY <1>3, <1>4 DEF RegisteredIsQuiet, HubInv
<1>8. UnregisteredIsClosed' /\ OpenIsWritten' /\ BroadcastsEvents' /\ Known(n)'
  BY <1>3 DEF UnregisteredIsClosed, OpenIsWritten, BroadcastsEvents, Known, HubInv
<1>9. NobodyDeaf'
  <2> SUFFICES ASSUME NEW c \in Sockets, conn[c] = "open", c \notin room', ~ sendClosed[c]
               PROVE  \E i \in 1..Len(register') : register'[i] = c
    BY <1>3 DEF NobodyDeaf, OpenIsWritten, HubInv
  <2>1. PICK i \in 1..Len(register) : register[i] = c
    BY <1>3 DEF NobodyDeaf, HubInv
  <2>2. i # 1
    BY <1>2, <1>3, <2>1
  <2>3. i - 1 \in 1..Len(register') /\ (i - 1) + 1 = i
    BY <1>2, <1>4, <2>2
  <2> QED
    BY <1>4, <2>1, <2>3
<1>10. NoSilentGap'
  <2> SUFFICES ASSUME NEW c \in room' PROVE sendClosed[c] \/ EventsOf(owed'[c], send[c])
    BY <1>3 DEF NoSilentGap
  <2>1. CASE c = h
    <3>1. \A k \in 1..Len(send[h]) : send[h][k] = Pong
      BY <1>2 DEF RegisteredIsQuiet, HubInv
    <3>2. send[h] \in Seq(Nat) /\ owed'[h] = << >>
      BY <1>2, <1>3 DEF TypeOKHub, HubInv
    <3> QED
      BY <2>1, <3>1, <3>2, EventsOfPongs
  <2>2. CASE c # h
    <3>1. c \in room /\ owed'[c] = owed[c]
      BY <1>3, <2>2 DEF TypeOKHub, HubInv
    <3> QED
      BY <3>1 DEF NoSilentGap, HubInv
  <2> QED
    BY <2>1, <2>2
<1> QED
  BY <1>5, <1>6, <1>7, <1>8, <1>9, <1>10 DEF HubInv

LEMMA removeFromRoomKeeps ==
  ASSUME HubInv, NEW n \in Nat, Known(n), removeFromRoom
  PROVE  HubInv' /\ Known(n)'
<1> DEFINE h == Head(unregister)
<1>1. unregister \in Seq(Sockets) /\ unregister # << >>
  BY DEF TypeOKHub, HubInv, removeFromRoom
<1>2. /\ h \in Sockets /\ h = unregister[1] /\ Len(unregister) \in Nat /\ Len(unregister) >= 1
      /\ Tail(unregister) \in Seq(Sockets) /\ Len(Tail(unregister)) = Len(unregister) - 1
      /\ \A i \in 1..Len(Tail(unregister)) : Tail(unregister)[i] = unregister[i + 1]
  BY <1>1, TailFacts
<1>3. /\ room' = room \ {h} /\ unregister' = Tail(unregister)
      /\ sendClosed' = [sendClosed EXCEPT ![h] = TRUE]
      /\ send' = send /\ owed' = owed /\ conn' = conn /\ writer' = writer
      /\ reader' = reader /\ proc' = proc /\ subscribed' = subscribed
      /\ register' = register /\ broadcast' = broadcast
  BY DEF removeFromRoom, pumps
<1> HIDE DEF h
<1>4. TypeOKHub'
  BY <1>2, <1>3 DEF TypeOKHub, HubInv
<1>5. /\ RegisteredOnce' /\ RegisteredIsQuiet' /\ OpenIsWritten' /\ BroadcastsEvents'
      /\ Known(n)'
  BY <1>3 DEF RegisteredOnce, RegisteredIsQuiet, OpenIsWritten, BroadcastsEvents,
              Known, HubInv
<1>6. UnregisteredIsClosed'
  BY <1>2, <1>3 DEF UnregisteredIsClosed, HubInv
<1>7. \A c \in Sockets : sendClosed[c] => sendClosed'[c]
  BY <1>3 DEF TypeOKHub, HubInv
<1>8. NobodyDeaf'
  <2>1. conn[h] # "open"
    BY <1>2 DEF UnregisteredIsClosed, HubInv
  <2> QED
    BY <1>3, <1>7, <2>1 DEF NobodyDeaf, HubInv
<1>9. NoSilentGap'
  BY <1>3, <1>7 DEF NoSilentGap, TypeOKHub, HubInv
<1> QED
  BY <1>4, <1>5, <1>6, <1>8, <1>9 DEF HubInv

LEMMA broadcastToRoomKeeps ==
  ASSUME HubInv, NEW n \in Nat, Known(n), broadcastToRoom
  PROVE  HubInv' /\ Known(n)'
<1>1. CASE \E c \in room : sendClosed[c]
  BY <1>1, EndKeeps DEF broadcastToRoom, Fanout
<1>2. CASE ~ \E c \in room : sendClosed[c]
  <2> DEFINE m == Head(broadcast)
  <2>1. broadcast \in Seq(Nat) /\ broadcast # << >>
    BY DEF TypeOKHub, HubInv, broadcastToRoom, Fanout
  <2>2. /\ m \in Nat /\ m = broadcast[1] /\ Len(broadcast) \in Nat /\ Len(broadcast) >= 1
        /\ Tail(broadcast) \in Seq(Nat) /\ Len(Tail(broadcast)) = Len(broadcast) - 1
        /\ \A i \in 1..Len(Tail(broadcast)) : Tail(broadcast)[i] = broadcast[i + 1]
    BY <2>1, TailFacts
  <2>3. m # Pong /\ m <= n
    BY <2>2 DEF BroadcastsEvents, Known, HubInv
  <2>4. /\ room' = room \ Slow /\ broadcast' = Tail(broadcast)
        /\ send' = [c \in Sockets |->
                      IF c \in room /\ ~Full(c) THEN Append(send[c], m) ELSE send[c]]
        /\ sendClosed' = [c \in Sockets |-> sendClosed[c] \/ c \in Slow]
        /\ owed' = [c \in Sockets |-> IF c \in room THEN Append(owed[c], m) ELSE owed[c]]
        /\ conn' = conn /\ writer' = writer /\ reader' = reader
        /\ proc' = proc /\ subscribed' = subscribed
        /\ register' = register /\ unregister' = unregister
    BY <1>2 DEF broadcastToRoom, Fanout, pumps
  <2> HIDE DEF m
  <2>5. /\ room \subseteq Sockets /\ sendClosed \in [Sockets -> BOOLEAN]
        /\ \A c \in Sockets : send[c] \in Seq(Nat) /\ owed[c] \in Seq(Nat)
    BY DEF TypeOKHub, HubInv
  <2>6. ASSUME NEW c \in Sockets
        PROVE  /\ Append(send[c], m) \in Seq(Nat) /\ Append(owed[c], m) \in Seq(Nat)
               /\ Len(Append(send[c], m)) = Len(send[c]) + 1
               /\ \A i \in 1..Len(send[c]) : Append(send[c], m)[i] = send[c][i]
               /\ Append(send[c], m)[Len(send[c]) + 1] = m
    BY <2>2, <2>5, AppendFacts
  <2>7. TypeOKHub'
    <3>1. send' \in [Sockets -> Seq(Nat)] /\ owed' \in [Sockets -> Seq(Nat)]
      BY <2>4, <2>5, <2>6
    <3>2. sendClosed' \in [Sockets -> BOOLEAN]
      BY <2>4
    <3> QED
      BY <2>2, <2>4, <3>1, <3>2 DEF TypeOKHub, HubInv
  <2>8. RegisteredOnce' /\ UnregisteredIsClosed' /\ OpenIsWritten'
    BY <2>4 DEF RegisteredOnce, UnregisteredIsClosed, OpenIsWritten, HubInv
  <2>9. RegisteredIsQuiet'
    <3> SUFFICES ASSUME NEW i \in 1..Len(register)
                 PROVE  send'[register[i]] = send[register[i]]
      BY <2>4 DEF RegisteredIsQuiet, HubInv
    <3>1. register[i] \in Sockets /\ register[i] \notin room
      BY DEF RegisteredOnce, TypeOKHub, HubInv
    <3> QED
      BY <2>4, <3>1
  <2>10. BroadcastsEvents'
    BY <2>2, <2>4 DEF BroadcastsEvents, HubInv
  <2>11. NobodyDeaf'
    <3> SUFFICES ASSUME NEW c \in Sockets, conn[c] = "open"
                 PROVE  \/ c \in room' \/ (sendClosed'[c] /\ writer[c])
                        \/ \E i \in 1..Len(register) : register[i] = c
      BY <2>4 DEF NobodyDeaf
    <3>1. writer[c]
      BY DEF OpenIsWritten, HubInv
    <3>2. \/ c \in room \/ (sendClosed[c] /\ writer[c])
          \/ \E i \in 1..Len(register) : register[i] = c
      BY DEF NobodyDeaf, HubInv
    <3> QED
      BY <2>4, <3>1, <3>2
  <2>12. NoSilentGap'
    <3> SUFFICES ASSUME NEW c \in room, c \notin Slow
                 PROVE  EventsOf(owed'[c], send'[c])
      BY <2>4 DEF NoSilentGap
    <3>1. c \in Sockets /\ ~Full(c) /\ EventsOf(owed[c], send[c])
      BY <1>2, <2>5 DEF Slow, NoSilentGap, HubInv
    <3>2. send'[c] = Append(send[c], m) /\ owed'[c] = Append(owed[c], m)
      BY <2>4, <3>1
    <3> QED
      BY <2>2, <2>3, <2>5, <3>1, <3>2, EventsOfAppendEvent
  <2>13. Known(n)'
    <3>1. \A i \in 1..Len(broadcast') : broadcast'[i] <= n
      BY <2>2, <2>4 DEF Known
    <3>2. ASSUME NEW c \in Sockets, NEW i \in 1..Len(send'[c])
          PROVE  send'[c][i] <= n
      <4>1. CASE send'[c] = send[c]
        BY <4>1 DEF Known
      <4>2. CASE send'[c] = Append(send[c], m)
        <5>1. Len(send[c]) \in Nat /\ i \in 1..Len(send[c]) + 1
          BY <2>5, <2>6, <3>2, <4>2
        <5>2. CASE i \in 1..Len(send[c])
          BY <2>6, <4>2, <5>2 DEF Known
        <5>3. CASE i = Len(send[c]) + 1
          BY <2>3, <2>6, <4>2, <5>3
        <5> QED
          BY <5>1, <5>2, <5>3
      <4> QED
        BY <2>4, <4>1, <4>2
    <3> QED
      BY <3>1, <3>2 DEF Known
  <2> QED
    BY <2>7, <2>8, <2>9, <2>10, <2>11, <2>12, <2>13 DEF HubInv
<1> QED
  BY <1>1, <1>2

LEMMA UpgradeKeeps ==
  ASSUME HubInv, NEW n \in Nat, Known(n), NEW c \in Sockets, Upgrade(c)
  PROVE  HubInv' /\ Known(n)' /\ conn'[c] = "open" /\ broadcast' = broadcast
<1> DEFINE r == Append(register, c)
<1>1. register \in Seq(Sockets) /\ Len(register) \in Nat
  BY DEF TypeOKHub, HubInv
<1>2. /\ r \in Seq(Sockets) /\ Len(r) = Len(register) + 1
      /\ \A i \in 1..Len(register) : r[i] = register[i]
      /\ r[Len(register) + 1] = c
  BY <1>1, AppendFacts
<1>3. /\ register' = r
      /\ conn' = [conn EXCEPT ![c] = "open"] /\ reader' = [reader EXCEPT ![c] = TRUE]
      /\ writer' = [writer EXCEPT ![c] = TRUE] /\ send' = [send EXCEPT ![c] = << >>]
      /\ sendClosed' = [sendClosed EXCEPT ![c] = FALSE]
      /\ owed' = [owed EXCEPT ![c] = << >>]
      /\ proc' = proc /\ subscribed' = subscribed /\ room' = room
      /\ unregister' = unregister /\ broadcast' = broadcast
  BY DEF Upgrade
<1> HIDE DEF r
<1>4. /\ c \notin room
      /\ \A i \in 1..Len(register) : register[i] # c
      /\ \A i \in 1..Len(unregister) : unregister[i] # c
  BY DEF Upgrade, Unused
<1>5. /\ conn'[c] = "open" /\ writer'[c] /\ send'[c] = << >>
      /\ \A d \in Sockets \ {c} :
           /\ conn'[d] = conn[d] /\ writer'[d] = writer[d] /\ send'[d] = send[d]
           /\ sendClosed'[d] = sendClosed[d] /\ owed'[d] = owed[d]
  BY <1>3 DEF TypeOKHub, HubInv
<1>6. TypeOKHub'
  BY <1>2, <1>3 DEF TypeOKHub, HubInv
<1>7. \A i \in 1..Len(r) : i \in 1..Len(register) \/ i = Len(register) + 1
  BY <1>1, <1>2
<1>8. RegisteredOnce'
  <2>1. ASSUME NEW i \in 1..Len(r), NEW j \in 1..Len(r), r[i] = r[j]
        PROVE  i = j
    <3>1. CASE i \in 1..Len(register) /\ j \in 1..Len(register)
      <4>1. register[i] = register[j]
        BY <1>2, <2>1, <3>1
      <4> QED
        BY <3>1, <4>1 DEF RegisteredOnce, HubInv
    <3>2. CASE i = Len(register) + 1 \/ j = Len(register) + 1
      BY <1>2, <1>4, <1>7, <2>1, <3>2
    <3> QED
      BY <1>7, <3>1, <3>2
  <2>2. ASSUME NEW i \in 1..Len(r) PROVE r[i] \notin room
    BY <1>2, <1>4, <1>7 DEF RegisteredOnce, HubInv
  <2> QED
    BY <1>3, <2>1, <2>2 DEF RegisteredOnce
<1>9. RegisteredIsQuiet'
  <2> SUFFICES ASSUME NEW i \in 1..Len(r), NEW k \in 1..Len(send'[r[i]])
               PROVE  send'[r[i]][k] = Pong
    BY <1>3 DEF RegisteredIsQuiet
  <2>1. r[i] # c
    BY <1>5
  <2>2. i \in 1..Len(register) /\ r[i] = register[i] /\ register[i] \in Sockets
    BY <1>1, <1>2, <1>7, <2>1
  <2> QED
    BY <1>5, <2>1, <2>2 DEF RegisteredIsQuiet, HubInv
<1>10. UnregisteredIsClosed'
  <2> SUFFICES ASSUME NEW i \in 1..Len(unregister) PROVE conn'[unregister[i]] # "open"
    BY <1>3 DEF UnregisteredIsClosed
  <2>1. unregister[i] \in Sockets \ {c}
    BY <1>4 DEF TypeOKHub, HubInv
  <2> QED
    BY <1>5, <2>1 DEF UnregisteredIsClosed, HubInv
<1>11. OpenIsWritten' /\ BroadcastsEvents'
  BY <1>3, <1>5 DEF OpenIsWritten, BroadcastsEvents, HubInv
<1>12. NobodyDeaf'
  <2> SUFFICES ASSUME NEW d \in Sockets, conn'[d] = "open"
               PROVE  \/ d \in room \/ (sendClosed'[d] /\ writer'[d])
                      \/ \E i \in 1..Len(r) : r[i] = d
    BY <1>3 DEF NobodyDeaf
  <2>1. CASE d = c
    BY <1>1, <1>2, <2>1
  <2>2. CASE d # c
    <3>1. \/ d \in room \/ (sendClosed[d] /\ writer[d])
          \/ \E i \in 1..Len(register) : register[i] = d
      BY <1>5, <2>2 DEF NobodyDeaf, HubInv
    <3>2. 1..Len(register) \subseteq 1..Len(r)
      BY <1>1, <1>2
    <3> QED
      BY <1>2, <1>5, <2>2, <3>1, <3>2
  <2> QED
    BY <2>1, <2>2
<1>13. NoSilentGap'
  <2>1. room \subseteq Sockets \ {c}
    BY <1>4 DEF TypeOKHub, HubInv
  <2> QED
    BY <1>3, <1>5, <2>1 DEF NoSilentGap, HubInv
<1>14. Known(n)'
  BY <1>3, <1>5 DEF Known
<1> QED
  BY <1>3, <1>5, <1>6, <1>8, <1>9, <1>10, <1>11, <1>12, <1>13, <1>14 DEF HubInv

LEMMA DropKeeps ==
  ASSUME HubInv, NEW n \in Nat, Known(n), NEW c \in Sockets, Drop(c)
  PROVE  HubInv' /\ Known(n)'
<1>1. /\ conn' = [conn EXCEPT ![c] = "closed"]
      /\ UNCHANGED <<proc, subscribed, room, register, unregister, broadcast, reader,
                     writer, send, sendClosed, owed>>
  BY DEF Drop, queues
<1>2. /\ conn' \in [Sockets -> {"free", "open", "closed"}]
      /\ \A d \in Sockets : conn'[d] = "open" => conn[d] = "open"
  BY <1>1 DEF TypeOKHub, HubInv
<1>3. TypeOKHub'
  BY <1>1, <1>2 DEF TypeOKHub, HubInv
<1>4. /\ RegisteredOnce' /\ RegisteredIsQuiet' /\ BroadcastsEvents' /\ NoSilentGap'
      /\ Known(n)'
  BY <1>1 DEF RegisteredOnce, RegisteredIsQuiet, BroadcastsEvents, NoSilentGap, Known, HubInv
<1>5. OpenIsWritten' /\ NobodyDeaf'
  BY <1>1, <1>2 DEF OpenIsWritten, NobodyDeaf, HubInv
<1>6. UnregisteredIsClosed'
  BY <1>1, <1>2 DEF UnregisteredIsClosed, TypeOKHub, HubInv
<1> QED
  BY <1>3, <1>4, <1>5, <1>6 DEF HubInv

LEMMA LeaveWritePumpKeeps ==
  ASSUME HubInv, NEW n \in Nat, Known(n), NEW c \in Sockets, LeaveWritePump(c)
  PROVE  HubInv' /\ Known(n)'
<1>1. /\ conn' = [conn EXCEPT ![c] = "closed"] /\ writer' = [writer EXCEPT ![c] = FALSE]
      /\ UNCHANGED <<proc, subscribed, room, register, unregister, broadcast, reader,
                     send, sendClosed, owed>>
  BY DEF LeaveWritePump, queues
<1>2. /\ conn' \in [Sockets -> {"free", "open", "closed"}]
      /\ writer' \in [Sockets -> BOOLEAN]
      /\ \A d \in Sockets : conn'[d] = "open" => conn[d] = "open" /\ writer'[d] = writer[d]
  BY <1>1 DEF TypeOKHub, HubInv
<1>3. TypeOKHub'
  BY <1>1, <1>2 DEF TypeOKHub, HubInv
<1>4. /\ RegisteredOnce' /\ RegisteredIsQuiet' /\ BroadcastsEvents' /\ NoSilentGap'
      /\ Known(n)'
  BY <1>1 DEF RegisteredOnce, RegisteredIsQuiet, BroadcastsEvents, NoSilentGap, Known, HubInv
<1>5. OpenIsWritten' /\ NobodyDeaf'
  BY <1>1, <1>2 DEF OpenIsWritten, NobodyDeaf, HubInv
<1>6. UnregisteredIsClosed'
  BY <1>1, <1>2 DEF UnregisteredIsClosed, TypeOKHub, HubInv
<1> QED
  BY <1>3, <1>4, <1>5, <1>6 DEF HubInv

LEMMA LeaveReadPumpKeeps ==
  ASSUME HubInv, NEW n \in Nat, Known(n), NEW c \in Sockets, LeaveReadPump(c)
  PROVE  HubInv' /\ Known(n)'
<1> DEFINE u == Append(unregister, c)
<1>1. /\ unregister' = u /\ conn' = [conn EXCEPT ![c] = "closed"]
      /\ reader' = [reader EXCEPT ![c] = FALSE]
      /\ UNCHANGED <<proc, subscribed, room, register, broadcast, writer, send,
                     sendClosed, owed>>
  BY DEF LeaveReadPump
<1>2. unregister \in Seq(Sockets) /\ Len(unregister) \in Nat
  BY DEF TypeOKHub, HubInv
<1>3. /\ u \in Seq(Sockets) /\ Len(u) = Len(unregister) + 1
      /\ \A i \in 1..Len(unregister) : u[i] = unregister[i]
      /\ u[Len(unregister) + 1] = c
  BY <1>2, AppendFacts
<1> HIDE DEF u
<1>4. /\ conn' \in [Sockets -> {"free", "open", "closed"}] /\ conn'[c] = "closed"
      /\ \A d \in Sockets : conn'[d] = "open" => conn[d] = "open"
  BY <1>1 DEF TypeOKHub, HubInv
<1>5. TypeOKHub'
  BY <1>1, <1>3, <1>4 DEF TypeOKHub, HubInv
<1>6. /\ RegisteredOnce' /\ RegisteredIsQuiet' /\ BroadcastsEvents' /\ NoSilentGap'
      /\ Known(n)'
  BY <1>1 DEF RegisteredOnce, RegisteredIsQuiet, BroadcastsEvents, NoSilentGap, Known, HubInv
<1>7. OpenIsWritten' /\ NobodyDeaf'
  BY <1>1, <1>4 DEF OpenIsWritten, NobodyDeaf, HubInv
<1>8. UnregisteredIsClosed'
  <2> SUFFICES ASSUME NEW i \in 1..Len(u) PROVE conn'[u[i]] # "open"
    BY <1>1 DEF UnregisteredIsClosed
  <2>1. CASE i \in 1..Len(unregister)
    <3>1. u[i] = unregister[i] /\ unregister[i] \in Sockets /\ conn[unregister[i]] # "open"
      BY <1>2, <1>3, <2>1 DEF UnregisteredIsClosed, HubInv
    <3> QED
      BY <1>4, <3>1
  <2>2. CASE i = Len(unregister) + 1
    BY <1>3, <1>4, <2>2
  <2> QED
    BY <1>2, <1>3, <2>1, <2>2
<1> QED
  BY <1>5, <1>6, <1>7, <1>8 DEF HubInv

LEMMA ReadPingKeeps ==
  ASSUME HubInv, NEW n \in Nat, Known(n), NEW c \in Sockets, ReadPing(c)
  PROVE  HubInv' /\ Known(n)'
<1>1. CASE sendClosed[c]
  BY <1>1, EndKeeps DEF ReadPing
<1>2. CASE ~sendClosed[c]
  <2> DEFINE q == Append(send[c], Pong)
  <2>1. /\ send' = [send EXCEPT ![c] = q]
        /\ UNCHANGED <<proc, subscribed, room, register, unregister, broadcast, conn,
                       reader, writer, sendClosed, owed>>
    BY <1>2 DEF ReadPing, queues, pumps
  <2>2. send[c] \in Seq(Nat) /\ owed[c] \in Seq(Nat) /\ Len(send[c]) \in Nat
    BY DEF TypeOKHub, HubInv
  <2>3. /\ q \in Seq(Nat) /\ Len(q) = Len(send[c]) + 1
        /\ \A i \in 1..Len(send[c]) : q[i] = send[c][i]
        /\ q[Len(send[c]) + 1] = Pong
    BY <2>2, AppendFacts DEF Pong
  <2>4. EventsOf(owed[c], send[c]) => EventsOf(owed[c], q)
    BY <2>2, EventsOfAppendPong
  <2> HIDE DEF q
  <2>5. send'[c] = q /\ \A d \in Sockets \ {c} : send'[d] = send[d]
    BY <2>1 DEF TypeOKHub, HubInv
  <2>6. \A i \in 1..Len(q) : i \in 1..Len(send[c]) \/ q[i] = Pong
    BY <2>2, <2>3
  <2>7. TypeOKHub'
    BY <2>1, <2>3 DEF TypeOKHub, HubInv
  <2>8. /\ RegisteredOnce' /\ UnregisteredIsClosed' /\ OpenIsWritten'
        /\ BroadcastsEvents' /\ NobodyDeaf'
    BY <2>1 DEF RegisteredOnce, UnregisteredIsClosed, OpenIsWritten, BroadcastsEvents,
                NobodyDeaf, HubInv
  <2>9. RegisteredIsQuiet'
    <3> SUFFICES ASSUME NEW i \in 1..Len(register), NEW k \in 1..Len(send'[register[i]])
                 PROVE  send'[register[i]][k] = Pong
      BY <2>1 DEF RegisteredIsQuiet
    <3>1. register[i] \in Sockets
      BY DEF TypeOKHub, HubInv
    <3>2. \A j \in 1..Len(send[register[i]]) : send[register[i]][j] = Pong
      BY DEF RegisteredIsQuiet, HubInv
    <3>3. CASE register[i] = c
      BY <2>3, <2>5, <2>6, <3>2, <3>3
    <3>4. CASE register[i] # c
      BY <2>5, <3>1, <3>2, <3>4
    <3> QED
      BY <3>3, <3>4
  <2>10. NoSilentGap'
    <3> SUFFICES ASSUME NEW d \in room PROVE sendClosed[d] \/ EventsOf(owed[d], send'[d])
      BY <2>1 DEF NoSilentGap
    <3>1. d \in Sockets /\ (sendClosed[d] \/ EventsOf(owed[d], send[d]))
      BY DEF NoSilentGap, TypeOKHub, HubInv
    <3> QED
      BY <2>4, <2>5, <3>1
  <2>11. Known(n)'
    <3>1. ASSUME NEW d \in Sockets, NEW i \in 1..Len(send'[d]) PROVE send'[d][i] <= n
      <4>1. CASE d # c
        BY <2>5, <4>1 DEF Known
      <4>2. CASE d = c
        <5>1. send'[d][i] = Pong \/ (i \in 1..Len(send[c]) /\ send'[d][i] = send[c][i])
          BY <2>3, <2>5, <2>6, <4>2
        <5> QED
          BY <5>1 DEF Known, Pong
      <4> QED
        BY <4>1, <4>2
    <3> QED
      BY <2>1, <3>1 DEF Known
  <2> QED
    BY <2>7, <2>8, <2>9, <2>10, <2>11 DEF HubInv
<1> QED
  BY <1>1, <1>2

LEMMA WriteKeeps ==
  ASSUME HubInv, NEW n \in Nat, Known(n), NEW c \in Sockets, Write(c)
  PROVE  HubInv' /\ Known(n)' /\ Head(send[c]) \in 0..n /\ conn' = conn
<1> DEFINE q == Tail(send[c])
           o == IF Head(send[c]) # Pong /\ owed[c] # << >> THEN Tail(owed[c]) ELSE owed[c]
<1>1. /\ send' = [send EXCEPT ![c] = q] /\ owed' = [owed EXCEPT ![c] = o]
      /\ UNCHANGED <<proc, subscribed, room, register, unregister, broadcast, conn,
                     reader, writer, sendClosed>>
  BY DEF Write, queues, pumps
<1>2. /\ send[c] \in Seq(Nat) /\ owed[c] \in Seq(Nat) /\ Len(send[c]) \in Nat
      /\ send[c] # << >>
  BY DEF TypeOKHub, HubInv, Write
<1>3. /\ Head(send[c]) \in Nat /\ Head(send[c]) = send[c][1] /\ Len(send[c]) >= 1
      /\ q \in Seq(Nat) /\ Len(q) = Len(send[c]) - 1
      /\ \A i \in 1..Len(q) : q[i] = send[c][i + 1]
  BY <1>2, TailFacts
<1>4. o \in Seq(Nat)
  BY <1>2, TailFacts
<1>5. EventsOf(owed[c], send[c]) => EventsOf(o, q)
  <2> SUFFICES ASSUME EventsOf(owed[c], send[c]) PROVE EventsOf(o, q)
    OBVIOUS
  <2>1. CASE Head(send[c]) = Pong
    BY <1>2, <2>1, EventsOfTailPong
  <2>2. CASE Head(send[c]) # Pong
    BY <1>2, <2>2, EventsOfTailEvent
  <2> QED
    BY <2>1, <2>2
<1> HIDE DEF q, o
<1>6. /\ send'[c] = q /\ owed'[c] = o
      /\ \A d \in Sockets \ {c} : send'[d] = send[d] /\ owed'[d] = owed[d]
  BY <1>1 DEF TypeOKHub, HubInv
<1>7. \A i \in 1..Len(q) : i + 1 \in 1..Len(send[c])
  BY <1>2, <1>3
<1>8. TypeOKHub'
  BY <1>1, <1>3, <1>4 DEF TypeOKHub, HubInv
<1>9. /\ RegisteredOnce' /\ UnregisteredIsClosed' /\ OpenIsWritten'
      /\ BroadcastsEvents' /\ NobodyDeaf'
  BY <1>1 DEF RegisteredOnce, UnregisteredIsClosed, OpenIsWritten, BroadcastsEvents,
              NobodyDeaf, HubInv
<1>10. RegisteredIsQuiet'
  <2> SUFFICES ASSUME NEW i \in 1..Len(register), NEW k \in 1..Len(send'[register[i]])
               PROVE  send'[register[i]][k] = Pong
    BY <1>1 DEF RegisteredIsQuiet
  <2>1. register[i] \in Sockets
    BY DEF TypeOKHub, HubInv
  <2>2. \A j \in 1..Len(send[register[i]]) : send[register[i]][j] = Pong
    BY DEF RegisteredIsQuiet, HubInv
  <2>3. CASE register[i] = c
    BY <1>3, <1>6, <1>7, <2>2, <2>3
  <2>4. CASE register[i] # c
    BY <1>6, <2>1, <2>2, <2>4
  <2> QED
    BY <2>3, <2>4
<1>11. NoSilentGap'
  <2> SUFFICES ASSUME NEW d \in room PROVE sendClosed[d] \/ EventsOf(owed'[d], send'[d])
    BY <1>1 DEF NoSilentGap
  <2>1. d \in Sockets /\ (sendClosed[d] \/ EventsOf(owed[d], send[d]))
    BY DEF NoSilentGap, TypeOKHub, HubInv
  <2> QED
    BY <1>5, <1>6, <2>1
<1>12. Known(n)'
  <2>1. ASSUME NEW d \in Sockets, NEW i \in 1..Len(send'[d]) PROVE send'[d][i] <= n
    <3>1. CASE d # c
      BY <1>6, <3>1 DEF Known
    <3>2. CASE d = c
      BY <1>3, <1>6, <1>7, <3>2 DEF Known
    <3> QED
      BY <3>1, <3>2
  <2> QED
    BY <1>1, <2>1 DEF Known
<1>13. Head(send[c]) \in 0..n
  BY <1>2, <1>3 DEF Known
<1> QED
  BY <1>1, <1>8, <1>9, <1>10, <1>11, <1>12, <1>13 DEF HubInv

-----------------------------------------------------------------------------
(* The inductive invariant of the stream. *)

(* What the log, the running requests and the order's version say of each     *)
(* other: an event is about a committed change, and a request publishes a     *)
(* number the log has.                                                        *)
RequestInv ==
  /\ version \in 0..MaxVersion
  /\ status \in {"active", "awaiting", "closed"}
  /\ log \in Seq(Event)
  /\ task \in [Tasks -> TaskState]
  /\ \A i \in 1..Len(log) : log[i] = Closed \/ log[i] <= version
  /\ \A t \in Tasks :
       /\ task[t].event = Closed \/ task[t].event <= version
       /\ task[t].pc = "publish" => task[t].seq \in 1..Len(log)

(* A guest g and a session of l events, v changes and status s.  What was     *)
(* read for a snapshot is not older than what is shown, nor newer than the    *)
(* session; a guest without trouble retries only an active session, with its  *)
(* attempts counted from nought at each connection.                           *)
GuestOK(g, l, v, s) ==
  /\ g \in GuestState /\ g.last <= l /\ g.view <= v
  /\ g.pc = "connected" <=> g.sock # NoSocket
  /\ g.pc # "fetching" => g.orders = Unread /\ g.missed = Unread
  /\ g.orders # Unread => g.view <= g.orders /\ g.orders <= v
  /\ g.missed # Unread => g.last + g.missed <= l
  /\ g.pc = "connected" => g.attempts = 0
  /\ g.pc \in {"connecting", "fetching"} => s # "awaiting" \/ g.trouble
  /\ g.pc = "failed" => s = "closed" \/ g.trouble

GuestInv == GuestOK(guest, Len(log), version, status)

StreamInv == HubInv /\ Known(Len(log)) /\ RequestInv /\ GuestInv

SessionStatus == {"active", "awaiting", "closed"}

\* The session moves on, or ends, while the guest stays.
LEMMA GuestStays ==
  ASSUME NEW l \in Nat, NEW v \in Nat, NEW s \in SessionStatus, NEW g, GuestOK(g, l, v, s),
         NEW l2 \in Nat, NEW v2 \in Nat, NEW s2, l <= l2, v <= v2, s2 = s \/ s2 = "closed"
  PROVE  GuestOK(g, l2, v2, s2)
BY DEF GuestOK, GuestState, Unread, SessionStatus

\* scheduleReconnect for one in trouble, for a session that ended, or at the
\* first attempt since the last connection.
LEMMA GuestBacksOff ==
  ASSUME NEW l \in Nat, NEW v \in Nat, NEW s \in SessionStatus, NEW g, GuestOK(g, l, v, s),
         g.trouble \/ s = "closed" \/ g.attempts = 0
  PROVE  GuestOK(Backoff(g), l, v, s) /\ Backoff(g).pc \in {"backoff", "failed"}
<1>1. CASE g.attempts >= MaxAttempts
  <2> DEFINE h == [g EXCEPT !.pc = "failed", !.sock = NoSocket,
                            !.orders = Unread, !.missed = Unread]
  <2>1. /\ h \in GuestState /\ h.pc = "failed" /\ h.sock = NoSocket
        /\ h.orders = Unread /\ h.missed = Unread
        /\ h.last = g.last /\ h.view = g.view /\ h.trouble = g.trouble
    BY DEF GuestOK, GuestState
  <2>2. g.trouble \/ s = "closed"
    BY <1>1, StreamAssumption DEF GuestOK, GuestState
  <2> HIDE DEF h
  <2>3. GuestOK(h, l, v, s)
    BY <2>1, <2>2 DEF GuestOK
  <2> QED
    BY <1>1, <2>1, <2>3 DEF h, Backoff
<1>2. CASE ~(g.attempts >= MaxAttempts)
  <2> DEFINE more == g.attempts + 1
             h == [g EXCEPT !.pc = "backoff", !.sock = NoSocket, !.attempts = more,
                            !.orders = Unread, !.missed = Unread]
  <2>0. more \in Nat /\ Backoff(g) = h
    BY <1>2 DEF GuestOK, GuestState, Backoff
  <2> HIDE DEF more
  <2>1. /\ h \in GuestState /\ h.pc = "backoff" /\ h.sock = NoSocket
        /\ h.orders = Unread /\ h.missed = Unread
        /\ h.last = g.last /\ h.view = g.view /\ h.trouble = g.trouble
    BY <2>0 DEF GuestOK, GuestState
  <2> HIDE DEF h
  <2>2. GuestOK(h, l, v, s)
    BY <2>1 DEF GuestOK
  <2> QED
    BY <2>0, <2>1, <2>2
<1> QED
  BY <1>1, <1>2

LEMMA GuestInTrouble ==
  ASSUME NEW l \in Nat, NEW v \in Nat, NEW s \in SessionStatus, NEW g, GuestOK(g, l, v, s)
  PROVE  /\ GuestOK(InTrouble(g), l, v, s) /\ InTrouble(g).trouble
         /\ InTrouble(g).pc = g.pc
<1> DEFINE h == InTrouble(g)
<1>1. /\ h \in GuestState /\ h.trouble /\ h.pc = g.pc /\ h.sock = g.sock
      /\ h.orders = g.orders /\ h.missed = g.missed /\ h.attempts = g.attempts
      /\ h.last = g.last /\ h.view = g.view
  BY DEF GuestOK, GuestState, InTrouble
<1> HIDE DEF h
<1>2. GuestOK(h, l, v, s)
  BY <1>1 DEF GuestOK
<1> QED
  BY <1>1, <1>2 DEF h

\* An event of the log arrives on the connection.
LEMMA GuestHandles ==
  ASSUME NEW l \in Nat, NEW v \in Nat, NEW s \in SessionStatus, NEW g, GuestOK(g, l, v, s),
         g.pc = "connected", NEW m \in 1..l,
         log[m] \in Nat, log[m] = Closed \/ log[m] <= v
  PROVE  GuestOK(Handled(g, m), l, v, s)
<1> DEFINE h == Handled(g, m)
<1>1. g.last \in Nat /\ g.view \in Nat /\ g.ended \in BOOLEAN /\ g.last <= l /\ g.view <= v
  BY DEF GuestOK, GuestState
<1> DEFINE newLast == IF m > g.last THEN m ELSE g.last
           newView == IF log[m] = Closed THEN g.view ELSE log[m]
           newEnded == g.ended \/ log[m] = Closed
<1>2. /\ newLast \in Nat /\ newLast <= l /\ newView \in Nat /\ newView <= v
      /\ newEnded \in BOOLEAN
  BY <1>1
<1>3. h = [g EXCEPT !.last = newLast, !.view = newView, !.ended = newEnded]
  BY DEF Handled
<1> HIDE DEF newLast, newView, newEnded, h
<1>4. /\ h \in GuestState /\ h.trouble = g.trouble /\ h.pc = g.pc /\ h.sock = g.sock
      /\ h.orders = g.orders /\ h.missed = g.missed /\ h.attempts = g.attempts
      /\ h.last = newLast /\ h.view = newView
  BY <1>2, <1>3 DEF GuestOK, GuestState
<1>5. GuestOK(h, l, v, s)
  BY <1>2, <1>4 DEF GuestOK, Unread
<1> QED
  BY <1>5 DEF h

-----------------------------------------------------------------------------
LEMMA StreamStart == Init => StreamInv
<1> SUFFICES ASSUME Init PROVE StreamInv
  OBVIOUS
<1>1. HubInv /\ Known(Len(log))
  BY HubStart DEF Init
<1>2. RequestInv
  BY StreamAssumption DEF Init, RequestInv, NoTask, TaskState, Event, Closed
<1>3. GuestInv
  BY StreamAssumption DEF Init, GuestInv, GuestOK, GuestState, Unread
<1> QED
  BY <1>1, <1>2, <1>3 DEF StreamInv

LEMMA SequenceNumbers ==
  ASSUME StreamInv
  PROVE  /\ Len(log) \in Nat /\ version \in Nat /\ status \in SessionStatus
         /\ \A m \in 1..Len(log) :
              log[m] \in Nat /\ (log[m] = Closed \/ log[m] <= version)
BY StreamAssumption DEF StreamInv, RequestInv, Event, Closed, SessionStatus

\* A step that leaves the hub alone.
LEMMA HubStays ==
  ASSUME StreamInv, UNCHANGED hubVars, Len(log') \in Nat, Len(log') >= Len(log)
  PROVE  HubInv' /\ Known(Len(log))'
<1> USE DEF hubVars, queues, pumps
<1>1. TypeOKHub'
  BY DEF StreamInv, HubInv, TypeOKHub
<1>2. /\ RegisteredOnce' /\ RegisteredIsQuiet' /\ UnregisteredIsClosed'
      /\ OpenIsWritten' /\ BroadcastsEvents'
  BY DEF StreamInv, HubInv, RegisteredOnce, RegisteredIsQuiet, UnregisteredIsClosed,
         OpenIsWritten, BroadcastsEvents
<1>3. NobodyDeaf' /\ NoSilentGap'
  BY DEF StreamInv, HubInv, NobodyDeaf, NoSilentGap
<1>4. Known(Len(log))'
  <2>1. /\ Len(log) \in Nat /\ broadcast \in Seq(Nat)
        /\ \A c \in Sockets : send[c] \in Seq(Nat)
    BY DEF StreamInv, RequestInv, HubInv, TypeOKHub
  <2>2. /\ \A i \in 1..Len(broadcast) : broadcast[i] \in Nat /\ broadcast[i] <= Len(log)
        /\ \A c \in Sockets : \A i \in 1..Len(send[c]) :
             send[c][i] \in Nat /\ send[c][i] <= Len(log)
    BY <2>1 DEF StreamInv, Known
  <2>3. PICK l \in Nat : l = Len(log)
    BY <2>1
  <2>4. PICK n \in Nat : n = Len(log')
    OBVIOUS
  <2>5. broadcast' = broadcast /\ send' = send
    OBVIOUS
  <2>6. ASSUME NEW i \in 1..Len(broadcast) PROVE broadcast[i] <= n
    <3>1. broadcast[i] \in Nat /\ broadcast[i] <= l /\ l <= n
      BY <2>2, <2>3, <2>4
    <3> QED BY <3>1
  <2>7. ASSUME NEW c \in Sockets, NEW i \in 1..Len(send[c]) PROVE send[c][i] <= n
    <3>1. send[c][i] \in Nat /\ send[c][i] <= l /\ l <= n
      BY <2>2, <2>3, <2>4
    <3> QED BY <3>1
  <2> QED BY <2>4, <2>5, <2>6, <2>7 DEF Known
<1> QED
  BY <1>1, <1>2, <1>3, <1>4 DEF HubInv

LEMMA RequestsKeep ==
  ASSUME StreamInv, NEW t \in Tasks, Request(t) \/ LoseEvent(t)
  PROVE  StreamInv'
<1>1. /\ version \in 0..MaxVersion /\ status \in SessionStatus /\ log \in Seq(Event)
      /\ Len(log) \in Nat /\ task \in [Tasks -> TaskState] /\ version \in Nat
      /\ \A i \in 1..Len(log) : log[i] = Closed \/ log[i] <= version
      /\ \A u \in Tasks :
           /\ task[u].event = Closed \/ task[u].event <= version
           /\ task[u].pc = "publish" => task[u].seq \in 1..Len(log)
  BY StreamAssumption DEF StreamInv, RequestInv, SessionStatus
<1>2. GuestOK(guest, Len(log), version, status)
  BY DEF StreamInv, GuestInv
<1>3. CASE ChangeOrder(t)
  <2>1. /\ UNCHANGED <<hubVars, status, log, guest>> /\ version' = version + 1
        /\ version < MaxVersion
        /\ task' = [task EXCEPT ![t] =
                      [pc |-> "append", event |-> version + 1, seq |-> 0]]
    BY <1>3 DEF ChangeOrder
  <2>2. HubInv' /\ Known(Len(log))'
    BY <1>1, <2>1, HubStays
  <2>3. RequestInv'
    <3>1. [pc |-> "append", event |-> version + 1, seq |-> 0] \in TaskState
      BY <1>1, <2>1, StreamAssumption DEF TaskState, Event, Closed
    <3>2. task' \in [Tasks -> TaskState] /\ version' \in 0..MaxVersion
      BY <1>1, <2>1, <3>1, StreamAssumption
    <3>3. \A i \in 1..Len(log) : log[i] = Closed \/ log[i] <= version'
      BY <1>1, <2>1, StreamAssumption DEF Event, Closed
    <3>4. ASSUME NEW u \in Tasks
          PROVE  /\ task'[u].event = Closed \/ task'[u].event <= version'
                 /\ task'[u].pc = "publish" => task'[u].seq \in 1..Len(log)
      <4>1. CASE u = t
        BY <1>1, <2>1, <4>1
      <4>2. CASE u # t
        BY <1>1, <2>1, <4>2, StreamAssumption DEF TaskState, Event, Closed
      <4> QED
        BY <4>1, <4>2
    <3> QED
      BY <1>1, <2>1, <3>2, <3>3, <3>4 DEF RequestInv, SessionStatus
  <2>4. GuestInv'
    BY <1>1, <1>2, <2>1, GuestStays DEF GuestInv
  <2> QED
    BY <2>2, <2>3, <2>4 DEF StreamInv
<1>4. CASE CloseSession(t)
  <2>1. /\ UNCHANGED <<hubVars, version, log, guest>> /\ status' = "closed"
        /\ task' = [task EXCEPT ![t] = [pc |-> "append", event |-> Closed, seq |-> 0]]
    BY <1>4 DEF CloseSession
  <2>2. HubInv' /\ Known(Len(log))'
    BY <1>1, <2>1, HubStays
  <2>3. RequestInv'
    <3>1. [pc |-> "append", event |-> Closed, seq |-> 0] \in TaskState
      BY StreamAssumption DEF TaskState, Event, Closed
    <3>2. task' \in [Tasks -> TaskState]
      BY <1>1, <2>1, <3>1
    <3>3. ASSUME NEW u \in Tasks
          PROVE  /\ task'[u].event = Closed \/ task'[u].event <= version
                 /\ task'[u].pc = "publish" => task'[u].seq \in 1..Len(log)
      BY <1>1, <2>1
    <3> QED
      BY <1>1, <2>1, <3>2, <3>3 DEF RequestInv
  <2>4. GuestInv'
    BY <1>1, <1>2, <2>1, GuestStays DEF GuestInv
  <2> QED
    BY <2>2, <2>3, <2>4 DEF StreamInv
<1>5. CASE AppendSessionEvent(t)
  <2> DEFINE e == task[t].event
             longer == Append(log, e)
  <2>1. /\ UNCHANGED <<hubVars, version, status, guest>> /\ log' = longer
        /\ task' = [task EXCEPT ![t].pc = "publish", ![t].seq = Len(log) + 1]
    BY <1>5 DEF AppendSessionEvent
  <2>2. e \in Event /\ (e = Closed \/ e <= version)
    BY <1>1 DEF TaskState
  <2>3. /\ longer \in Seq(Event) /\ Len(longer) = Len(log) + 1
        /\ \A i \in 1..Len(log) : longer[i] = log[i]
        /\ longer[Len(log) + 1] = e
    BY <1>1, <2>2, AppendFacts
  <2> HIDE DEF e, longer
  <2>4. HubInv' /\ Known(Len(log))'
    BY <1>1, <2>1, <2>3, HubStays
  <2>5. RequestInv'
    <3>1. \A i \in 1..Len(longer) : longer[i] = Closed \/ longer[i] <= version
      BY <1>1, <2>2, <2>3
    <3>2. /\ task' \in [Tasks -> TaskState]
          /\ task'[t].event = task[t].event /\ task'[t].seq = Len(log) + 1
          /\ \A u \in Tasks \ {t} : task'[u] = task[u]
      <4> DEFINE new == Len(log) + 1
                 x == [task[t] EXCEPT !.pc = "publish", !.seq = new]
      <4>1. new \in Nat
        BY <1>1
      <4>2. task' = [task EXCEPT ![t] = x]
        BY <2>1
      <4> HIDE DEF new
      <4>3. x \in TaskState /\ x.event = task[t].event /\ x.seq = new
        BY <1>1, <4>1 DEF TaskState
      <4> HIDE DEF x
      <4>4. task'[t] = x
        BY <1>1, <4>2
      <4> QED
        BY <1>1, <4>2, <4>3, <4>4 DEF new
    <3>3. ASSUME NEW u \in Tasks
          PROVE  /\ task'[u].event = Closed \/ task'[u].event <= version
                 /\ task'[u].pc = "publish" => task'[u].seq \in 1..Len(longer)
      <4>1. CASE u = t
        BY <1>1, <2>3, <3>2, <4>1
      <4>2. CASE u # t
        BY <1>1, <2>3, <3>2, <4>2
      <4> QED
        BY <4>1, <4>2
    <3> QED
      BY <1>1, <2>1, <2>3, <3>1, <3>2, <3>3 DEF RequestInv, SessionStatus
  <2>6. GuestInv'
    BY <1>1, <1>2, <2>1, <2>3, GuestStays DEF GuestInv
  <2> QED
    BY <2>4, <2>5, <2>6 DEF StreamInv
<1>6. ASSUME task' = [task EXCEPT ![t] = NoTask], UNCHANGED <<version, status, log, guest>>
      PROVE  RequestInv' /\ GuestInv'
  <2>1. task' \in [Tasks -> TaskState]
    BY <1>1, <1>6, StreamAssumption DEF NoTask, TaskState, Event, Closed
  <2>2. ASSUME NEW u \in Tasks
        PROVE  /\ task'[u].event = Closed \/ task'[u].event <= version
               /\ task'[u].pc = "publish" => task'[u].seq \in 1..Len(log)
    BY <1>1, <1>6 DEF NoTask
  <2> QED
    BY <1>1, <1>2, <1>6, <2>1, <2>2 DEF RequestInv, GuestInv, SessionStatus
<1>7. CASE PublishEvent(t)
  <2>1. /\ Publish(task[t].seq) /\ task' = [task EXCEPT ![t] = NoTask]
        /\ UNCHANGED <<version, status, log, guest>>
    BY <1>7 DEF PublishEvent
  <2>2. task[t].seq \in 1..Len(log)
    BY <1>1, <1>7 DEF PublishEvent
  <2>3. PICK n \in Nat : n = Len(log)
    BY <1>1
  <2>4. HubInv' /\ Known(n)'
    BY <1>1, <2>1, <2>2, <2>3, PublishKeeps DEF StreamInv, Pong
  <2>5. Known(Len(log))'
    BY <2>1, <2>3, <2>4
  <2> QED
    BY <1>6, <2>1, <2>4, <2>5 DEF StreamInv
<1>8. CASE LoseEvent(t)
  <2>1. /\ task' = [task EXCEPT ![t] = NoTask]
        /\ UNCHANGED <<hubVars, version, status, log, guest>>
    BY <1>8 DEF LoseEvent
  <2>2. HubInv' /\ Known(Len(log))'
    BY <1>1, <2>1, HubStays
  <2> QED
    BY <1>6, <2>1, <2>2 DEF StreamInv
<1> QED
  BY <1>3, <1>4, <1>5, <1>7, <1>8 DEF Request

\* A step of the guest's client alone, which may revive or idle the session.
LEMMA GuestMoves ==
  ASSUME StreamInv, UNCHANGED <<hubVars, version, log, task>>,
         status' \in SessionStatus, GuestOK(guest', Len(log), version, status')
  PROVE  StreamInv'
<1>1. HubInv' /\ Known(Len(log))'
  BY SequenceNumbers, HubStays
<1>2. RequestInv'
  BY DEF StreamInv, RequestInv, SessionStatus
<1>3. GuestInv'
  BY DEF GuestInv
<1> QED
  BY <1>1, <1>2, <1>3 DEF StreamInv

LEMMA ClientKeeps ==
  ASSUME StreamInv,
         \/ openSocketRefused \/ endSession \/ onclose \/ reconnect \/ ReadOrders
         \/ ListSessionEventsAfter \/ reconcileSnapshot \/ RequestFails \/ retry
         \/ PauseSession
  PROVE  StreamInv'
<1> DEFINE l == Len(log)
<1>1. /\ l \in Nat /\ version \in Nat /\ status \in SessionStatus
      /\ GuestOK(guest, l, version, status)
  BY SequenceNumbers DEF StreamInv, GuestInv
<1> HIDE DEF l
<1>2. /\ guest \in GuestState /\ guest.last \in Nat /\ guest.view \in Nat
      /\ guest.attempts \in Nat /\ guest.ended \in BOOLEAN /\ guest.trouble \in BOOLEAN
      /\ guest.orders \in Nat \cup {Unread} /\ guest.missed \in Nat \cup {Unread}
  BY <1>1 DEF GuestOK, GuestState
<1>3. CASE openSocketRefused
  <2>1. guest.trouble \/ status = "closed"
    BY <1>1, <1>3 DEF openSocketRefused, Serves, GuestOK, SessionStatus
  <2>2. GuestOK(Backoff(guest), l, version, status)
    BY <1>1, <2>1, GuestBacksOff
  <2> QED
    BY <1>1, <1>3, <2>2, GuestMoves DEF openSocketRefused, l
<1>4. CASE onclose
  <2>1. guest.attempts = 0
    BY <1>1, <1>4 DEF onclose, GuestOK
  <2>2. GuestOK(Backoff(guest), l, version, status)
    BY <1>1, <2>1, GuestBacksOff
  <2> QED
    BY <1>1, <1>4, <2>2, GuestMoves DEF onclose, l
<1>5. CASE reconnect
  <2>1. CASE status = "closed"
    <3>1. GuestOK(Backoff(guest), l, version, status)
      BY <1>1, <2>1, GuestBacksOff
    <3> QED
      BY <1>1, <1>5, <2>1, <3>1, GuestMoves DEF reconnect, l
  <2>2. CASE status # "closed"
    <3> DEFINE h == [guest EXCEPT !.pc = "fetching"]
    <3>1. /\ h \in GuestState /\ h.pc = "fetching" /\ h.sock = guest.sock
          /\ h.orders = guest.orders /\ h.missed = guest.missed
          /\ h.last = guest.last /\ h.view = guest.view
      BY <1>2 DEF GuestState
    <3>2. guest' = h /\ status' = "active" /\ guest.pc = "backoff"
          /\ UNCHANGED <<hubVars, version, log, task>>
      BY <1>5, <2>2 DEF reconnect
    <3> HIDE DEF h
    <3>3. GuestOK(h, l, version, "active")
      BY <1>1, <3>1, <3>2 DEF GuestOK
    <3> QED
      BY <1>1, <3>2, <3>3, GuestMoves DEF l, SessionStatus
  <2> QED
    BY <2>1, <2>2
<1>6. CASE ReadOrders
  <2> DEFINE h == [guest EXCEPT !.orders = version]
  <2>1. /\ h \in GuestState /\ h.pc = guest.pc /\ h.sock = guest.sock
        /\ h.orders = version /\ h.missed = guest.missed
        /\ h.last = guest.last /\ h.view = guest.view
        /\ h.attempts = guest.attempts /\ h.trouble = guest.trouble
    BY <1>1, <1>2 DEF GuestState
  <2>2. guest' = h /\ guest.pc = "fetching"
        /\ UNCHANGED <<hubVars, version, status, log, task>>
    BY <1>6 DEF ReadOrders
  <2> HIDE DEF h
  <2>3. GuestOK(h, l, version, status)
    BY <1>1, <2>1, <2>2 DEF GuestOK
  <2> QED
    BY <1>1, <2>2, <2>3, GuestMoves DEF l
<1>7. CASE ListSessionEventsAfter
  <2> DEFINE later == l - guest.last
             some == IF guest.last = 0 THEN 0
                     ELSE IF later > ReplayLimit THEN ReplayLimit ELSE later
             h == [guest EXCEPT !.missed = some]
  <2>1. guest' = h /\ guest.pc = "fetching"
        /\ UNCHANGED <<hubVars, version, status, log, task>>
    BY <1>7 DEF ListSessionEventsAfter, l
  <2>2. guest.last <= l
    BY <1>1 DEF GuestOK
  <2>3. some \in Nat /\ guest.last + some <= l
    BY <1>1, <1>2, <2>2, StreamAssumption
  <2> HIDE DEF some
  <2>4. /\ h \in GuestState /\ h.pc = guest.pc /\ h.sock = guest.sock
        /\ h.orders = guest.orders /\ h.missed = some
        /\ h.last = guest.last /\ h.view = guest.view
        /\ h.attempts = guest.attempts /\ h.trouble = guest.trouble
    BY <1>2, <2>3 DEF GuestState
  <2> HIDE DEF h
  <2>5. GuestOK(h, l, version, status)
    BY <1>1, <2>1, <2>3, <2>4 DEF GuestOK
  <2> QED
    BY <1>1, <2>1, <2>5, GuestMoves DEF l
<1>8. CASE reconcileSnapshot
  <2> DEFINE upTo == guest.last + guest.missed
             told == guest.ended \/ \E m \in Replayed : log[m] = Closed
             h == Reconciled(guest.orders)
  <2>1. /\ guest' = h /\ guest.pc = "fetching"
        /\ guest.orders # Unread /\ guest.missed # Unread
        /\ UNCHANGED <<hubVars, version, status, log, task>>
    BY <1>8 DEF reconcileSnapshot, Fetched
  <2>2. /\ upTo \in Nat /\ upTo <= l /\ guest.orders \in Nat /\ guest.orders <= version
        /\ told \in BOOLEAN /\ guest.sock = NoSocket
    BY <1>1, <1>2, <2>1 DEF GuestOK
  <2>3. h = [guest EXCEPT !.pc = "connecting", !.last = upTo, !.view = guest.orders,
                          !.ended = told, !.orders = Unread, !.missed = Unread]
    BY DEF Reconciled
  <2> HIDE DEF upTo, told, h
  <2>4. /\ h \in GuestState /\ h.pc = "connecting" /\ h.sock = guest.sock
        /\ h.orders = Unread /\ h.missed = Unread
        /\ h.last = upTo /\ h.view = guest.orders
        /\ h.attempts = guest.attempts /\ h.trouble = guest.trouble
    BY <1>2, <2>2, <2>3 DEF GuestState
  <2>5. GuestOK(h, l, version, status)
    BY <1>1, <2>1, <2>2, <2>4 DEF GuestOK
  <2> QED
    BY <1>1, <2>1, <2>5, GuestMoves DEF l
<1>9. CASE RequestFails
  <2>1. GuestOK(Backoff(InTrouble(guest)), l, version, status)
    BY <1>1, GuestInTrouble, GuestBacksOff
  <2> QED
    BY <1>1, <1>9, <2>1, GuestMoves DEF RequestFails, l
<1>10. CASE retry
  <2> DEFINE h == [guest EXCEPT !.pc = "connecting", !.attempts = 0]
  <2>1. /\ h \in GuestState /\ h.pc = "connecting" /\ h.sock = guest.sock
        /\ h.orders = guest.orders /\ h.missed = guest.missed
        /\ h.last = guest.last /\ h.view = guest.view /\ h.trouble = guest.trouble
    BY <1>2 DEF GuestState
  <2>2. guest' = h /\ guest.pc = "failed" /\ status # "closed"
        /\ UNCHANGED <<hubVars, version, status, log, task>>
    BY <1>10 DEF retry
  <2> HIDE DEF h
  <2>3. GuestOK(h, l, version, status)
    BY <1>1, <2>1, <2>2 DEF GuestOK
  <2> QED
    BY <1>1, <2>2, <2>3, GuestMoves DEF l
<1>11. CASE PauseSession
  <2>1. /\ guest.pc \in {"backoff", "failed"} /\ status = "active" /\ status' = "awaiting"
        /\ UNCHANGED <<hubVars, version, log, task, guest>>
    BY <1>11 DEF PauseSession
  <2>2. GuestOK(guest, l, version, "awaiting")
    BY <1>1, <2>1 DEF GuestOK
  <2> QED
    BY <1>1, <2>1, <2>2, GuestMoves DEF l, SessionStatus
<1>12. CASE endSession
  <2> DEFINE h == [guest EXCEPT !.pc = "failed", !.ended = TRUE]
  <2>1. /\ h \in GuestState /\ h.pc = "failed" /\ h.sock = guest.sock
        /\ h.orders = guest.orders /\ h.missed = guest.missed
        /\ h.last = guest.last /\ h.view = guest.view /\ h.trouble = guest.trouble
    BY <1>2 DEF GuestState
  <2>2. /\ guest' = h /\ guest.pc # "connected" /\ status = "closed"
        /\ guest.orders = Unread /\ guest.missed = Unread
        /\ UNCHANGED <<hubVars, version, status, log, task>>
    BY <1>12 DEF endSession
  <2> HIDE DEF h
  <2>3. GuestOK(h, l, version, status)
    BY <1>1, <2>1, <2>2 DEF GuestOK
  <2> QED
    BY <1>1, <2>2, <2>3, GuestMoves DEF l
<1> QED
  BY <1>3, <1>4, <1>5, <1>6, <1>7, <1>8, <1>9, <1>10, <1>11, <1>12

LEMMA openSocketKeeps ==
  ASSUME StreamInv, NEW c \in Sockets, openSocket(c)
  PROVE  StreamInv'
<1> DEFINE h == [guest EXCEPT !.pc = "connected", !.sock = c, !.attempts = 0,
                              !.trouble = FALSE]
<1>1. /\ guest' = h /\ guest.pc = "connecting" /\ status = "active" /\ Upgrade(c)
      /\ UNCHANGED <<version, status, log, task>>
  BY DEF openSocket, Serves
<1>2. PICK n \in Nat : n = Len(log)
  BY SequenceNumbers
<1>3. HubInv' /\ Known(n)'
  BY <1>1, <1>2, UpgradeKeeps DEF StreamInv
<1>4. RequestInv'
  BY <1>1 DEF StreamInv, RequestInv
<1>5. /\ h \in GuestState /\ h.pc = "connected" /\ h.sock = c /\ h.attempts = 0
      /\ h.orders = guest.orders /\ h.missed = guest.missed
      /\ h.last = guest.last /\ h.view = guest.view
  BY DEF StreamInv, GuestInv, GuestOK, GuestState
<1> HIDE DEF h
<1>6. GuestOK(h, Len(log), version, status)
  BY <1>1, <1>5, StreamAssumption DEF StreamInv, GuestInv, GuestOK
<1> QED
  BY <1>1, <1>2, <1>3, <1>4, <1>6 DEF StreamInv, GuestInv

LEMMA DeliverKeeps ==
  ASSUME StreamInv, NEW c \in Sockets, Deliver(c)
  PROVE  StreamInv'
<1>1. Write(c) /\ UNCHANGED <<version, status, log, task>>
  BY DEF Deliver
<1>2. PICK n \in Nat : n = Len(log)
  BY SequenceNumbers
<1>3. HubInv' /\ Known(n)' /\ Head(send[c]) \in 0..n
  BY <1>1, <1>2, WriteKeeps DEF StreamInv
<1>4. RequestInv'
  BY <1>1 DEF StreamInv, RequestInv
<1>5. GuestOK(guest', Len(log), version, status)
  <2>1. CASE guest' = guest
    BY <2>1 DEF StreamInv, GuestInv
  <2>2. CASE guest.sock = c /\ Head(send[c]) # Pong /\ guest' = Handled(guest, Head(send[c]))
    <3>1. Head(send[c]) \in 1..n
      BY <1>3, <2>2 DEF Pong
    <3>2. guest.pc = "connected"
      BY <2>2, StreamAssumption DEF StreamInv, GuestInv, GuestOK
    <3> QED
      BY <1>2, <2>2, <3>1, <3>2, SequenceNumbers, GuestHandles DEF StreamInv, GuestInv
  <2> QED
    BY <2>1, <2>2 DEF Deliver
<1> QED
  BY <1>1, <1>2, <1>3, <1>4, <1>5 DEF StreamInv, GuestInv

\* A step of the hub's own.
LEMMA HubOnlyKeeps ==
  ASSUME StreamInv, NEW n \in Nat, n = Len(log), HubInv', Known(n)',
         task' = task \/ task' = [t \in Tasks |-> NoTask],
         UNCHANGED <<version, status, log, guest>>
  PROVE  StreamInv'
<1>1. RequestInv'
  <2>1. CASE task' = task
    BY <2>1 DEF StreamInv, RequestInv
  <2>2. CASE task' = [t \in Tasks |-> NoTask]
    <3>1. NoTask \in TaskState
      BY StreamAssumption DEF NoTask, TaskState, Event, Closed
    <3>2. /\ task' \in [Tasks -> TaskState]
          /\ \A t \in Tasks : task'[t].event = Closed /\ task'[t].pc = "idle"
      BY <2>2, <3>1 DEF NoTask
    <3> QED
      BY <3>2 DEF StreamInv, RequestInv
  <2> QED
    BY <2>1, <2>2
<1>2. GuestInv'
  BY DEF StreamInv, GuestInv
<1> QED
  BY <1>1, <1>2 DEF StreamInv

LEMMA HubKeeps ==
  ASSUME StreamInv,
         \/ HubOnly(HubStep) \/ HubOnly(Restart)
         \/ Faulty(drainAll) \/ Faulty(Exit) \/ Faulty(LoseSubscription)
         \/ HubOnly(Resubscribe)
         \/ \E c \in Sockets : \/ HubOnly(Drop(c)) \/ HubOnly(ReadPing(c))
                               \/ HubOnly(LeaveReadPump(c)) \/ HubOnly(LeaveWritePump(c))
  PROVE  StreamInv'
<1>1. PICK n \in Nat : n = Len(log)
  BY SequenceNumbers
<1>2. HubInv /\ Known(n)
  BY <1>1 DEF StreamInv
<1>3. /\ task' = task \/ task' = [t \in Tasks |-> NoTask]
      /\ UNCHANGED <<version, status, log, guest>>
  BY DEF HubOnly, Faulty
<1>4. \/ addToRoom \/ removeFromRoom \/ broadcastToRoom
      \/ Restart \/ LoseSubscription \/ Resubscribe \/ drainAll \/ Exit
      \/ \E c \in Sockets : Drop(c) \/ ReadPing(c) \/ LeaveReadPump(c) \/ LeaveWritePump(c)
  BY DEF HubOnly, Faulty, HubStep
<1>5. HubInv' /\ Known(n)'
  <2>1. CASE addToRoom
    BY <1>2, <2>1, addToRoomKeeps
  <2>2. CASE removeFromRoom
    BY <1>2, <2>2, removeFromRoomKeeps
  <2>3. CASE broadcastToRoom
    BY <1>2, <2>3, broadcastToRoomKeeps
  <2>4. CASE Restart \/ LoseSubscription \/ Resubscribe
    BY <1>2, <2>4, SubscriptionKeeps
  <2>5. CASE drainAll
    BY <1>2, <2>5, drainAllKeeps
  <2>6. CASE Exit
    BY <1>2, <2>6, EndKeeps DEF Exit
  <2>7. ASSUME NEW c \in Sockets,
               Drop(c) \/ ReadPing(c) \/ LeaveReadPump(c) \/ LeaveWritePump(c)
        PROVE  HubInv' /\ Known(n)'
    <3>1. CASE Drop(c)
      BY <1>2, <3>1, DropKeeps
    <3>2. CASE ReadPing(c)
      BY <1>2, <3>2, ReadPingKeeps
    <3>3. CASE LeaveReadPump(c)
      BY <1>2, <3>3, LeaveReadPumpKeeps
    <3>4. CASE LeaveWritePump(c)
      BY <1>2, <3>4, LeaveWritePumpKeeps
    <3> QED
      BY <2>7, <3>1, <3>2, <3>3, <3>4
  <2> QED
    BY <1>4, <2>1, <2>2, <2>3, <2>4, <2>5, <2>6, <2>7
<1> QED
  BY <1>1, <1>3, <1>5, HubOnlyKeeps

LEMMA StreamStutters ==
  ASSUME StreamInv, UNCHANGED vars
  PROVE  StreamInv'
<1>1. HubInv' /\ Known(Len(log))'
  BY SequenceNumbers, HubStays DEF vars, streamVars
<1>2. RequestInv' /\ GuestInv'
  BY DEF vars, streamVars, StreamInv, RequestInv, GuestInv
<1> QED
  BY <1>1, <1>2 DEF StreamInv

LEMMA StreamStep == StreamInv /\ [Next]_vars => StreamInv'
<1> SUFFICES ASSUME StreamInv, [Next]_vars PROVE StreamInv'
  OBVIOUS
<1>1. CASE \E t \in Tasks : Request(t) \/ LoseEvent(t)
  BY <1>1, RequestsKeep
<1>2. CASE PauseSession \/ RequestFails \/ retry
  BY <1>2, ClientKeeps
<1>3. CASE GuestStep
  BY <1>3, ClientKeeps, openSocketKeeps DEF GuestStep
<1>4. CASE \/ HubOnly(HubStep) \/ HubOnly(Restart)
           \/ Faulty(drainAll) \/ Faulty(Exit) \/ Faulty(LoseSubscription)
           \/ HubOnly(Resubscribe)
  BY <1>4, HubKeeps
<1>5. ASSUME NEW c \in Sockets,
             \/ Deliver(c) \/ HubOnly(Drop(c)) \/ HubOnly(ReadPing(c))
             \/ HubOnly(LeaveReadPump(c)) \/ HubOnly(LeaveWritePump(c))
      PROVE  StreamInv'
  BY <1>5, HubKeeps, DeliverKeeps
<1>6. CASE UNCHANGED vars
  BY <1>6, StreamStutters
<1> QED
  BY <1>1, <1>2, <1>3, <1>4, <1>5, <1>6 DEF Next

(* The invariant holds: of the hub's channels and pumps, of the log and the   *)
(* requests that write and publish it, and of the guest's client.             *)
THEOREM StreamCorrect == Spec => []StreamInv
<1>1. Init => StreamInv
  BY StreamStart
<1>2. StreamInv /\ [Next]_vars => StreamInv'
  BY StreamStep
<1> QED
  BY <1>1, <1>2, PTL DEF Spec

(* The types, and with them that a guest is never ahead of the log and never  *)
(* shows a change that was not committed.                                     *)
THEOREM StreamTypes == Spec => []TypeOK
<1>1. StreamInv => TypeOK
  BY DEF StreamInv, HubInv, RequestInv, GuestInv, GuestOK, TypeOK
<1> QED
  BY <1>1, StreamCorrect, PTL

(* Nobody waits on a socket nothing writes to: an open connection is in the   *)
(* room, on its way into it, or its writePump is about to close it.           *)
THEOREM NobodyIsDeaf == Spec => []NobodyDeaf
<1>1. StreamInv => NobodyDeaf
  BY DEF StreamInv, HubInv
<1> QED
  BY <1>1, StreamCorrect, PTL

(* broadcastToRoom never skips a connection it keeps: what is in the channel  *)
(* is exactly what the room was sent since the connection entered it.         *)
THEOREM NoGapIsSilent == Spec => []NoSilentGap
<1>1. StreamInv => NoSilentGap
  BY DEF StreamInv, HubInv
<1> QED
  BY <1>1, StreamCorrect, PTL

(* WSConnection fails for good only if the session ended or a request failed  *)
(* for a technical reason since the last connection.                          *)
THEOREM GivingUpHasAReason == Spec => []GivesUpOnlyInTrouble
<1>1. StreamInv => GivesUpOnlyInTrouble
  BY DEF StreamInv, GuestInv, GuestOK, GivesUpOnlyInTrouble
<1> QED
  BY <1>1, StreamCorrect, PTL

LEMMA SnapshotStep ==
  ASSUME StreamInv, [Next]_vars, guest.pc = "fetching", guest'.pc = "connecting"
  PROVE  guest'.view >= guest.view
<1>1. /\ guest \in GuestState
      /\ guest.orders # Unread => guest.view <= guest.orders
  BY DEF StreamInv, GuestInv, GuestOK
<1>2. ASSUME guest' = guest PROVE FALSE
  BY <1>2
<1>3. ASSUME NEW g \in GuestState, guest' = Backoff(g) PROVE FALSE
  <2>1. Backoff(g).pc \in {"backoff", "failed"}
    BY DEF Backoff, GuestState
  <2> QED
    BY <1>3, <2>1
<1>4. CASE reconcileSnapshot
  <2>1. guest'.view = guest.orders
    BY <1>1, <1>4 DEF reconcileSnapshot, Reconciled, GuestState
  <2>2. guest.orders # Unread
    BY <1>4 DEF reconcileSnapshot, Fetched
  <2> QED
    BY <1>1, <2>1, <2>2 DEF GuestState, Unread
<1>5. CASE RequestFails
  <2>1. InTrouble(guest) \in GuestState
    BY <1>1 DEF InTrouble, GuestState
  <2> QED
    BY <1>3, <1>5, <2>1 DEF RequestFails
<1>6. CASE ReadOrders
  BY <1>1, <1>6 DEF ReadOrders, GuestState
<1>7. CASE ListSessionEventsAfter
  BY <1>1, <1>7 DEF ListSessionEventsAfter, GuestState
<1>8. CASE openSocketRefused \/ onclose \/ reconnect \/ retry \/ PauseSession
  BY <1>2, <1>8 DEF openSocketRefused, onclose, reconnect, retry, PauseSession
<1>9. ASSUME NEW c \in Sockets, openSocket(c) PROVE FALSE
  BY <1>9 DEF openSocket
<1>10. ASSUME NEW c \in Sockets, Deliver(c) PROVE FALSE
  <2>1. guest.sock = NoSocket
    BY DEF StreamInv, GuestInv, GuestOK
  <2> QED
    BY <1>2, <1>10, <2>1, StreamAssumption DEF Deliver
<1>11. ASSUME NEW t \in Tasks, Request(t) \/ LoseEvent(t) PROVE FALSE
  BY <1>2, <1>11 DEF Request, ChangeOrder, CloseSession, AppendSessionEvent,
                     PublishEvent, LoseEvent
<1>12. CASE \/ HubOnly(HubStep) \/ HubOnly(Restart)
            \/ Faulty(drainAll) \/ Faulty(Exit) \/ Faulty(LoseSubscription)
            \/ HubOnly(Resubscribe)
  BY <1>2, <1>12 DEF HubOnly, Faulty
<1>13. ASSUME NEW c \in Sockets,
              \/ HubOnly(Drop(c)) \/ HubOnly(ReadPing(c))
              \/ HubOnly(LeaveReadPump(c)) \/ HubOnly(LeaveWritePump(c))
       PROVE  FALSE
  BY <1>2, <1>13 DEF HubOnly
<1>14. CASE UNCHANGED vars
  BY <1>2, <1>14 DEF vars, streamVars
<1>15. CASE endSession
  BY <1>1, <1>15 DEF endSession, GuestState
<1> QED
  BY <1>4, <1>5, <1>6, <1>7, <1>8, <1>9, <1>10, <1>11, <1>12, <1>13, <1>14, <1>15
     DEF Next, GuestStep

(* A snapshot never takes back what the guest was shown.                      *)
THEOREM SnapshotsGoForward == Spec => SnapshotNeverGoesBack
<1>1. StreamInv /\ [Next]_vars =>
        [guest.pc = "fetching" /\ guest'.pc = "connecting" => guest'.view >= guest.view]_vars
  BY SnapshotStep
<1>2. SnapshotNeverGoesBack
      <=> [][guest.pc = "fetching" /\ guest'.pc = "connecting"
             => guest'.view >= guest.view]_vars
  BY DEF SnapshotNeverGoesBack
<1> QED
  BY <1>1, <1>2, StreamCorrect, PTL DEF Spec

-----------------------------------------------------------------------------
(* What panics.  NeverPanics is false (hub_panic); there are two ways to send *)
(* on a closed channel, and no third.                                         *)

\* The hub's select never has the unregistration of a connection ready while the
\* registration of the same connection still waits in the other channel.
RegisterFirst ==
  unregister # << >> => \A i \in 1..Len(register) : register[i] # Head(unregister)

\* No readPump answers a PING once the hub has closed the connection's channel.
NoPingAfterClose == \A c \in Sockets : ReadPing(c) => ~sendClosed[c]

\* The hub sends on no closed channel: those of the room are open.
RoomIsOpen == \A c \in room : ~sendClosed[c]

\* Neither is a channel that waits to enter the room.
ChannelsOpen ==
  RoomIsOpen /\ \A i \in 1..Len(register) : ~sendClosed[register[i]]

LEMMA EndEmpties ==
  ASSUME NEW how, End(how)
  PROVE  proc' = how /\ ChannelsOpen'
<1>1. room' = {} /\ register' = << >> /\ proc' = how
  BY DEF End
<1> QED BY <1>1 DEF ChannelsOpen, RoomIsOpen

LEMMA SameChannels ==
  ASSUME ChannelsOpen, UNCHANGED <<room, register, sendClosed>>
  PROVE  ChannelsOpen'
BY DEF ChannelsOpen, RoomIsOpen

\* Which of the hub's steps is behind a step of the stream.
LEMMA HubCauses ==
  ASSUME [Next]_vars
  PROVE  \/ addToRoom \/ removeFromRoom \/ broadcastToRoom
         \/ drainAll \/ Exit
         \/ \E c \in Sockets : Upgrade(c) \/ ReadPing(c)
         \/ /\ UNCHANGED <<room, register, sendClosed>>
            /\ proc' = proc \/ proc' = "up"
<1> DEFINE Quiet == /\ UNCHANGED <<room, register, sendClosed>>
                    /\ proc' = proc \/ proc' = "up"
<1> USE DEF hubVars, queues, pumps
<1>1. ASSUME NEW t \in Tasks, Request(t) \/ LoseEvent(t) PROVE Quiet
  BY <1>1 DEF Request, ChangeOrder, CloseSession, AppendSessionEvent, PublishEvent,
              Publish, LoseEvent
<1>2. PauseSession \/ RequestFails \/ retry => Quiet
  BY DEF PauseSession, RequestFails, retry
<1>3. GuestStep => Quiet \/ \E c \in Sockets : Upgrade(c)
  BY DEF GuestStep, openSocket, openSocketRefused, endSession, onclose, reconnect, ReadOrders,
         ListSessionEventsAfter, reconcileSnapshot
<1>4. HubOnly(HubStep) => addToRoom \/ removeFromRoom \/ broadcastToRoom
  BY DEF HubOnly, HubStep
<1>5. HubOnly(Restart) \/ Faulty(LoseSubscription) \/ HubOnly(Resubscribe) => Quiet
  BY DEF HubOnly, Faulty, Restart, LoseSubscription, Resubscribe
<1>6. Faulty(drainAll) \/ Faulty(Exit) => drainAll \/ Exit
  BY DEF HubOnly, Faulty
<1>7. ASSUME NEW c \in Sockets,
             Deliver(c) \/ HubOnly(Drop(c)) \/ HubOnly(LeaveReadPump(c))
               \/ HubOnly(LeaveWritePump(c))
      PROVE  Quiet
  BY <1>7 DEF Deliver, Write, HubOnly, Drop, LeaveReadPump, LeaveWritePump
<1>8. ASSUME NEW c \in Sockets, HubOnly(ReadPing(c)) PROVE ReadPing(c)
  BY <1>8 DEF HubOnly
<1>9. UNCHANGED vars => Quiet
  BY DEF vars, streamVars
<1> QED
  BY <1>1, <1>2, <1>3, <1>4, <1>5, <1>6, <1>7, <1>8, <1>9 DEF Next

LEMMA ChannelsStayOpen ==
  ASSUME HubInv, ChannelsOpen, RegisterFirst, [Next]_vars
  PROVE  ChannelsOpen'
<1>1. /\ room \subseteq Sockets /\ register \in Seq(Sockets)
      /\ unregister \in Seq(Sockets) /\ sendClosed \in [Sockets -> BOOLEAN]
      /\ \A i \in 1..Len(register) : register[i] \notin room /\ register[i] \in Sockets
  BY DEF HubInv, TypeOKHub, RegisteredOnce
<1>2. CASE addToRoom
  <2>1. /\ Head(register) = register[1] /\ 1 \in 1..Len(register)
        /\ \A i \in 1..Len(Tail(register)) : Tail(register)[i] = register[i + 1]
        /\ Len(Tail(register)) = Len(register) - 1 /\ Len(register) \in Nat
    BY <1>1, <1>2, TailFacts DEF addToRoom
  <2>2. \A i \in 1..Len(Tail(register)) : i + 1 \in 1..Len(register)
    BY <2>1
  <2> QED BY <1>2, <2>1, <2>2 DEF addToRoom, ChannelsOpen, RoomIsOpen
<1>3. CASE removeFromRoom
  <2>1. Head(unregister) \in Sockets
    BY <1>1, <1>3, TailFacts DEF removeFromRoom
  <2>2. \A i \in 1..Len(register) : register[i] # Head(unregister)
    BY <1>3 DEF removeFromRoom, RegisterFirst
  <2> QED BY <1>1, <1>3, <2>1, <2>2 DEF removeFromRoom, ChannelsOpen, RoomIsOpen
<1>4. CASE broadcastToRoom
  <2>1. CASE End("panicked")
    BY <2>1, EndEmpties
  <2>2. CASE ~End("panicked")
    <3>1. /\ room' = room \ Slow /\ register' = register
          /\ sendClosed' = [c \in Sockets |-> sendClosed[c] \/ c \in Slow]
      BY <1>4, <2>2 DEF broadcastToRoom, Fanout
    <3>2. Slow \subseteq room
      BY DEF Slow
    <3> QED BY <1>1, <3>1, <3>2 DEF ChannelsOpen, RoomIsOpen
  <2> QED BY <2>1, <2>2
<1>5. CASE drainAll
  BY <1>1, <1>5 DEF drainAll, queues, ChannelsOpen, RoomIsOpen
<1>6. CASE Exit
  BY <1>6, EndEmpties DEF Exit
<1>7. ASSUME NEW c \in Sockets, Upgrade(c) PROVE ChannelsOpen'
  <2>1. /\ room' = room /\ register' = Append(register, c)
        /\ sendClosed' = [sendClosed EXCEPT ![c] = FALSE]
    BY <1>7 DEF Upgrade
  <2>2. /\ Len(Append(register, c)) = Len(register) + 1 /\ Len(register) \in Nat
        /\ \A i \in 1..Len(register) : Append(register, c)[i] = register[i]
        /\ Append(register, c)[Len(register) + 1] = c
    BY <1>1, AppendFacts
  <2>3. \A d \in Sockets : sendClosed'[d] => sendClosed[d]
    BY <1>1, <2>1
  <2>4. ASSUME NEW i \in 1..Len(register') PROVE ~sendClosed'[register'[i]]
    <3>1. CASE i = Len(register) + 1
      BY <1>1, <2>1, <2>2, <3>1
    <3>2. CASE i \in 1..Len(register)
      BY <1>1, <2>1, <2>2, <2>3, <3>2 DEF ChannelsOpen
    <3> QED BY <2>1, <2>2, <2>4, <3>1, <3>2
  <2> QED BY <1>1, <2>1, <2>3, <2>4 DEF ChannelsOpen, RoomIsOpen
<1>8. ASSUME NEW c \in Sockets, ReadPing(c) PROVE ChannelsOpen'
  BY <1>8, EndEmpties, SameChannels DEF ReadPing, queues
<1>9. CASE UNCHANGED <<room, register, sendClosed>>
  BY <1>9, SameChannels
<1> QED
  BY <1>2, <1>3, <1>4, <1>5, <1>6, <1>7, <1>8, <1>9, HubCauses

LEMMA OpenAlways == Spec /\ []RegisterFirst => []ChannelsOpen
<1>1. Init => ChannelsOpen
  BY DEF Init, HubInit, ChannelsOpen, RoomIsOpen
<1>2. StreamInv /\ ChannelsOpen /\ RegisterFirst /\ [Next]_vars => ChannelsOpen'
  BY ChannelsStayOpen DEF StreamInv
<1> QED BY <1>1, <1>2, StreamCorrect, PTL DEF Spec

(* broadcastToRoom finds no closed channel unless the hub handled the         *)
(* unregistration of a connection before its registration, whatever evictions *)
(* and faults there are (addClient and removeClient in Run's select).         *)
THEOREM FanoutIsSafe == Spec /\ []RegisterFirst => []RoomIsOpen
<1>1. ChannelsOpen => RoomIsOpen
  BY DEF ChannelsOpen
<1> QED BY <1>1, OpenAlways, PTL

(* And the only other send on a closed channel is the answer to a PING that   *)
(* arrives after the hub has closed the connection's channel (readPump).      *)
THEOREM TwoWaysToPanic ==
  Spec /\ []RegisterFirst /\ [][NoPingAfterClose]_vars => []NeverPanics
<1>1. Init => NeverPanics
  BY DEF Init, HubInit, NeverPanics
<1>2. ChannelsOpen /\ NeverPanics /\ [Next]_vars /\ [NoPingAfterClose]_vars
        => NeverPanics'
  <2> SUFFICES ASSUME ChannelsOpen, NeverPanics, [Next]_vars, [NoPingAfterClose]_vars
               PROVE  NeverPanics'
    OBVIOUS
  <2>1. UNCHANGED vars => proc' = proc
    BY DEF vars, hubVars
  <2>2. CASE addToRoom \/ removeFromRoom \/ drainAll \/ \E c \in Sockets : Upgrade(c)
    BY <2>2 DEF addToRoom, removeFromRoom, drainAll, Upgrade, NeverPanics
  <2>3. CASE broadcastToRoom
    BY <2>3 DEF broadcastToRoom, Fanout, ChannelsOpen, RoomIsOpen, NeverPanics
  <2>4. CASE Exit
    BY <2>4, EndEmpties DEF Exit, NeverPanics
  <2>5. ASSUME NEW c \in Sockets, ReadPing(c) PROVE NeverPanics'
    BY <2>1, <2>5 DEF ReadPing, NoPingAfterClose, NeverPanics
  <2>6. CASE proc' = proc \/ proc' = "up"
    BY <2>6 DEF NeverPanics
  <2> QED BY <2>2, <2>3, <2>4, <2>5, <2>6, HubCauses
<1> QED BY <1>1, <1>2, OpenAlways, PTL DEF Spec

=============================================================================
