--------------------------- MODULE QueryLogProofs ---------------------------
(***************************************************************************)
(* Theorems about QueryLog, for any number of queries, server blocks,      *)
(* capacities and reloads: its types, that the ring holds the newest       *)
(* entries however often it wrapped, that the blocks and the GUI share one *)
(* ring, that the rollup in memory and the stored rows tell the same, that *)
(* filters and pages show each entry of the ring once, and that the        *)
(* breakdown by client adds up to the series.                              *)
(***************************************************************************)
EXTENDS QueryLog, CommonFacts

---------------------------------------------------------------------------
(* The ring. *)

\* Indices go round the buffer once at most.
LEMMA GoesRound ==
    ASSUME NEW c \in Nat \ {0}, NEW x \in 0..(2 * c - 1)
    PROVE  x % c = IF x < c THEN x ELSE x - c
OBVIOUS

\* One step back from the head moved on is the slot the head was at, and the
\* steps after it are those from the old head, which never come back to it.
LEMMA StepsBack ==
    ASSUME NEW c \in Nat \ {0}, NEW h \in 0..(c - 1)
    PROVE  LET g == (h + 1) % c
           IN /\ (g - 1 + c) % c = h
              /\ \A j \in 1..(c - 1) :
                    /\ (g - (j + 1) + c) % c = (h - j + c) % c
                    /\ (h - j + c) % c # h
                    /\ (h - j + c) % c \in 0..(c - 1)
<1> DEFINE g == (h + 1) % c
           Round(x) == IF x < c THEN x ELSE x - c
<1>1. \A x \in 0..(2 * c - 1) : x % c = Round(x)
  BY GoesRound
<1>2. g = Round(h + 1)
  BY <1>1, h + 1 \in 0..(2 * c - 1)
<1>3. g \in 0..(c - 1) /\ (h + 1 < c => g = h + 1) /\ (~(h + 1 < c) => g = 0 /\ h = c - 1)
  BY <1>2
<1> HIDE DEF g
<1>4. g - 1 + c \in 0..(2 * c - 1) /\ Round(g - 1 + c) = h
  BY <1>3
<1>5. ASSUME NEW j \in 1..(c - 1)
      PROVE  /\ (g - (j + 1) + c) % c = (h - j + c) % c
             /\ (h - j + c) % c # h
             /\ (h - j + c) % c \in 0..(c - 1)
  <2>1. h - j + c \in 0..(2 * c - 1) /\ g - (j + 1) + c \in 0..(2 * c - 1)
    BY <1>3
  <2>2. Round(g - (j + 1) + c) = Round(h - j + c)
    BY <1>3
  <2>3. Round(h - j + c) # h /\ Round(h - j + c) \in 0..(c - 1)
    OBVIOUS
  <2> HIDE DEF Round
  <2> QED
    BY <1>1, <2>1, <2>2, <2>3
<1>6. (g - 1 + c) % c = h
  BY <1>1, <1>4
<1> QED
  BY <1>5, <1>6 DEF g

\* Ring.Push keeps head and size inside the buffer.
LEMMA PushedTyped ==
    ASSUME NEW r, NEW q \in Query,
           r.cap \in Capacity,
           r.head \in 0..(r.cap - 1), r.size \in 0..r.cap,
           r.buf \in [0..(r.cap - 1) -> Query \cup {0}]
    PROVE  LET p == Pushed(r, q)
           IN /\ p.cap = r.cap
              /\ p.head \in 0..(r.cap - 1) /\ p.size \in 0..r.cap
              /\ p.buf \in [0..(r.cap - 1) -> Query \cup {0}]
<1>1. r.cap \in Nat \ {0}
  BY QueryLogAssumption
<1>2. (r.head + 1) % r.cap \in 0..(r.cap - 1)
  BY <1>1
<1>3. [r.buf EXCEPT ![r.head] = q] \in [0..(r.cap - 1) -> Query \cup {0}]
  OBVIOUS
<1>4. (IF r.size < r.cap THEN r.size + 1 ELSE r.size) \in 0..r.cap
  BY <1>1
<1> QED
  BY <1>2, <1>3, <1>4 DEF Pushed

\* Ring.Push writes the newest entry where the head was, and going back from the
\* new head passes it first and then the older ones, of which a full ring drops
\* the oldest.
LEMMA PushedTail ==
    ASSUME NEW r, NEW q \in Query, NEW s \in Seq(Query),
           r.cap \in Capacity,
           r.head \in 0..(r.cap - 1), r.size \in 0..r.cap,
           r.buf \in [0..(r.cap - 1) -> Query \cup {0}],
           TailOf(r, s)
    PROVE  TailOf(Pushed(r, q), Append(s, q))
<1> DEFINE p == Pushed(r, q)
           t == Append(s, q)
           c == r.cap
           h == r.head
           n == Len(s)
<1>1. c \in Nat \ {0} /\ h \in Nat /\ h < c /\ n \in Nat /\ r.size \in Nat
  <2>1. c \in Nat \ {0}
    BY QueryLogAssumption
  <2> QED
    BY <2>1
<1>2. /\ p.cap = c /\ p.head = (h + 1) % c
      /\ p.size = IF r.size < c THEN r.size + 1 ELSE r.size
      /\ p.buf = [r.buf EXCEPT ![h] = q]
  BY DEF Pushed
<1>3. /\ t \in Seq(Query) /\ Len(t) = n + 1 /\ t[n + 1] = q
      /\ \A i \in 1..n : t[i] = s[i]
  OBVIOUS
<1>4. /\ (p.head - 1 + c) % c = h
      /\ \A j \in 1..(c - 1) :
            /\ (p.head - (j + 1) + c) % c = (h - j + c) % c
            /\ (h - j + c) % c # h
            /\ (h - j + c) % c \in 0..(c - 1)
  <2>1. c \in Nat \ {0} /\ h \in 0..(c - 1)
    BY <1>1
  <2> HIDE DEF c, h, p
  <2>2. /\ (((h + 1) % c) - 1 + c) % c = h
        /\ \A j \in 1..(c - 1) :
              /\ (((h + 1) % c) - (j + 1) + c) % c = (h - j + c) % c
              /\ (h - j + c) % c # h
              /\ (h - j + c) % c \in 0..(c - 1)
    BY <2>1, StepsBack
  <2> QED
    BY <1>2, <2>2
<1>5. r.size = IF n < c THEN n ELSE c
  BY DEF TailOf
<1>6. p.size = IF Len(t) < p.cap THEN Len(t) ELSE p.cap
  BY <1>1, <1>2, <1>3, <1>5
<1>7. ASSUME NEW i \in 1..p.size
      PROVE  p.buf[(p.head - i + p.cap) % p.cap] = t[Len(t) - i + 1]
  <2>1. i \in Nat /\ 1 <= i /\ i <= c /\ i <= n + 1
    BY <1>1, <1>2, <1>3, <1>6
  <2>2. CASE i = 1
    <3>2. (p.head - i + c) % c = h
      BY <1>4, <2>2
    <3>3. t[Len(t) - i + 1] = q
      BY <1>1, <1>3, <2>2
    <3> QED
      BY <1>2, <3>2, <3>3, ZenonT(60)
  <2>3. CASE i # 1
    <3> DEFINE j == i - 1
               x == (h - j + c) % c
    <3>1. j \in 1..r.size /\ j \in Nat /\ j < c
      BY <1>1, <1>2, <1>5, <2>1, <2>3
    <3>2. r.buf[x] = s[n - j + 1]
      BY <3>1 DEF TailOf
    <3>3. j \in 1..(c - 1) /\ i = j + 1
      BY <1>1, <2>1, <3>1
    <3>4. (p.head - i + c) % c = x
      BY <1>4, <3>3
    <3>5. x # h /\ x \in 0..(c - 1)
      BY <1>4, <3>3
    <3>6. p.buf[x] = r.buf[x]
      BY <1>2, <3>5
    <3>7. t[Len(t) - i + 1] = s[n - j + 1]
      <4>1. Len(t) - i + 1 = n - j + 1 /\ n - j + 1 \in 1..n
        BY <1>1, <1>3, <1>5, <2>1, <3>1
      <4> QED
        BY <1>3, <4>1
    <3> QED
      BY <1>2, <3>2, <3>4, <3>6, <3>7
  <2> QED
    BY <2>2, <2>3
<1> QED
  BY <1>6, <1>7 DEF TailOf

\* A ring nothing was pushed to.
LEMMA NewRingTail ==
    ASSUME NEW c \in Capacity
    PROVE  /\ NewRing(c).cap = c
           /\ NewRing(c).head \in 0..(c - 1) /\ NewRing(c).size \in 0..c
           /\ NewRing(c).buf \in [0..(c - 1) -> Query \cup {0}]
           /\ TailOf(NewRing(c), <<>>)
<1>1. c \in Nat \ {0}
  BY QueryLogAssumption
<1>2. [i \in 0..(c - 1) |-> 0] \in [0..(c - 1) -> Query \cup {0}]
  OBVIOUS
<1>3. 0 \in 0..(c - 1) /\ 0 \in 0..c /\ 1..0 = {} /\ 0 < c
  BY <1>1
<1> QED
  BY <1>1, <1>2, <1>3 DEF NewRing, TailOf

---------------------------------------------------------------------------
(* The rings: only Push writes to one, only Setup makes one. *)

\* A ring's own part of TypeOK.
RingTyped(r) ==
    /\ r.cap \in Capacity
    /\ r.head \in 0..(r.cap - 1) /\ r.size \in 0..r.cap
    /\ r.buf \in [0..(r.cap - 1) -> Query \cup {0}]

\* The rings and their ghosts, as LogShaped and RingsAreTails have them.
RingsInv ==
    /\ ring \in Seq(Range(ring)) /\ pushed \in Seq(Seq(Query))
    /\ Len(pushed) = Len(ring)
    /\ \A r \in Ring : RingTyped(ring[r]) /\ TailOf(ring[r], pushed[r])

\* No step takes a ring away or changes its capacity.
RingsMove ==
    \A r \in DOMAIN ring : r \in DOMAIN ring' /\ ring'[r].cap = ring[r].cap

\* The rings stay what they are, whoever pushes and whatever a reload asks for.
LEMMA RingsStep ==
    LogShaped /\ RingsInv /\ [Next]_vars => RingsInv' /\ RingsMove
<1> SUFFICES ASSUME LogShaped, RingsInv, [Next]_vars PROVE RingsInv' /\ RingsMove
  OBVIOUS
<1>1. /\ DOMAIN ring = 1..Len(ring) /\ Len(ring) \in Nat
      /\ DOMAIN pushed = 1..Len(ring) /\ \A r \in DOMAIN ring : pushed[r] \in Seq(Query)
  BY DEF RingsInv
<1>2. ASSUME UNCHANGED <<ring, pushed>> PROVE RingsInv' /\ RingsMove
  BY <1>2 DEF RingsInv, RingsMove, Ring
<1>3. ASSUME NEW q \in Query, Push(q) PROVE RingsInv' /\ RingsMove
  <2> DEFINE v == via[q]
             p == Pushed(ring[v], q)
             t == Append(pushed[v], q)
  <2>1. v \in DOMAIN ring /\ v \in DOMAIN pushed
    BY <1>1, <1>3 DEF Push, LogShaped, TypeOK, Ring
  <2>2. ring' = [ring EXCEPT ![v] = p] /\ pushed' = [pushed EXCEPT ![v] = t]
    BY <1>3 DEF Push
  <2>3. RingTyped(ring[v]) /\ TailOf(ring[v], pushed[v]) /\ pushed[v] \in Seq(Query)
    BY <1>1, <2>1 DEF RingsInv, Ring
  <2>4. RingTyped(p) /\ p.cap = ring[v].cap
    BY <2>3, PushedTyped DEF RingTyped
  <2>5. TailOf(p, t)
    BY <2>3, PushedTail DEF RingTyped
  <2>6. t \in Seq(Query)
    BY <2>3
  <2> HIDE DEF p, t, v
  <2>7. /\ ring' \in Seq(Range(ring')) /\ Len(ring') = Len(ring) /\ DOMAIN ring' = DOMAIN ring
        /\ ring'[v] = p /\ \A r \in DOMAIN ring \ {v} : ring'[r] = ring[r]
    BY <2>1, <2>2, SeqReplaced DEF RingsInv
  <2>8. /\ pushed' \in Seq(Seq(Query)) /\ Len(pushed') = Len(pushed)
        /\ pushed'[v] = t /\ \A r \in DOMAIN ring \ {v} : pushed'[r] = pushed[r]
    BY <1>1, <2>1, <2>2, <2>6 DEF RingsInv
  <2>9. ASSUME NEW r \in DOMAIN ring
        PROVE  RingTyped(ring'[r]) /\ TailOf(ring'[r], pushed'[r])
    BY <2>4, <2>5, <2>7, <2>8 DEF RingsInv, Ring
  <2>10. RingsMove
    BY <2>4, <2>7 DEF RingsMove
  <2>11. Len(pushed') = Len(ring')
    BY <2>7, <2>8 DEF RingsInv
  <2> QED
    BY <2>7, <2>8, <2>9, <2>10, <2>11 DEF RingsInv, Ring
<1>4. ASSUME NEW b \in Block, Setup(b) PROVE RingsInv' /\ RingsMove
  <2> DEFINE c == reload.capacity
             n == NewRing(c)
             e == <<>>
  <2>1. CASE ~NewRingNeeded(c)
    BY <1>2, <1>4, <2>1 DEF Setup
  <2>2. CASE NewRingNeeded(c)
    <3>1. ring' = Append(ring, n) /\ pushed' = Append(pushed, e)
      BY <1>4, <2>2 DEF Setup
    <3>2. c \in Capacity
      BY <1>4 DEF Setup, LogShaped
    <3>3. RingTyped(n) /\ TailOf(n, e)
      BY <3>2, NewRingTail DEF RingTyped
    <3>4. e \in Seq(Query)
      OBVIOUS
    <3> HIDE DEF n, e
    <3>5. /\ ring' \in Seq(Range(ring')) /\ Len(ring') = Len(ring) + 1
          /\ DOMAIN ring' = DOMAIN ring \cup {Len(ring) + 1}
          /\ \A r \in DOMAIN ring : ring'[r] = ring[r]
          /\ ring'[Len(ring) + 1] = n
      BY <3>1, SeqAppended DEF RingsInv
    <3>6. /\ pushed' \in Seq(Seq(Query)) /\ Len(pushed') = Len(ring) + 1
          /\ \A r \in DOMAIN ring : pushed'[r] = pushed[r]
          /\ pushed'[Len(ring) + 1] = e
      BY <1>1, <3>1, <3>4 DEF RingsInv
    <3>7. ASSUME NEW r \in DOMAIN ring'
          PROVE  RingTyped(ring'[r]) /\ TailOf(ring'[r], pushed'[r])
      BY <3>3, <3>5, <3>6, <3>7 DEF RingsInv, Ring
    <3>8. RingsMove
      BY <3>5 DEF RingsMove
    <3> QED
      BY <3>5, <3>6, <3>7, <3>8 DEF RingsInv, Ring
  <2> QED
    BY <2>1, <2>2
<1>5. CASE UNCHANGED vars
  BY <1>2, <1>5 DEF vars
<1>6. ASSUME NEW q \in Query, NEW b \in Block, NEW c \in Client, NEW n \in Name,
             ServeDNS(q, b, c, n)
      PROVE  RingsInv' /\ RingsMove
  BY <1>2, <1>6 DEF ServeDNS
<1>7. ASSUME NEW q \in Query, NEW o \in Outcome, NextReturns(q, o) PROVE RingsInv' /\ RingsMove
  BY <1>2, <1>7 DEF NextReturns
<1>8. ASSUME NEW q \in Query, Record(q) \/ Observe(q) PROVE RingsInv' /\ RingsMove
  BY <1>2, <1>8 DEF Record, Observe
<1>9. ASSUME \/ \E names \in SUBSET Name : SetHostNames(names)
             \/ \E c \in Capacity \cup {0} : BeginReload(c)
             \/ Swap \/ ReloadFails \/ Tick
      PROVE  RingsInv' /\ RingsMove
  BY <1>2, <1>9 DEF SetHostNames, BeginReload, Swap, ReloadFails, Tick
<1> QED
  BY <1>3, <1>4, <1>5, <1>6, <1>7, <1>8, <1>9 DEF Next

---------------------------------------------------------------------------
(* The queries. *)

\* TypeOK's part about queries and what they leave behind, with the maps' shape.
QueriesTyped ==
    /\ now \in Nat /\ dropped \in Nat /\ rows \subseteq Query
    /\ at \in [Query -> ServeAt]
    /\ \A q \in Query : at[q] # "new" => via[q] \in Ring /\ entry[q].client \in Client
    /\ \A q \in Query : at[q] \notin {"new", "next"} =>
          "" \notin {entry[q].source, entry[q].verdict, entry[q].cache}
    /\ DOMAIN entry = Query /\ DOMAIN via = Query

\* Every answer is attributed: claimed by a plugin, or found in the hosts set, or
\* left to the fallback.
LEMMA Attributed ==
    ASSUME NEW o \in Outcome, NEW name, NEW latency
    PROVE  LET a == Attribution(o, o.rcode, name, latency)
           IN a.source # "" /\ a.verdict # ""
BY OutcomeAssumption DEF Attribution, ClassifyFallback

\* Queries keep their types through every step: one that is served has a ring
\* that stays, and one that came back is attributed.
LEMMA QueriesStep ==
    LogShaped /\ RingsMove /\ [Next]_vars => QueriesTyped'
<1> SUFFICES ASSUME LogShaped, RingsMove, [Next]_vars PROVE QueriesTyped'
  OBVIOUS
<1>1. QueriesTyped
  BY DEF LogShaped, TypeOK, QueriesTyped
<1>2. \A r \in Ring : r \in Ring'
  BY DEF RingsMove, Ring
<1>3. ASSUME UNCHANGED <<at, entry, via, rows, dropped>>, now' \in Nat PROVE QueriesTyped'
  BY <1>1, <1>2, <1>3 DEF QueriesTyped
<1>4. ASSUME NEW q \in Query, UNCHANGED <<now, via, rows, dropped>>,
             at[q] # "new", NEW a \in ServeAt, at' = [at EXCEPT ![q] = a],
             DOMAIN entry' = Query, \A p \in Query \ {q} : entry'[p] = entry[p],
             entry'[q].client = entry[q].client,
             "" \notin {entry'[q].source, entry'[q].verdict, entry'[q].cache}
      PROVE  QueriesTyped'
  <2>1. at' \in [Query -> ServeAt] /\ at'[q] = a /\ \A p \in Query \ {q} : at'[p] = at[p]
    BY <1>1, <1>4 DEF QueriesTyped
  <2>2. ASSUME NEW p \in Query, at'[p] # "new"
        PROVE  via'[p] \in Ring' /\ entry'[p].client \in Client
    BY <1>1, <1>2, <1>4, <2>1, <2>2 DEF QueriesTyped
  <2>3. ASSUME NEW p \in Query, at'[p] \notin {"new", "next"}
        PROVE  "" \notin {entry'[p].source, entry'[p].verdict, entry'[p].cache}
    BY <1>1, <1>4, <2>1, <2>3 DEF QueriesTyped
  <2>4. /\ now' \in Nat /\ dropped' \in Nat /\ rows' \subseteq Query
        /\ DOMAIN entry' = Query /\ DOMAIN via' = Query
    BY <1>1, <1>4 DEF QueriesTyped
  <2> QED
    BY <2>1, <2>2, <2>3, <2>4 DEF QueriesTyped
<1>5. ASSUME NEW q \in Query, NEW b \in Block, NEW c \in Client, NEW n \in Name,
             ServeDNS(q, b, c, n)
      PROVE  QueriesTyped'
  <2>1. /\ at' = [at EXCEPT ![q] = "next"] /\ entry' = [entry EXCEPT ![q] = NewEntry(c, n)]
        /\ via' = [via EXCEPT ![q] = running[b]] /\ running[b] # 0
        /\ UNCHANGED <<now, ring, rows, dropped>>
    BY <1>5 DEF ServeDNS
  <2>2. running[b] \in Ring'
    BY <1>2, <2>1 DEF LogShaped, TypeOK
  <2>3. NewEntry(c, n).client = c
    BY DEF NewEntry
  <2>4. /\ at' \in [Query -> ServeAt] /\ at'[q] = "next"
        /\ \A p \in Query \ {q} : at'[p] = at[p]
    BY <1>1, <2>1 DEF QueriesTyped, ServeAt
  <2>5. ASSUME NEW p \in Query, at'[p] # "new"
        PROVE  via'[p] \in Ring' /\ entry'[p].client \in Client
    BY <1>1, <1>2, <2>1, <2>2, <2>3, <2>4, <2>5 DEF QueriesTyped
  <2>6. ASSUME NEW p \in Query, at'[p] \notin {"new", "next"}
        PROVE  "" \notin {entry'[p].source, entry'[p].verdict, entry'[p].cache}
    BY <1>1, <2>1, <2>4, <2>6 DEF QueriesTyped
  <2>7. /\ now' \in Nat /\ dropped' \in Nat /\ rows' \subseteq Query
        /\ DOMAIN entry' = Query /\ DOMAIN via' = Query
    BY <1>1, <2>1 DEF QueriesTyped
  <2> QED
    BY <2>4, <2>5, <2>6, <2>7 DEF QueriesTyped
<1>6. ASSUME NEW q \in Query, NEW o \in Outcome, NextReturns(q, o) PROVE QueriesTyped'
  <2> DEFINE a == Attribution(o, o.rcode, entry[q].name, now - entry[q].start)
             e == [client |-> entry[q].client, name |-> entry[q].name,
                   start |-> entry[q].start, source |-> a.source, verdict |-> a.verdict,
                   cache |-> IF o.cache = "" THEN "none" ELSE o.cache]
  <2>1. /\ at[q] = "next" /\ at' = [at EXCEPT ![q] = "push"]
        /\ entry' = [entry EXCEPT ![q] = e] /\ UNCHANGED <<now, via, rows, dropped>>
    BY <1>6 DEF NextReturns
  <2>2. a.source # "" /\ a.verdict # ""
    BY Attributed
  <2> HIDE DEF a
  <2>3. "" \notin {e.source, e.verdict, e.cache} /\ e.client = entry[q].client
    BY <2>2
  <2> HIDE DEF e
  <2>4. /\ DOMAIN entry' = Query /\ entry'[q] = e
        /\ \A p \in Query \ {q} : entry'[p] = entry[p]
    BY <1>1, <2>1 DEF QueriesTyped
  <2> QED
    BY <1>4, <2>1, <2>3, <2>4 DEF ServeAt
<1>7. ASSUME NEW q \in Query, Push(q) \/ Observe(q) PROVE QueriesTyped'
  <2>1. PICK a \in {"record", "end"} : at' = [at EXCEPT ![q] = a]
    BY <1>7 DEF Push, Observe
  <2>2. at[q] \notin {"new", "next"} /\ UNCHANGED <<now, entry, via, rows, dropped>>
    BY <1>7 DEF Push, Observe
  <2>3. "" \notin {entry[q].source, entry[q].verdict, entry[q].cache} /\ DOMAIN entry = Query
    BY <1>1, <2>2 DEF QueriesTyped
  <2> QED
    BY <1>4, <2>1, <2>2, <2>3 DEF ServeAt
<1>8. ASSUME NEW q \in Query, Record(q) PROVE QueriesTyped'
  <2>1. /\ at[q] = "record" /\ at' = [at EXCEPT ![q] = "observe"]
        /\ UNCHANGED <<now, entry, via>>
    BY <1>8 DEF Record
  <2>2. dropped' \in Nat /\ rows' \subseteq Query
    <3>1. \/ rows' = rows \cup {q} /\ dropped' = dropped
          \/ dropped' = dropped + 1 /\ rows' = rows
      BY <1>8 DEF Record
    <3>2. dropped \in Nat /\ rows \subseteq Query
      BY <1>1 DEF QueriesTyped
    <3> QED
      BY <3>1, <3>2
  <2>3. at' \in [Query -> ServeAt] /\ \A p \in Query \ {q} : at'[p] = at[p]
    BY <1>1, <2>1 DEF QueriesTyped, ServeAt
  <2> QED
    BY <1>1, <1>2, <2>1, <2>2, <2>3 DEF QueriesTyped
<1>9. ASSUME \/ \E names \in SUBSET Name : SetHostNames(names)
             \/ \E c \in Capacity \cup {0} : BeginReload(c)
             \/ \E b \in Block : Setup(b)
             \/ Swap \/ ReloadFails \/ Tick \/ UNCHANGED vars
      PROVE  QueriesTyped'
  <2>1. UNCHANGED <<at, entry, via, rows, dropped>>
    BY <1>9 DEF SetHostNames, BeginReload, Setup, Swap, ReloadFails, Tick, vars
  <2>2. now' = now \/ now' = now + 1
    BY <1>9 DEF SetHostNames, BeginReload, Setup, Swap, ReloadFails, Tick, vars
  <2>3. now' \in Nat
    <3>1. now \in Nat
      BY <1>1 DEF QueriesTyped
    <3> QED
      BY <2>2, <3>1
  <2> QED
    BY <1>3, <2>1, <2>3
<1> QED
  BY <1>5, <1>6, <1>7, <1>8, <1>9 DEF Next

---------------------------------------------------------------------------
(* Reloads. *)

\* TypeOK's part about reloads.
ReloadTyped ==
    /\ reloads \in Nat
    /\ current \in Ring \cup {0} /\ running \in [Block -> Ring \cup {0}]
    /\ DOMAIN reload.got \subseteq Block
    /\ reload.capacity \in Capacity \cup {0}

\* Nothing is set up while no parse is under way.
LEMMA Idle ==
    /\ NoReload.capacity = 0 /\ ~NoReload.marked
    /\ DOMAIN NoReload.got = {} /\ NoReload.got = [b \in {} |-> current']
<1>1. <<>> = [b \in {} |-> current']
  OBVIOUS
<1> QED
  BY <1>1 DEF NoReload

\* The set-up of a block gives it the current ring, which only the first of a
\* parse replaces, and only by one of another capacity.
LEMMA SetupShares ==
    ASSUME ReloadTyped, ReloadInv, RingsInv, RingsMove, NEW b \in Block, Setup(b)
    PROVE  ReloadTyped' /\ ReloadInv'
<1> DEFINE c == reload.capacity
           new == NewRingNeeded(c)
           id == IF new THEN Len(ring) + 1 ELSE current
           got == [d \in DOMAIN reload.got \cup {b} |-> IF d = b THEN id ELSE reload.got[d]]
<1>1. /\ c # 0 /\ current' = id
      /\ ring' = (IF new THEN Append(ring, NewRing(c)) ELSE ring)
      /\ reload' = [capacity |-> c, marked |-> TRUE, got |-> got]
      /\ UNCHANGED <<running, reloads, torn>>
  BY DEF Setup
<1>2. DOMAIN got = DOMAIN reload.got \cup {b}
  OBVIOUS
<1>3. id \in Ring'
  <2>1. CASE ~new
    <3>1. current # 0
      BY <1>1, <2>1 DEF NewRingNeeded, ReloadInv
    <3> QED
      BY <1>1, <2>1, <3>1 DEF ReloadTyped, Ring
  <2>2. CASE new
    <3>1. DOMAIN ring' = DOMAIN ring \cup {Len(ring) + 1}
      BY <1>1, <2>2, SeqAppended DEF RingsInv
    <3> QED
      BY <2>2, <3>1 DEF Ring
  <2> QED
    BY <2>1, <2>2
<1>4. \A d \in DOMAIN got : got[d] = id
  <2>1. SUFFICES ASSUME NEW d \in DOMAIN reload.got, d # b PROVE reload.got[d] = id
    BY <1>2
  <2>2. reload.marked /\ reload.got[d] = current
    BY DEF ReloadInv
  <2> QED
    BY <2>2 DEF NewRingNeeded
<1>5. ASSUME ~torn', NEW d \in Block, running'[d] # 0
      PROVE  running'[d] = current' \/ c \notin {0, ring'[running'[d]].cap}
  <2>1. running[d] \in Ring /\ ring'[running[d]].cap = ring[running[d]].cap
    BY <1>1, <1>5 DEF ReloadTyped, RingsMove, Ring
  <2>2. running[d] = current \/ c \notin {0, ring[running[d]].cap}
    BY <1>1, <1>5 DEF ReloadInv
  <2>3. CASE ~new
    BY <1>1, <2>1, <2>2, <2>3
  <2>4. CASE new
    <3>1. current = 0 \/ ring[current].cap # c
      BY <2>4 DEF NewRingNeeded
    <3> QED
      BY <1>1, <1>5, <2>1, <2>2, <3>1
  <2> QED
    BY <2>3, <2>4
<1> HIDE DEF id, new, got, c
<1>6. reload'.capacity = c /\ reload'.got = got /\ reload'.marked
  BY <1>1
<1>10. current' # 0
  BY <1>1, <1>3 DEF Ring, RingsMove, RingsInv
<1>9. got = [d \in DOMAIN got |-> current']
  BY <1>1, <1>4 DEF got
<1>7. ReloadTyped'
  <2>1. running' \in [Block -> Ring' \cup {0}]
    BY <1>1 DEF ReloadTyped, RingsMove, Ring
  <2>2. reloads' \in Nat /\ current' \in Ring' \cup {0}
    BY <1>1, <1>3 DEF ReloadTyped
  <2>3. DOMAIN reload'.got \subseteq Block /\ reload'.capacity \in Capacity \cup {0}
    BY <1>2, <1>6 DEF ReloadTyped, c
  <2> QED
    BY <2>1, <2>2, <2>3 DEF ReloadTyped
<1>8. ReloadInv'
  <2>1. \A d, e \in Block : running'[d] = running'[e]
    BY <1>1 DEF ReloadInv
  <2> QED
    BY <1>1, <1>5, <1>6, <1>9, <1>10, <2>1 DEF ReloadInv
<1> QED
  BY <1>7, <1>8

\* Reloads keep the blocks together: a new instance takes the ring its blocks were
\* given, and a failure leaves the old one apart only from a ring of another
\* capacity, which torn records.
LEMMA ReloadStep ==
    ReloadTyped /\ ReloadInv /\ RingsInv /\ RingsMove /\ [Next]_vars
        => ReloadTyped' /\ ReloadInv'
<1> SUFFICES ASSUME ReloadTyped, ReloadInv, RingsInv, RingsMove, [Next]_vars
             PROVE  ReloadTyped' /\ ReloadInv'
  OBVIOUS
<1>1. /\ \A r \in Ring : r \in Ring' /\ ring'[r].cap = ring[r].cap
      /\ \A b \in Block : running[b] # 0 => ring'[running[b]].cap = ring[running[b]].cap
  BY DEF RingsMove, Ring, ReloadTyped
<1>2. current \in Ring' \cup {0} /\ running \in [Block -> Ring' \cup {0}]
  BY <1>1 DEF ReloadTyped
<1>3. ASSUME UNCHANGED <<current, running, reload, reloads, torn>>
      PROVE  ReloadTyped' /\ ReloadInv'
  <2>1. ReloadTyped'
    BY <1>2, <1>3 DEF ReloadTyped
  <2>2. ReloadInv'
    BY <1>1, <1>3 DEF ReloadInv
  <2> QED
    BY <2>1, <2>2
<1>4. ASSUME NEW c \in Capacity \cup {0}, BeginReload(c) PROVE ReloadTyped' /\ ReloadInv'
  <2>1. /\ reload = NoReload /\ reloads' = reloads + 1
        /\ reload' = [capacity |-> c, got |-> <<>>, marked |-> c = 0]
        /\ UNCHANGED <<current, running, torn>>
    BY <1>4 DEF BeginReload
  <2>2. /\ reload'.capacity = c
        /\ DOMAIN reload'.got = {} /\ reload'.got = [b \in {} |-> current']
    BY <2>1, Idle DEF NoReload
  <2>3. reloads' \in Nat
    BY <2>1 DEF ReloadTyped
  <2>4. ReloadTyped'
    BY <1>2, <2>1, <2>2, <2>3 DEF ReloadTyped
  <2>5. reload.capacity = 0
    BY <2>1, Idle
  <2>6. ~torn => \A b \in Block : running[b] # 0 => running[b] = current
    BY <2>5 DEF ReloadInv
  <2>7. ReloadInv'
    BY <2>1, <2>2, <2>6 DEF ReloadInv
  <2> QED
    BY <2>4, <2>7
<1>5. CASE Swap
  <2>1. /\ reload.capacity = 0 \/ DOMAIN reload.got = Block
        /\ running' = IF reload.capacity = 0 THEN [b \in Block |-> 0] ELSE reload.got
        /\ reload' = NoReload /\ torn' = FALSE
        /\ UNCHANGED <<current, reloads>>
    BY <1>5 DEF Swap
  <2>2. /\ running' \in [Block -> Ring' \cup {0}]
        /\ \A b \in Block : running'[b] # 0 => running'[b] = current
        /\ \A b, d \in Block : running'[b] = running'[d]
    <3>1. CASE reload.capacity = 0
      BY <2>1, <3>1
    <3>2. CASE reload.capacity # 0
      <4>1. running' = reload.got /\ DOMAIN reload.got = Block
        BY <2>1, <3>2
      <4>2. running' = [b \in Block |-> current]
        BY <4>1 DEF ReloadInv
      <4> QED
        BY <1>2, <4>2
    <3> QED
      BY <3>1, <3>2
  <2>3. ReloadTyped'
    BY <1>2, <2>1, <2>2, Idle DEF ReloadTyped
  <2>4. ReloadInv'
    BY <2>1, <2>2, Idle DEF ReloadInv
  <2> QED
    BY <2>3, <2>4
<1>6. CASE ReloadFails
  <2>1. /\ reload' = NoReload
        /\ torn' = (torn \/ \E b \in Block : running[b] # 0
                                /\ reload.capacity \notin {0, ring[running[b]].cap})
        /\ UNCHANGED <<current, running, reloads>>
    BY <1>6 DEF ReloadFails
  <2>2. ReloadTyped'
    BY <1>2, <2>1, Idle DEF ReloadTyped
  <2>3. ~torn' => \A b \in Block : running[b] # 0 => running[b] = current
    BY <2>1 DEF ReloadInv
  <2>4. ReloadInv'
    BY <2>1, <2>3, Idle DEF ReloadInv
  <2> QED
    BY <2>2, <2>4
<1>7. ASSUME NEW b \in Block, Setup(b) PROVE ReloadTyped' /\ ReloadInv'
  BY <1>7, SetupShares
<1>8. ASSUME NEW names \in SUBSET Name, SetHostNames(names) PROVE ReloadTyped' /\ ReloadInv'
  <2>1. reloads' = reloads + 1 /\ UNCHANGED <<current, running, reload, torn>>
    BY <1>8 DEF SetHostNames
  <2>2. reloads' \in Nat
    BY <2>1 DEF ReloadTyped
  <2>3. ReloadTyped'
    BY <1>2, <2>1, <2>2 DEF ReloadTyped
  <2>4. ReloadInv'
    BY <1>1, <2>1 DEF ReloadInv
  <2> QED
    BY <2>3, <2>4
<1>9. ASSUME NEW q \in Query,
             \/ \E b \in Block, c \in Client, n \in Name : ServeDNS(q, b, c, n)
             \/ \E o \in Outcome : NextReturns(q, o)
             \/ Push(q) \/ Record(q) \/ Observe(q)
      PROVE  ReloadTyped' /\ ReloadInv'
  BY <1>3, <1>9 DEF ServeDNS, NextReturns, Push, Record, Observe, reloadVars
<1>10. CASE Tick \/ UNCHANGED vars
  BY <1>3, <1>10 DEF Tick, vars, reloadVars
<1> QED
  BY <1>4, <1>5, <1>6, <1>7, <1>8, <1>9, <1>10 DEF Next

---------------------------------------------------------------------------
(* The theorems. *)

\* The parts make up what QueryLog carries along.
LEMMA Parts ==
    LogShaped /\ RingsAreTails <=> QueriesTyped /\ RingsInv /\ ReloadTyped
BY DEF LogShaped, TypeOK, RingsAreTails, QueriesTyped, RingsInv, RingTyped, ReloadTyped

\* The log starts with one empty ring, which every block has, or with none.
LEMMA InitHolds == Init => LogShaped /\ RingsAreTails /\ ReloadInv
<1> SUFFICES ASSUME Init PROVE LogShaped /\ RingsAreTails /\ ReloadInv
  OBVIOUS
<1>1. QueriesTyped
  BY DEF Init, QueriesTyped, ServeAt
<1>2. /\ reload.capacity = 0 /\ ~reload.marked
      /\ DOMAIN reload.got = {} /\ reload.got = [b \in {} |-> current]
  <2>1. <<>> = [b \in {} |-> current]
    OBVIOUS
  <2> QED
    BY <2>1 DEF Init, NoReload
<1>3. reloads = 0
  BY DEF Init
<1>4. CASE current = 1
  <2>1. PICK c \in Capacity : ring = <<NewRing(c)>>
    BY <1>4 DEF Init
  <2>2. pushed = <<<<>>>> /\ <<>> \in Seq(Query)
    BY <1>4 DEF Init
  <2> DEFINE n == NewRing(c)
  <2>3. RingTyped(n) /\ TailOf(n, <<>>)
    BY NewRingTail DEF RingTyped
  <2> HIDE DEF n
  <2>4. ring = <<n>>
    BY <2>1 DEF n
  <2>5. DOMAIN ring = {1} /\ Len(ring) = 1 /\ ring[1] = n
    BY <2>4
  <2>6. ring \in Seq(Range(ring))
    <3>1. n \in Range(ring)
      BY <2>5 DEF Range
    <3> QED
      BY <2>4, <3>1
  <2>7. pushed \in Seq(Seq(Query)) /\ Len(pushed) = 1 /\ pushed[1] = <<>>
    BY <2>2
  <2>8. RingsInv
    BY <2>3, <2>5, <2>6, <2>7 DEF RingsInv, Ring
  <2>9. running = [b \in Block |-> 1]
    BY <1>4 DEF Init
  <2>10. ReloadTyped
    BY <1>2, <1>3, <1>4, <2>5, <2>9 DEF ReloadTyped, Ring
  <2>11. ReloadInv
    BY <1>2, <1>4, <2>9 DEF ReloadInv
  <2> QED
    BY <1>1, <2>8, <2>10, <2>11, Parts
<1>5. CASE current # 1
  <2>1. ring = <<>> /\ pushed = <<>> /\ current = 0 /\ running = [b \in Block |-> 0]
    BY <1>5 DEF Init
  <2>2. RingsInv
    BY <2>1 DEF RingsInv, Ring
  <2>3. ReloadTyped
    BY <1>2, <1>3, <2>1 DEF ReloadTyped, Ring
  <2>4. ReloadInv
    BY <1>2, <2>1 DEF ReloadInv
  <2> QED
    BY <1>1, <2>2, <2>3, <2>4, Parts
<1> QED
  BY <1>4, <1>5

\* What the log carries along, carried along by every step.
LEMMA LogInv == Spec => [](LogShaped /\ RingsAreTails /\ ReloadInv)
<1>1. LogShaped /\ RingsAreTails /\ ReloadInv /\ [Next]_vars
          => (LogShaped /\ RingsAreTails /\ ReloadInv)'
  <2> SUFFICES ASSUME LogShaped, RingsAreTails, ReloadInv, [Next]_vars
               PROVE  LogShaped' /\ RingsAreTails' /\ ReloadInv'
    OBVIOUS
  <2>1. RingsInv /\ ReloadTyped
    BY Parts
  <2>2. RingsInv' /\ RingsMove
    BY <2>1, RingsStep
  <2>3. QueriesTyped'
    BY <2>2, QueriesStep
  <2>4. ReloadTyped' /\ ReloadInv'
    BY <2>1, <2>2, ReloadStep
  <2>5. LogShaped' /\ RingsAreTails'
    BY <2>2, <2>3, <2>4 DEF LogShaped, TypeOK, RingsAreTails, QueriesTyped, RingsInv,
                            RingTyped, ReloadTyped
  <2> QED
    BY <2>4, <2>5
<1> QED
  BY <1>1, InitHolds, PTL DEF Spec

\* For any queries, blocks, capacities and reloads, every variable keeps its type:
\* heads and sizes stay inside their buffers, a query always has a ring to push
\* to, and one that came back is attributed (handler.go, ring.go).
THEOREM LogTyped == Spec => []TypeOK
<1>1. LogShaped => TypeOK
  BY DEF LogShaped
<1> QED
  BY <1>1, LogInv, PTL

\* However many blocks are set up and however reloads succeed or fail, the running
\* blocks share one ring, the one the GUI reads unless a reload for another
\* capacity is under way or failed (setup.go:83).
THEOREM BlocksShareRing == Spec => []OneRing
<1>1. ReloadInv => OneRing
  BY Idle DEF ReloadInv, OneRing
<1> QED
  BY <1>1, LogInv, PTL

\* The smaller of two numbers.
LEMMA Smaller ==
    ASSUME NEW a \in Nat, NEW b \in Nat
    PROVE  Min({a, b}) = IF a < b THEN a ELSE b
<1> DEFINE m == IF a < b THEN a ELSE b
<1>1. m \in {a, b} /\ \A y \in {a, b} : m =< y
  OBVIOUS
<1>2. ASSUME NEW x \in {a, b}, \A y \in {a, b} : x =< y PROVE x = m
  BY <1>1, <1>2
<1> QED
  BY <1>1, <1>2 DEF Min

\* Going back from the head is reading the newest pushes, newest first.
LEMMA TailIsNewest ==
    ASSUME NEW r, NEW s \in Seq(Query), r.cap \in Nat, TailOf(r, s)
    PROVE  Slots(r) = Newest(s, r.cap)
<1> DEFINE n == Len(s)
           m == IF n < r.cap THEN n ELSE r.cap
           t == Reverse(s)
<1>1. n \in Nat /\ m \in Nat /\ m <= n /\ r.size = m
  BY DEF TailOf
<1>2. /\ t \in Seq(Query) /\ Len(t) = n
      /\ \A i \in 1..n : t[i] = s[n - i + 1]
  BY DEF Reverse
<1>3. Min({r.cap, n}) = m
  BY <1>1, Smaller
<1> HIDE DEF t, m
<1>4. SubSeq(t, 1, m) = [i \in 1..m |-> s[n - i + 1]]
  <2>1. \A i \in 1..m : t[i] = s[n - i + 1]
    BY <1>1, <1>2
  <2>2. SubSeq(t, 1, m) = [i \in 1..m |-> t[i]]
    BY <1>1, <1>2
  <2> QED
    BY <2>1, <2>2
<1>5. Slots(r) = [i \in 1..m |-> s[n - i + 1]]
  BY <1>1 DEF Slots, TailOf
<1> QED
  BY <1>3, <1>4, <1>5 DEF Newest, t

\* The newest of some queries are queries.
LEMMA NewestTyped ==
    ASSUME NEW s \in Seq(Query), NEW c \in Nat
    PROVE  Newest(s, c) \in Seq(Query)
<1> DEFINE t == Reverse(s)
           m == IF c < Len(s) THEN c ELSE Len(s)
<1>1. t \in Seq(Query) /\ Len(t) = Len(s)
  BY DEF Reverse
<1>2. Min({c, Len(s)}) = m
  BY Smaller
<1>3. m \in Nat /\ m <= Len(t)
  BY <1>1
<1> HIDE DEF t, m
<1>4. SubSeq(t, 1, m) \in Seq(Query)
  BY <1>1, <1>3
<1> QED
  BY <1>2, <1>4 DEF Newest, t

\* What a ring holds, read back, is the newest queries pushed to it.
LEMMA RingIsNewest ==
    ASSUME LogShaped, RingsAreTails, NEW r \in Ring
    PROVE  /\ ring[r].size \in Nat /\ Slots(ring[r]) \in Seq(Query)
           /\ Slots(ring[r]) = Newest(pushed[r], ring[r].cap)
<1>1. pushed[r] \in Seq(Query)
  <2>1. /\ pushed \in Seq(Seq(Query)) /\ Len(pushed) = Len(ring)
        /\ ring \in Seq(Range(ring)) /\ r \in DOMAIN ring
    BY DEF LogShaped, Ring
  <2> QED
    BY <2>1
<1>2. ring[r].cap \in Nat /\ ring[r].size \in Nat
  <2>1. ring[r].cap \in Capacity /\ ring[r].size \in 0..ring[r].cap
    BY DEF LogShaped, TypeOK
  <2>2. ring[r].cap \in Nat
    BY <2>1, QueryLogAssumption
  <2> QED
    BY <2>1, <2>2
<1>3. Slots(ring[r]) = Newest(pushed[r], ring[r].cap)
  BY <1>1, <1>2, TailIsNewest DEF RingsAreTails
<1>4. Newest(pushed[r], ring[r].cap) \in Seq(Query)
  BY <1>1, <1>2, NewestTyped
<1> QED
  BY <1>2, <1>3, <1>4

\* Across any number of wraps, and of pushes of concurrent queries, what Snapshot
\* walks over is the newest entries pushed, newest first, as many as the ring
\* holds (ring.go:45, :77).
THEOREM RingKeepsNewest == Spec => []RingHoldsNewest
<1>1. LogShaped /\ RingsAreTails => RingHoldsNewest
  BY RingIsNewest DEF RingHoldsNewest
<1> QED
  BY <1>1, LogInv, PTL

---------------------------------------------------------------------------
(* The rollups: queries are counted once, in the bucket of their start. *)

\* A number is its quotient's multiple and its remainder.
LEMMA Divided ==
    ASSUME NEW t \in Nat, NEW w \in Nat, w # 0
    PROVE  t = w * (t \div w) + (t % w) /\ t % w \in 0..(w - 1) /\ t \div w \in Nat
OBVIOUS

\* Two numbers with the same remainder are the divisor apart.
LEMMA LapApart ==
    ASSUME NEW d \in Nat, NEW f \in Nat, d < f, NEW w \in Nat, w # 0, d % w = f % w
    PROVE  f >= d + w
<1> DEFINE x == d \div w
           y == f \div w
           m == d % w
<1>1. d = w * x + m /\ f = w * y + m /\ x \in Nat /\ y \in Nat /\ m \in Nat
  <2>1. d = w * (d \div w) + (d % w) /\ d % w \in 0..(w - 1) /\ d \div w \in Nat
    OBVIOUS
  <2>2. f = w * (f \div w) + (f % w) /\ f % w \in 0..(w - 1) /\ f \div w \in Nat
    OBVIOUS
  <2> QED
    BY <2>1, <2>2
<1> HIDE DEF x, y, m
<1>2. ~(y <= x)
  <2>1. SUFFICES ASSUME y <= x PROVE FALSE
    OBVIOUS
  <2>2. w * y <= w * x
    BY <1>1, <2>1
  <2> QED
    BY <1>1, <2>2
<1>3. w * y >= w * (x + 1)
  BY <1>1, <1>2
<1>4. w * (x + 1) = w * x + w
  BY <1>1
<1> QED
  BY <1>1, <1>3, <1>4

\* bucketEpoch brings a time down to the start of its bucket, bucketIndex puts
\* that inside the ring of buckets.
LEMMA EpochOf ==
    ASSUME NEW t \in Nat
    PROVE  /\ Epoch(t) \in Nat /\ Epoch(t) <= t /\ t < Epoch(t) + BucketWidth
           /\ Epoch(t) = BucketWidth * (t \div BucketWidth) /\ t \div BucketWidth \in Nat
           /\ Epoch(t) \div BucketWidth = t \div BucketWidth
           /\ Epoch(Epoch(t)) = Epoch(t)
           /\ Slot(Epoch(t)) = (t \div BucketWidth) % BucketCount
           /\ Slot(Epoch(t)) \in 0..(BucketCount - 1)
<1> DEFINE w == BucketWidth
           n == t \div w
           m == t % w
           e == Epoch(t)
<1>1. w \in Nat /\ w # 0 /\ BucketCount \in Nat /\ BucketCount # 0
  BY QueryLogAssumption
<1>2. t = w * n + m /\ m \in 0..(w - 1) /\ n \in Nat /\ e = t - m
  BY <1>1, Divided DEF Epoch
<1>3. e \div w = n
  BY <1>1 DEF Epoch
<1> HIDE DEF n, m, e, w
<1>4. w * n \in Nat
  BY <1>1, <1>2
<1>5. e = w * n /\ e \in Nat /\ e <= t /\ t < e + w
  BY <1>1, <1>2, <1>4
<1>6. Epoch(e) = e
  <2>1. e % w \in Nat /\ e = w * n + (e % w)
    <3>1. e \in Nat
      BY <1>5
    <3>2. e = w * (e \div w) + (e % w) /\ e % w \in 0..(w - 1)
      BY <1>1, <3>1
    <3> QED
      BY <1>3, <3>2
  <2>2. e % w = 0
    BY <1>4, <1>5, <2>1
  <2> QED
    BY <1>5, <2>2 DEF Epoch, w
<1>7. Slot(e) = n % BucketCount
  BY <1>3 DEF Slot, w
<1>8. n % BucketCount \in 0..(BucketCount - 1)
  BY <1>1, <1>2
<1> QED
  BY <1>2, <1>3, <1>5, <1>6, <1>7, <1>8 DEF e, n, w

\* An epoch up to now is not after the one now is in.
LEMMA EpochsInOrder ==
    ASSUME NEW f \in Nat, NEW n \in Nat, f <= n, Epoch(f) = f
    PROVE  f <= Epoch(n)
<1> DEFINE w == BucketWidth
           x == f \div w
           y == n \div w
<1>1. w \in Nat /\ w # 0
  BY QueryLogAssumption
<1>2. /\ f = w * x /\ x \in Nat /\ y \in Nat
      /\ Epoch(n) = w * y /\ n < Epoch(n) + w
  BY EpochOf
<1> HIDE DEF w, x, y
<1>3. ~(y < x)
  <2>1. SUFFICES ASSUME y < x PROVE FALSE
    OBVIOUS
  <2>2. w * (y + 1) <= w * x
    BY <1>1, <1>2, <2>1
  <2>3. w * (y + 1) = w * y + w
    BY <1>1, <1>2
  <2> QED
    BY <1>1, <1>2, <2>2, <2>3
<1>4. w * x <= w * y
  BY <1>1, <1>2, <1>3
<1> QED
  BY <1>2, <1>4

\* Two epochs of one slot are at least a lap apart.
LEMMA LapsApart ==
    ASSUME NEW s \in Nat, NEW t \in Nat,
           Slot(Epoch(s)) = Slot(Epoch(t)), Epoch(s) < Epoch(t)
    PROVE  Epoch(t) >= Epoch(s) + BucketCount * BucketWidth
<1> DEFINE w == BucketWidth
           c == BucketCount
           x == s \div w
           y == t \div w
<1>1. w \in Nat /\ w # 0 /\ c \in Nat /\ c # 0
  BY QueryLogAssumption
<1>2. x \in Nat /\ y \in Nat /\ Epoch(s) = w * x /\ Epoch(t) = w * y /\ x % c = y % c
  BY EpochOf
<1> HIDE DEF w, c, x, y
<1>3. x < y
  <2>1. SUFFICES ASSUME y <= x PROVE FALSE
    BY <1>2
  <2>2. w * y <= w * x
    BY <1>1, <1>2, <2>1
  <2>3. w * y \in Nat /\ w * x \in Nat /\ w * x < w * y
    BY <1>1, <1>2
  <2> QED
    BY <2>2, <2>3
<1>4. y >= x + c
  BY <1>1, <1>2, <1>3, LapApart
<1>5. w * y >= w * x + w * c
  <2>1. w * y >= w * (x + c)
    BY <1>1, <1>2, <1>4
  <2>2. w * (x + c) = w * x + w * c
    BY <1>1, <1>2
  <2> QED
    BY <2>1, <2>2
<1>6. w * c = c * w
  BY <1>1
<1> QED
  BY <1>2, <1>5, <1>6 DEF w, c

\* A query that takes at most MaxLatency is counted before the buckets have gone
\* round: no bucket of a later lap is in its slot.
LEMMA NoLapLate ==
    ASSUME NEW s \in Nat, NEW f \in Nat, NEW n \in Nat, n - s <= MaxLatency,
           f <= n, Epoch(f) = f, f # 0 => Slot(f) = Slot(Epoch(s))
    PROVE  f <= Epoch(s)
<1> DEFINE w == BucketWidth
           c == BucketCount
           l == c * w
<1>1. w \in Nat /\ c \in Nat /\ MaxLatency \in Nat /\ MaxLatency < (c - 1) * w
  BY QueryLogAssumption
<1>2. (c - 1) * w = l - w /\ l \in Nat
  BY <1>1
<1>3. Epoch(s) \in Nat /\ s < Epoch(s) + w
  BY EpochOf
<1>4. SUFFICES ASSUME Epoch(s) < f PROVE FALSE
  BY <1>3
<1>5. f >= Epoch(s) + l
  BY <1>3, <1>4, LapsApart
<1> HIDE DEF w, c, l
<1> QED
  BY <1>1, <1>2, <1>3, <1>5

\* The clock only goes on, and no step lets a query under way get older than
\* MaxLatency.
LEMMA StartsStep ==
    LogShaped /\ StartsInv /\ [Next]_vars => StartsInv' /\ now' \in Nat /\ now' >= now
<1> SUFFICES ASSUME LogShaped, StartsInv, [Next]_vars
             PROVE  StartsInv' /\ now' \in Nat /\ now' >= now
  OBVIOUS
<1>1. /\ now \in Nat /\ at \in [Query -> ServeAt] /\ DOMAIN entry = Query
      /\ MaxLatency \in Nat
  BY QueryLogAssumption DEF LogShaped, TypeOK
<1>2. ASSUME UNCHANGED <<now, at, entry>> PROVE StartsInv' /\ now' \in Nat /\ now' >= now
  BY <1>1, <1>2 DEF StartsInv
<1>3. ASSUME NEW q \in Query, UNCHANGED now, at[q] # "new", at[q] # "end",
             NEW a \in ServeAt, at' = [at EXCEPT ![q] = a],
             DOMAIN entry' = Query, \A p \in Query \ {q} : entry'[p] = entry[p],
             entry'[q].start = entry[q].start
      PROVE  StartsInv' /\ now' \in Nat /\ now' >= now
  BY <1>1, <1>3 DEF StartsInv
<1>4. ASSUME NEW q \in Query, NEW b \in Block, NEW c \in Client, NEW n \in Name,
             ServeDNS(q, b, c, n)
      PROVE  StartsInv' /\ now' \in Nat /\ now' >= now
  <2>1. /\ at' = [at EXCEPT ![q] = "next"] /\ entry' = [entry EXCEPT ![q] = NewEntry(c, n)]
        /\ UNCHANGED now
    BY <1>4 DEF ServeDNS
  <2>2. NewEntry(c, n).start = now
    BY DEF NewEntry
  <2>3. /\ entry'[q].start = now
        /\ \A p \in Query \ {q} : at'[p] = at[p] /\ entry'[p] = entry[p]
    BY <1>1, <2>1, <2>2
  <2>4. now - now <= MaxLatency /\ now <= now
    BY <1>1
  <2> QED
    BY <1>1, <2>1, <2>3, <2>4 DEF StartsInv
<1>5. ASSUME NEW q \in Query, NEW o \in Outcome, NextReturns(q, o)
      PROVE  StartsInv' /\ now' \in Nat /\ now' >= now
  <2> DEFINE f == Attribution(o, o.rcode, entry[q].name, now - entry[q].start)
             e == [client |-> entry[q].client, name |-> entry[q].name,
                   start |-> entry[q].start, source |-> f.source, verdict |-> f.verdict,
                   cache |-> IF o.cache = "" THEN "none" ELSE o.cache]
  <2>1. /\ at[q] = "next" /\ at' = [at EXCEPT ![q] = "push"] /\ UNCHANGED now
        /\ entry' = [entry EXCEPT ![q] = e]
    BY <1>5 DEF NextReturns
  <2>2. e.start = entry[q].start
    OBVIOUS
  <2> HIDE DEF e
  <2>3. /\ DOMAIN entry' = Query /\ entry'[q] = e
        /\ \A p \in Query \ {q} : entry'[p] = entry[p]
    BY <1>1, <2>1
  <2> QED
    BY <1>3, <2>1, <2>2, <2>3 DEF ServeAt
<1>6. ASSUME NEW q \in Query, Push(q) \/ Record(q) \/ Observe(q)
      PROVE  StartsInv' /\ now' \in Nat /\ now' >= now
  <2>1. PICK a \in {"record", "observe", "end"} : at' = [at EXCEPT ![q] = a]
    BY <1>6 DEF Push, Record, Observe
  <2>2. at[q] # "new" /\ at[q] # "end" /\ UNCHANGED <<now, entry>>
    BY <1>6 DEF Push, Record, Observe
  <2> QED
    BY <1>1, <1>3, <2>1, <2>2 DEF ServeAt
<1>7. CASE Tick
  <2>1. /\ \A q \in Query : at[q] \notin {"new", "end"} => now + 1 - entry[q].start <= MaxLatency
        /\ now' = now + 1 /\ UNCHANGED <<at, entry>>
    BY <1>7 DEF Tick
  <2>2. ASSUME NEW q \in Query, at[q] # "new"
        PROVE  /\ entry[q].start \in Nat /\ entry[q].start <= now'
               /\ at[q] # "end" => now' - entry[q].start <= MaxLatency
    BY <1>1, <2>1, <2>2 DEF StartsInv
  <2> QED
    BY <1>1, <2>1, <2>2 DEF StartsInv
<1>8. ASSUME \/ \E names \in SUBSET Name : SetHostNames(names)
             \/ \E c \in Capacity \cup {0} : BeginReload(c)
             \/ \E b \in Block : Setup(b)
             \/ Swap \/ ReloadFails \/ UNCHANGED vars
      PROVE  StartsInv' /\ now' \in Nat /\ now' >= now
  BY <1>2, <1>8 DEF SetHostNames, BeginReload, Setup, Swap, ReloadFails, vars
<1> QED
  BY <1>4, <1>5, <1>6, <1>7, <1>8 DEF Next

\* Recording comes before observing, and a query is recorded once.
LEMMA RowsStep ==
    LogShaped /\ RowsInv /\ [Next]_vars => RowsInv'
<1> SUFFICES ASSUME LogShaped, RowsInv, [Next]_vars PROVE RowsInv'
  OBVIOUS
<1>1. at \in [Query -> ServeAt] /\ dropped \in Nat /\ rows \subseteq Query
  BY DEF LogShaped, TypeOK
<1>2. ASSUME UNCHANGED <<at, rows, dropped>> PROVE RowsInv'
  BY <1>2 DEF RowsInv
<1>3. ASSUME NEW q \in Query, UNCHANGED <<rows, dropped>>, NEW a,
             at' = [at EXCEPT ![q] = a], a \in {"observe", "end"} <=> at[q] \in {"observe", "end"}
      PROVE  RowsInv'
  <2>1. \A p \in Query : at'[p] \in {"observe", "end"} <=> at[p] \in {"observe", "end"}
    BY <1>1, <1>3
  <2> QED
    BY <1>1, <1>3, <2>1 DEF RowsInv
<1>4. ASSUME NEW q \in Query, Record(q) PROVE RowsInv'
  <2>1. /\ at' = [at EXCEPT ![q] = "observe"]
        /\ \/ rows' = rows \cup {q} /\ dropped' = dropped
           \/ dropped' = dropped + 1 /\ rows' = rows
    BY <1>4 DEF Record
  <2>2. at'[q] = "observe" /\ \A p \in Query \ {q} : at'[p] = at[p]
    BY <1>1, <2>1
  <2>3. \A p \in rows' : at'[p] \in {"observe", "end"}
    BY <1>1, <2>1, <2>2 DEF RowsInv
  <2>4. dropped + 1 # 0
    BY <1>1
  <2>5. ASSUME dropped' = 0, NEW p \in Query, at'[p] \in {"observe", "end"} PROVE p \in rows'
    BY <2>1, <2>2, <2>4, <2>5 DEF RowsInv
  <2> QED
    BY <2>3, <2>5 DEF RowsInv
<1>5. ASSUME NEW q \in Query, NEW b \in Block, NEW c \in Client, NEW n \in Name,
             ServeDNS(q, b, c, n)
      PROVE  RowsInv'
  BY <1>3, <1>5 DEF ServeDNS
<1>6. ASSUME NEW q \in Query, NEW o \in Outcome, NextReturns(q, o) PROVE RowsInv'
  <2>1. at[q] = "next" /\ at' = [at EXCEPT ![q] = "push"] /\ UNCHANGED <<rows, dropped>>
    BY <1>6 DEF NextReturns
  <2> QED
    BY <1>3, <2>1
<1>7. ASSUME NEW q \in Query, Push(q) PROVE RowsInv'
  BY <1>3, <1>7 DEF Push
<1>8. ASSUME NEW q \in Query, Observe(q) PROVE RowsInv'
  <2>1. at[q] = "observe" /\ at' = [at EXCEPT ![q] = "end"] /\ UNCHANGED <<rows, dropped>>
    BY <1>8 DEF Observe
  <2> QED
    BY <1>3, <2>1
<1>9. ASSUME \/ \E names \in SUBSET Name : SetHostNames(names)
             \/ \E c \in Capacity \cup {0} : BeginReload(c)
             \/ \E b \in Block : Setup(b)
             \/ Swap \/ ReloadFails \/ Tick \/ UNCHANGED vars
      PROVE  RowsInv'
  BY <1>2, <1>9 DEF SetHostNames, BeginReload, Setup, Swap, ReloadFails, Tick, vars
<1> QED
  BY <1>4, <1>5, <1>6, <1>7, <1>8, <1>9 DEF Next

\* A step that ends no query leaves what was counted alone.
Settled == stats' = stats /\ Ended' = Ended /\ \A q \in Ended : entry'[q] = entry[q]

\* Only Observe ends a query, and nothing changes the entry of one that ended.
LEMMA SettledStep ==
    LogShaped /\ [Next]_vars => Settled \/ \E q \in Query : Observe(q)
<1> SUFFICES ASSUME LogShaped, [Next]_vars PROVE Settled \/ \E q \in Query : Observe(q)
  OBVIOUS
<1>1. at \in [Query -> ServeAt] /\ DOMAIN entry = Query
  BY DEF LogShaped, TypeOK
<1>2. ASSUME UNCHANGED <<at, entry, stats>> PROVE Settled
  BY <1>2 DEF Settled, Ended
<1>3. ASSUME NEW q \in Query, UNCHANGED stats, at[q] # "end", NEW a, a # "end",
             at' = [at EXCEPT ![q] = a], \A p \in Query \ {q} : entry'[p] = entry[p]
      PROVE  Settled
  <2>1. \A p \in Query : at'[p] = "end" <=> at[p] = "end"
    BY <1>1, <1>3
  <2> QED
    BY <1>3, <2>1 DEF Settled, Ended
<1>4. ASSUME NEW q \in Query, NEW b \in Block, NEW c \in Client, NEW n \in Name,
             ServeDNS(q, b, c, n)
      PROVE  Settled
  <2>1. /\ at[q] = "new" /\ at' = [at EXCEPT ![q] = "next"] /\ UNCHANGED stats
        /\ \A p \in Query \ {q} : entry'[p] = entry[p]
    BY <1>1, <1>4 DEF ServeDNS
  <2> QED
    BY <1>3, <2>1
<1>5. ASSUME NEW q \in Query, NEW o \in Outcome, NextReturns(q, o) PROVE Settled
  <2>1. /\ at[q] = "next" /\ at' = [at EXCEPT ![q] = "push"] /\ UNCHANGED stats
        /\ \A p \in Query \ {q} : entry'[p] = entry[p]
    BY <1>1, <1>5 DEF NextReturns
  <2> QED
    BY <1>3, <2>1
<1>6. ASSUME NEW q \in Query, Push(q) \/ Record(q) PROVE Settled
  <2>1. PICK a \in {"record", "observe"} : at' = [at EXCEPT ![q] = a]
    BY <1>6 DEF Push, Record
  <2>2. at[q] # "end" /\ UNCHANGED <<stats, entry>>
    BY <1>6 DEF Push, Record
  <2> QED
    BY <1>3, <2>1, <2>2
<1>7. ASSUME \/ \E names \in SUBSET Name : SetHostNames(names)
             \/ \E c \in Capacity \cup {0} : BeginReload(c)
             \/ \E b \in Block : Setup(b)
             \/ Swap \/ ReloadFails \/ Tick \/ UNCHANGED vars
      PROVE  Settled
  BY <1>2, <1>7 DEF SetHostNames, BeginReload, Setup, Swap, ReloadFails, Tick, vars
<1> QED
  BY <1>4, <1>5, <1>6, <1>7 DEF Next

\* Observe ends one query, and changes nothing else a count depends on.
LEMMA ObserveEnds ==
    ASSUME LogShaped, NEW q \in Query, Observe(q)
    PROVE  /\ Ended' = Ended \cup {q} /\ q \notin Ended /\ Ended \subseteq Query
           /\ at[q] = "observe" /\ entry' = entry /\ now' = now
           /\ stats'.buckets = Counted(stats.buckets, entry[q].start)
<1>1. at \in [Query -> ServeAt]
  BY DEF LogShaped, TypeOK
<1>2. /\ at[q] = "observe" /\ at' = [at EXCEPT ![q] = "end"] /\ entry' = entry /\ now' = now
      /\ stats'.buckets = Counted(stats.buckets, entry[q].start)
  BY DEF Observe
<1>3. at'[q] = "end" /\ \A p \in Query \ {q} : at'[p] = at[p]
  BY <1>1, <1>2
<1> QED
  BY <1>2, <1>3 DEF Ended

\* One more of a finite set of queries.
LEMMA OneMore ==
    ASSUME NEW T \in SUBSET Query, NEW q \in Query
    PROVE  /\ IsFiniteSet(T) /\ Cardinality(T) \in Nat
           /\ q \notin T => Cardinality(T \cup {q}) = Cardinality(T) + 1
           /\ T = {} => Cardinality(T) = 0
<1>1. IsFiniteSet(T)
  BY QueryLogAssumption, FS_Subset
<1> QED
  BY <1>1, FS_CardinalityType, FS_AddElement, FS_EmptySet

\* The counts per attribution are those of the ended queries.
LEMMA CountsStep ==
    LogShaped /\ CountsInv /\ [Next]_vars => CountsInv'
<1> SUFFICES ASSUME LogShaped, CountsInv, [Next]_vars PROVE CountsInv'
  OBVIOUS
<1> DEFINE Of(k) == {p \in Ended : KeyOf(entry[p]) = k}
<1>1. CASE Settled
  <2>1. {KeyOf(entry'[q]) : q \in Ended'} = {KeyOf(entry[q]) : q \in Ended}
    BY <1>1 DEF Settled
  <2>2. ASSUME NEW k PROVE {q \in Ended' : KeyOf(entry'[q]) = k} = Of(k)
    BY <1>1 DEF Settled
  <2>3. stats' = stats
    BY <1>1 DEF Settled
  <2> QED
    BY <2>1, <2>2, <2>3 DEF CountsInv
<1>2. ASSUME NEW q \in Query, Observe(q) PROVE CountsInv'
  <2> DEFINE k == KeyOf(entry[q])
             c == stats.counts
             d == stats'.counts
             old == IF k \in DOMAIN c THEN c[k] ELSE 0
  <2>1. d = [j \in DOMAIN c \cup {k} |-> IF j = k THEN old + 1 ELSE c[j]]
    BY <1>2 DEF Observe
  <2>2. Ended' = Ended \cup {q} /\ q \notin Ended /\ Ended \subseteq Query /\ entry' = entry
    BY <1>2, ObserveEnds
  <2>3. DOMAIN c = {KeyOf(entry[p]) : p \in Ended} /\ \A j \in DOMAIN c : c[j] = Cardinality(Of(j))
    BY DEF CountsInv
  <2>4. DOMAIN d = DOMAIN c \cup {k} /\ d[k] = old + 1
        /\ \A j \in DOMAIN d \ {k} : j \in DOMAIN c /\ d[j] = c[j]
    BY <2>1
  <2>5. old = Cardinality(Of(k))
    <3>1. CASE k \in DOMAIN c
      BY <2>3, <3>1
    <3>2. CASE k \notin DOMAIN c
      <4>1. Of(k) = {}
        BY <2>3, <3>2
      <4> QED
        BY <3>2, <4>1, FS_EmptySet
    <3> QED
      BY <3>1, <3>2
  <2> HIDE DEF k, old, c, d
  <2>6. DOMAIN d = {KeyOf(entry[p]) : p \in Ended \cup {q}}
    BY <2>3, <2>4 DEF k
  <2>7. ASSUME NEW j \in DOMAIN d
        PROVE  d[j] = Cardinality({p \in Ended \cup {q} : KeyOf(entry[p]) = j})
    <3>1. CASE j = k
      <4>1. {p \in Ended \cup {q} : KeyOf(entry[p]) = j} = Of(k) \cup {q}
        BY <3>1 DEF k
      <4>2. Of(k) \in SUBSET Query /\ q \notin Of(k)
        BY <2>2
      <4> HIDE DEF Of
      <4>3. Cardinality(Of(k) \cup {q}) = Cardinality(Of(k)) + 1
        BY <4>2, OneMore
      <4> QED
        BY <2>4, <2>5, <3>1, <4>1, <4>3
    <3>2. CASE j # k
      <4>1. {p \in Ended \cup {q} : KeyOf(entry[p]) = j} = Of(j)
        BY <3>2 DEF k
      <4>2. j \in DOMAIN c /\ d[j] = c[j]
        BY <2>4, <3>2
      <4> QED
        BY <2>3, <4>1, <4>2
    <3> QED
      BY <3>1, <3>2
  <2> QED
    BY <2>2, <2>6, <2>7 DEF CountsInv, d
<1> QED
  BY <1>1, <1>2, SettledStep

\* A bucket's own part of BucketsInv: what slot i has, at time n.
SlotTyped(b, i, n) ==
    b \in [epoch : Nat, count : Nat] /\ b.epoch <= n /\ Epoch(b.epoch) = b.epoch
        /\ (b.epoch # 0 => Slot(b.epoch) = i)

\* What the bucket of an epoch counts, where In are the ended queries of it.
CountsFor(b, e, In) ==
    (b.epoch = e => b.count = Cardinality(In)) /\ (In # {} => b.epoch >= e)

\* BucketsInv, slot by slot and epoch by epoch.
LEMMA BucketsParts ==
    BucketsInv <=>
        /\ DOMAIN stats.buckets = 0..(BucketCount - 1)
        /\ stats.buckets = [i \in 0..(BucketCount - 1) |-> stats.buckets[i]]
        /\ \A i \in 0..(BucketCount - 1) : SlotTyped(stats.buckets[i], i, now)
        /\ \A t \in Nat : CountsFor(stats.buckets[Slot(Epoch(t))], Epoch(t), EndedIn(Epoch(t)))
BY DEF BucketsInv, SlotTyped, CountsFor

\* Counting a query whose slot holds no later lap: its epoch gets one more, and
\* an epoch that loses the slot is an earlier one.
LEMMA CountedOne ==
    ASSUME NEW b, b \in [epoch : Nat, count : Nat], NEW s \in Nat, NEW t \in Nat,
           b.epoch <= Epoch(s), Slot(Epoch(t)) = Slot(Epoch(s)),
           NEW In \in SUBSET Query, NEW q \in Query, q \notin In,
           CountsFor(b, Epoch(t), In),
           NEW c, c = [epoch |-> Epoch(s), count |-> IF b.epoch = Epoch(s) THEN b.count + 1 ELSE 1]
    PROVE  /\ Epoch(t) = Epoch(s) => CountsFor(c, Epoch(t), In \cup {q})
           /\ Epoch(t) # Epoch(s) => CountsFor(c, Epoch(t), In)
<1>1. Epoch(s) \in Nat /\ Epoch(t) \in Nat /\ c.epoch = Epoch(s)
  BY EpochOf
<1>2. CASE Epoch(t) = Epoch(s)
  <2>1. Cardinality(In \cup {q}) = Cardinality(In) + 1 /\ (In = {} => Cardinality(In) = 0)
    BY OneMore
  <2>2. c.count = Cardinality(In) + 1
    <3>1. CASE b.epoch = Epoch(s)
      BY <1>2, <3>1 DEF CountsFor
    <3>2. CASE b.epoch # Epoch(s)
      <4>1. In = {}
        BY <1>1, <1>2, <3>2 DEF CountsFor
      <4> QED
        BY <2>1, <3>2, <4>1
    <3> QED
      BY <3>1, <3>2
  <2> QED
    BY <1>1, <1>2, <2>1, <2>2 DEF CountsFor
<1>3. CASE Epoch(t) # Epoch(s)
  <2>1. In # {} => Epoch(s) >= Epoch(t)
    BY <1>1 DEF CountsFor
  <2> QED
    BY <1>1, <1>3, <2>1 DEF CountsFor
<1> QED
  BY <1>2, <1>3

\* The buckets count the ended queries of their epochs, whatever the order in
\* which the queries end: none ends a lap late.
LEMMA BucketsStep ==
    LogShaped /\ StartsInv /\ BucketsInv /\ now' \in Nat /\ now' >= now /\ [Next]_vars
        => BucketsInv'
<1> SUFFICES ASSUME LogShaped, StartsInv, BucketsInv, now' \in Nat, now' >= now, [Next]_vars
             PROVE  BucketsInv'
  OBVIOUS
<1> DEFINE B == stats.buckets
           C == stats'.buckets
           I == 0..(BucketCount - 1)
<1>1. /\ DOMAIN B = I /\ B = [i \in I |-> B[i]]
      /\ \A i \in I : SlotTyped(B[i], i, now)
      /\ \A t \in Nat : CountsFor(B[Slot(Epoch(t))], Epoch(t), EndedIn(Epoch(t)))
  BY BucketsParts
<1>2. SUFFICES /\ DOMAIN C = I /\ C = [i \in I |-> C[i]]
               /\ \A i \in I : SlotTyped(C[i], i, now')
               /\ \A t \in Nat : CountsFor(C[Slot(Epoch(t))], Epoch(t), EndedIn(Epoch(t))')
  BY DEF BucketsInv, SlotTyped, CountsFor
<1>3. now \in Nat
  BY DEF LogShaped, TypeOK
<1>4. CASE Settled
  <2>1. stats' = stats
    BY <1>4 DEF Settled
  <2>2. ASSUME NEW t \in Nat PROVE EndedIn(Epoch(t))' = EndedIn(Epoch(t))
    BY <1>4 DEF Settled, EndedIn
  <2>3. ASSUME NEW i \in I PROVE SlotTyped(B[i], i, now')
    <3>1. SlotTyped(B[i], i, now)
      BY <1>1
    <3> HIDE DEF B
    <3> QED
      BY <1>3, <3>1 DEF SlotTyped
  <2> QED
    BY <1>1, <2>1, <2>2, <2>3
<1>5. ASSUME NEW q \in Query, Observe(q)
      PROVE  /\ DOMAIN C = I /\ C = [i \in I |-> C[i]]
             /\ \A i \in I : SlotTyped(C[i], i, now')
             /\ \A t \in Nat : CountsFor(C[Slot(Epoch(t))], Epoch(t), EndedIn(Epoch(t))')
  <2> DEFINE s == entry[q].start
             k == Slot(Epoch(s))
             b == B[k]
             c == [epoch |-> Epoch(s), count |-> IF b.epoch = Epoch(s) THEN b.count + 1 ELSE 1]
  <2>1. /\ Ended' = Ended \cup {q} /\ q \notin Ended /\ Ended \subseteq Query
        /\ at[q] = "observe" /\ entry' = entry /\ now' = now /\ C = Counted(B, s)
    BY <1>5, ObserveEnds
  <2>2. s \in Nat /\ s <= now /\ now - s <= MaxLatency
    BY <2>1 DEF StartsInv
  <2>3. Epoch(s) \in Nat /\ Epoch(s) <= s /\ Epoch(Epoch(s)) = Epoch(s) /\ k \in I
    BY <2>2, EpochOf
  <2>4. C = [B EXCEPT ![k] = c]
    BY <2>1 DEF Counted
  <2>5. SlotTyped(b, k, now)
    BY <1>1, <2>3
  <2> HIDE DEF B, C, I, s, k, b, c
  <2>6. b \in [epoch : Nat, count : Nat] /\ b.epoch <= Epoch(s)
    <3>1. /\ b.epoch \in Nat /\ b.epoch <= now /\ Epoch(b.epoch) = b.epoch
          /\ (b.epoch # 0 => Slot(b.epoch) = Slot(Epoch(s)))
      BY <2>5 DEF SlotTyped, k
    <3>2. b.epoch <= Epoch(s)
      BY <1>3, <2>2, <3>1, NoLapLate
    <3> QED
      BY <2>5, <3>2 DEF SlotTyped
  <2>7. SlotTyped(c, k, now)
    <3>1. c \in [epoch : Nat, count : Nat] /\ c.epoch = Epoch(s)
      BY <2>3, <2>6 DEF c
    <3>2. Epoch(s) <= now
      BY <1>3, <2>2, <2>3
    <3> QED
      BY <2>3, <3>1, <3>2 DEF SlotTyped, k
  <2>8. /\ DOMAIN C = I /\ C = [i \in I |-> C[i]] /\ C[k] = c
        /\ \A i \in I \ {k} : C[i] = B[i]
    BY <1>1, <2>3, <2>4
  <2>9. \A i \in I : SlotTyped(C[i], i, now')
    BY <1>1, <2>1, <2>7, <2>8
  <2>10. ASSUME NEW t \in Nat PROVE CountsFor(C[Slot(Epoch(t))], Epoch(t), EndedIn(Epoch(t))')
    <3>1. CountsFor(B[Slot(Epoch(t))], Epoch(t), EndedIn(Epoch(t))) /\ Slot(Epoch(t)) \in I
      BY <1>1, EpochOf DEF I
    <3>2. EndedIn(Epoch(t))' = IF Epoch(t) = Epoch(s) THEN EndedIn(Epoch(t)) \cup {q}
                               ELSE EndedIn(Epoch(t))
      BY <2>1 DEF EndedIn, s
    <3>3. EndedIn(Epoch(t)) \in SUBSET Query /\ q \notin EndedIn(Epoch(t))
      BY <2>1 DEF EndedIn
    <3>4. CASE Slot(Epoch(t)) = k
      <4>1. CountsFor(b, Epoch(t), EndedIn(Epoch(t)))
        BY <3>1, <3>4 DEF b
      <4>2. Slot(Epoch(t)) = Slot(Epoch(s))
        BY <3>4 DEF k
      <4> DEFINE In == EndedIn(Epoch(t))
      <4>3. In \in SUBSET Query /\ q \notin In /\ CountsFor(b, Epoch(t), In)
        BY <3>3, <4>1
      <4>4. c = [epoch |-> Epoch(s), count |-> IF b.epoch = Epoch(s) THEN b.count + 1 ELSE 1]
        BY DEF c
      <4> HIDE DEF In
      <4>5. /\ Epoch(t) = Epoch(s) => CountsFor(c, Epoch(t), In \cup {q})
            /\ Epoch(t) # Epoch(s) => CountsFor(c, Epoch(t), In)
        BY <2>2, <2>6, <4>2, <4>3, <4>4, CountedOne
      <4> QED
        BY <2>8, <3>2, <3>4, <4>5 DEF In
    <3>5. CASE Slot(Epoch(t)) # k
      <4>1. Epoch(t) # Epoch(s)
        BY <3>5 DEF k
      <4> QED
        BY <2>8, <3>1, <3>2, <3>5, <4>1
    <3> QED
      BY <3>4, <3>5
  <2> QED
    BY <2>8, <2>9, <2>10
<1> QED
  BY <1>4, <1>5, SettledStep

\* At the start nothing is counted: the slots never written are of epoch 0.
LEMMA NothingCounted == Init => StartsInv /\ RowsInv /\ CountsInv /\ BucketsInv
<1> SUFFICES ASSUME Init PROVE StartsInv /\ RowsInv /\ CountsInv /\ BucketsInv
  OBVIOUS
<1>1. /\ at = [q \in Query |-> "new"] /\ rows = {} /\ now = 0 /\ stats = NewStats
  BY DEF Init
<1>2. Ended = {}
  BY <1>1 DEF Ended
<1>3. StartsInv /\ RowsInv
  BY <1>1 DEF StartsInv, RowsInv
<1>4. CountsInv
  <2>1. DOMAIN stats.counts = {}
    BY <1>1 DEF NewStats
  <2> QED
    BY <1>2, <2>1 DEF CountsInv
<1>5. BucketsInv
  <2> DEFINE I == 0..(BucketCount - 1)
             z == [epoch |-> 0, count |-> 0]
  <2>1. stats.buckets = [i \in I |-> z]
    BY <1>1 DEF NewStats
  <2>2. Epoch(0) = 0
    <3>1. Epoch(0) \in Nat /\ Epoch(0) <= 0
      BY EpochOf
    <3> QED
      BY <3>1
  <2>3. z \in [epoch : Nat, count : Nat] /\ z.epoch = 0 /\ z.count = 0 /\ 0 <= 0
    OBVIOUS
  <2> HIDE DEF z, I
  <2>4. \A i \in I : SlotTyped(stats.buckets[i], i, now)
    BY <1>1, <2>1, <2>2, <2>3 DEF SlotTyped
  <2>5. ASSUME NEW t \in Nat
        PROVE  CountsFor(stats.buckets[Slot(Epoch(t))], Epoch(t), EndedIn(Epoch(t)))
    <3>1. Slot(Epoch(t)) \in I
      BY EpochOf DEF I
    <3>2. EndedIn(Epoch(t)) = {}
      BY <1>2 DEF EndedIn
    <3>3. Cardinality({}) = 0
      BY FS_EmptySet
    <3> QED
      BY <2>1, <2>3, <3>1, <3>2, <3>3 DEF CountsFor
  <2>6. DOMAIN stats.buckets = I /\ stats.buckets = [i \in I |-> stats.buckets[i]]
    BY <2>1
  <2> QED
    BY <2>4, <2>5, <2>6, BucketsParts DEF I
<1> QED
  BY <1>3, <1>4, <1>5

\* What was counted, carried along by every step.
LEMMA CountedInv ==
    Spec => [](LogShaped /\ StartsInv /\ RowsInv /\ CountsInv /\ BucketsInv)
<1> DEFINE Inv == LogShaped /\ StartsInv /\ RowsInv /\ CountsInv /\ BucketsInv
<1>1. Inv /\ [Next]_vars /\ LogShaped' => Inv'
  BY StartsStep, RowsStep, CountsStep, BucketsStep
<1>2. Init => StartsInv /\ RowsInv /\ CountsInv /\ BucketsInv
  BY NothingCounted
<1>3. Spec => []LogShaped
  BY LogInv, PTL
<1>4. LogShaped /\ StartsInv /\ RowsInv /\ CountsInv /\ BucketsInv => Inv
  OBVIOUS
<1> HIDE DEF Inv
<1>5. Spec => []Inv
  BY <1>1, <1>2, <1>3, <1>4, PTL DEF Spec
<1> QED
  BY <1>5 DEF Inv

\* The rows that are in the window of one bucket are those of its epoch.
LEMMA WindowIsEpoch ==
    ASSUME NEW t \in Nat, NEW s \in Nat
    PROVE  LET e == Epoch(s)
           IN /\ e \div BucketWidth \in Buckets(e, e + BucketWidth)
              /\ e <= t /\ t < e + BucketWidth /\ t \div BucketWidth = e \div BucketWidth
                     <=> Epoch(t) = e
<1> DEFINE w == BucketWidth
           e == Epoch(s)
           n == e \div w
<1>1. w \in Nat /\ w # 0
  BY QueryLogAssumption
<1>2. e \in Nat /\ n \in Nat /\ e = w * n
  BY EpochOf
<1>3. Epoch(t) = w * (t \div w) /\ t \div w \in Nat /\ Epoch(t) <= t /\ t < Epoch(t) + w
      /\ Epoch(t) \div w = t \div w
  BY EpochOf
<1>4. n <= (e + w - 1) \div w
  <2>1. e + w - 1 \in Nat /\ e <= e + w - 1
    BY <1>1, <1>2
  <2> DEFINE y == (e + w - 1) \div w
  <2>2. e + w - 1 < w * y + w /\ y \in Nat
    <3>1. (e + w - 1) = w * y + ((e + w - 1) % w) /\ (e + w - 1) % w \in 0..(w - 1) /\ y \in Nat
      BY <1>1, <2>1, Divided
    <3> QED
      BY <1>1, <3>1
  <2> HIDE DEF y, n, e, w
  <2>3. SUFFICES ASSUME y < n PROVE FALSE
    BY <1>2, <2>2 DEF y, n, e, w
  <2>4. w * (y + 1) <= w * n
    BY <1>1, <1>2, <2>2, <2>3
  <2>5. w * (y + 1) = w * y + w
    BY <1>1, <2>2
  <2> QED
    BY <1>1, <1>2, <2>1, <2>2, <2>4, <2>5
<1>5. n \in n..((e + w - 1) \div w)
  <2>1. (e + w - 1) \div w \in Int
    BY <1>1, <1>2
  <2> QED
    BY <1>2, <1>4, <2>1
<1>6. e <= t /\ t < e + w /\ t \div w = n <=> Epoch(t) = e
  BY <1>2, <1>3
<1> HIDE DEF e
<1>7. n \in Buckets(e, e + w)
  <2>1. e \in Nat /\ BucketWidth \in Nat
    BY <1>1, <1>2
  <2>2. Buckets(e, e + w) = n..((e + w - 1) \div w)
    BY <2>1 DEF Buckets
  <2> HIDE DEF n, w
  <2> QED
    BY <1>5, <2>2
<1> HIDE DEF n
<1> QED
  BY <1>6, <1>7 DEF e, n

\* Once the log is quiet and nothing was dropped, the rows are what was counted.
LEMMA RowsAreEnded ==
    ASSUME LogShaped, RowsInv, Quiet, dropped = 0
    PROVE  rows = Ended
BY DEF LogShaped, TypeOK, RowsInv, Quiet, Ended

\* Whatever the order in which concurrent queries end, and however often the clock
\* went round the buckets, the recent series in memory, the rollup's counts and
\* the stored rows tell the same once the log is quiet (stats.go, log.go).
THEOREM StatsMatchRows == Spec => []TiersAgree
<1>1. LogShaped /\ StartsInv /\ RowsInv /\ CountsInv /\ BucketsInv => TiersAgree
  <2> SUFFICES ASSUME LogShaped, StartsInv, RowsInv, CountsInv, BucketsInv, Quiet, dropped = 0
               PROVE  /\ \A e \in DOMAIN RecentSeries : e >= 0 =>
                            RecentSeries[e] = Series(e, e + BucketWidth)[e \div BucketWidth]
                      /\ \A k \in DOMAIN stats.counts :
                            stats.counts[k] = Cardinality({q \in rows : KeyOf(entry[q]) = k})
                      /\ SumFunction(stats.counts) = Cardinality(rows)
    BY DEF TiersAgree
  <2>1. rows = Ended /\ rows \in SUBSET Query /\ IsFiniteSet(rows)
    <3>1. rows = Ended /\ rows \in SUBSET Query
      BY RowsAreEnded DEF Ended
    <3> QED
      BY <3>1, QueryLogAssumption, FS_Subset
  <2>2. ASSUME NEW e \in DOMAIN RecentSeries, e >= 0
        PROVE  RecentSeries[e] = Series(e, e + BucketWidth)[e \div BucketWidth]
    <3> DEFINE w == BucketWidth
               c == BucketCount
               b == stats.buckets[Slot(e)]
               l == c * w
    <3>1. PICK i \in 0..(c - 1) : e = Epoch(now) - i * w
      BY <2>2 DEF RecentSeries
    <3>2. w \in Nat /\ w # 0 /\ c \in Nat /\ c # 0 /\ now \in Nat
      BY QueryLogAssumption DEF LogShaped, TypeOK
    <3>3. e \in Nat /\ Epoch(e) = e
      <4> DEFINE n == now \div w
      <4>1. Epoch(now) = w * n /\ n \in Nat
        BY <3>2, EpochOf
      <4> HIDE DEF n, w, c
      <4>2. e = w * (n - i)
        BY <3>1, <3>2, <4>1
      <4>3. e \in Nat
        BY <2>2, <3>2, <4>1, <4>2
      <4>4. Epoch(e) = w * (e \div w)
        BY <4>3, EpochOf DEF w
      <4>5. n - i \in Nat
        BY <2>2, <3>2, <4>1, <4>2
      <4>6. e \div w = n - i
        BY <3>2, <4>2, <4>5
      <4> QED
        BY <4>2, <4>3, <4>4, <4>6
    <3>4. Epoch(now) < e + l
      <4>1. i * w <= (c - 1) * w /\ (c - 1) * w = l - w
        BY <3>2
      <4>2. Epoch(now) \in Nat /\ l \in Nat /\ i * w \in Nat
        BY <3>2, EpochOf
      <4> HIDE DEF l, w
      <4> QED
        BY <3>1, <3>2, <3>3, <4>1, <4>2
    <3>5. RecentSeries[e] = IF b.epoch = e THEN b.count ELSE 0
      BY <2>2 DEF RecentSeries
    <3>6. RecentSeries[e] = Cardinality(EndedIn(e))
      <4>1. CountsFor(b, e, EndedIn(e)) /\ Slot(e) \in 0..(c - 1)
        <5>1. CountsFor(stats.buckets[Slot(Epoch(e))], Epoch(e), EndedIn(Epoch(e)))
              /\ Slot(Epoch(e)) \in 0..(c - 1)
          BY <3>3, EpochOf, BucketsParts
        <5> QED
          BY <3>3, <5>1
      <4>2. /\ b.epoch \in Nat /\ b.epoch <= now /\ Epoch(b.epoch) = b.epoch
            /\ (b.epoch # 0 => Slot(b.epoch) = Slot(e))
        BY <4>1, BucketsParts DEF SlotTyped
      <4> HIDE DEF b
      <4>3. CASE b.epoch = e
        BY <3>5, <4>1, <4>3 DEF CountsFor
      <4>4. CASE b.epoch # e
        <5>1. EndedIn(e) = {}
          <6>1. SUFFICES ASSUME EndedIn(e) # {} PROVE FALSE
            OBVIOUS
          <6>2. b.epoch > e
            BY <3>3, <4>1, <4>2, <4>4, <6>1 DEF CountsFor
          <6>3. Slot(Epoch(e)) = Slot(Epoch(b.epoch)) /\ Epoch(e) < Epoch(b.epoch)
            BY <3>3, <4>2, <6>2
          <6>4. b.epoch >= e + l
            <7>1. Epoch(b.epoch) >= Epoch(e) + BucketCount * BucketWidth
              BY <3>3, <4>2, <6>3, LapsApart
            <7> QED
              BY <3>3, <4>2, <7>1
          <6>5. b.epoch <= Epoch(now)
            BY <3>2, <4>2, EpochsInOrder
          <6>6. Epoch(now) \in Nat /\ l \in Nat
            BY <3>2, EpochOf
          <6> HIDE DEF l
          <6> QED
            BY <3>3, <3>4, <4>2, <6>4, <6>5, <6>6
        <5> QED
          BY <3>5, <4>4, <5>1, FS_EmptySet
      <4> QED
        BY <4>3, <4>4
    <3>7. Series(e, e + w)[e \div w] = Cardinality(EndedIn(e))
      <4>1. e \div w \in Buckets(e, e + w)
        BY <3>3, WindowIsEpoch
      <4>2. ASSUME NEW q \in rows
            PROVE  e <= entry[q].start /\ entry[q].start < e + w /\ entry[q].start \div w = e \div w
                       <=> Epoch(entry[q].start) = e
        <5>1. entry[q].start \in Nat
          BY <2>1 DEF StartsInv, Ended
        <5> QED
          BY <3>3, <5>1, WindowIsEpoch
      <4>3. {q \in InWindow(e, e + w) : entry[q].start \div w = e \div w} = EndedIn(e)
        BY <2>1, <4>2 DEF InWindow, EndedIn
      <4> QED
        BY <4>1, <4>3 DEF Series, CountIn
    <3> QED
      BY <3>6, <3>7
  <2>3. /\ DOMAIN stats.counts = {KeyOf(entry[q]) : q \in rows}
        /\ \A k \in DOMAIN stats.counts :
              stats.counts[k] = Cardinality({q \in rows : KeyOf(entry[q]) = k})
    BY <2>1 DEF CountsInv
  <2>4. SumFunction(stats.counts) = Cardinality(rows)
    <3> DEFINE c == stats.counts
               g == [q \in rows |-> KeyOf(entry[q])]
    <3>1. IsFiniteSet(DOMAIN c)
      <4>1. g \in Surjection(rows, DOMAIN c)
        BY <2>3 DEF Surjection
      <4> QED
        BY <2>1, <4>1, FS_Surjection
    <3>2. ASSUME NEW k \in DOMAIN c PROVE c[k] = Cardinality({q \in rows : g[q] = k})
      <4>1. {q \in rows : g[q] = k} = {q \in rows : KeyOf(entry[q]) = k}
        OBVIOUS
      <4> QED
        BY <2>3, <4>1
    <3>3. \A q \in rows : g[q] \in DOMAIN c
      BY <2>3
    <3> HIDE DEF g, c
    <3>4. SumFunction(c) = Cardinality(rows)
      BY <2>1, <3>1, <3>2, <3>3, SumOfParts
    <3> QED
      BY <3>4 DEF c
  <2> QED
    BY <2>2, <2>3, <2>4
<1> QED
  BY <1>1, CountedInv, PTL

---------------------------------------------------------------------------
(* The snapshot and its pages. *)

\* One slot more of a snapshot: the filter keeps it or leaves it out.
Kept(s, i, t, matching) == IF s[i] \in matching THEN Append(t, s[i]) ELSE t

\* Of the first k of s, in order, t has those the filter matches: f says where
\* each comes from.
Places(f, t, n, s, k, matching) ==
    /\ \A i, j \in 1..n : i < j => f[i] < f[j]
    /\ \A i \in 1..n : t[i] = s[f[i]]
    /\ \A j \in 1..k : s[j] \in matching <=> \E i \in 1..n : f[i] = j
SelectsOf(t, s, k, matching) ==
    \E f \in [1..Len(t) -> 1..k] : Places(f, t, Len(t), s, k, matching)

\* Going one slot on keeps that.
LEMMA SelectsOneMore ==
    ASSUME NEW s \in Seq(Query), NEW k \in Nat, k + 1 <= Len(s), NEW matching,
           NEW t \in Seq(Query), SelectsOf(t, s, k, matching)
    PROVE  /\ Kept(s, k + 1, t, matching) \in Seq(Query)
           /\ SelectsOf(Kept(s, k + 1, t, matching), s, k + 1, matching)
<1> DEFINE n == Len(t)
           u == Kept(s, k + 1, t, matching)
<1>1. n \in Nat /\ k + 1 \in 1..Len(s) /\ s[k + 1] \in Query /\ k + 1 \in Nat
  OBVIOUS
<1>5. PICK f \in [1..n -> 1..k] : Places(f, t, n, s, k, matching)
  BY DEF SelectsOf
<1>2. /\ \A i, j \in 1..n : i < j => f[i] < f[j]
      /\ \A i \in 1..n : t[i] = s[f[i]]
      /\ \A j \in 1..k : s[j] \in matching <=> \E i \in 1..n : f[i] = j
  BY <1>5 DEF Places
<1>6. f \in [1..n -> 1..k] /\ \A i \in 1..n : f[i] \in 1..k
  BY <1>5
<1>3. CASE s[k + 1] \notin matching
  <2>1. u = t
    BY <1>3 DEF Kept
  <2>2. f \in [1..n -> 1..(k + 1)] /\ \A i \in 1..n : f[i] # k + 1
    <3>1. \A x \in 1..k : x \in 1..(k + 1) /\ x # k + 1
      OBVIOUS
    <3> HIDE DEF n
    <3> QED
      BY <1>6, <3>1
  <2>3. \A j \in 1..(k + 1) : s[j] \in matching <=> \E i \in 1..n : f[i] = j
    <3>1. ASSUME NEW j \in 1..(k + 1)
          PROVE  s[j] \in matching <=> \E i \in 1..n : f[i] = j
      <4>1. j \in 1..k \/ j = k + 1
        OBVIOUS
      <4> QED
        BY <1>2, <1>3, <2>2, <4>1
    <3> QED
      BY <3>1
  <2>4. Places(f, t, n, s, k + 1, matching)
    BY <1>2, <2>3 DEF Places
  <2>5. SelectsOf(t, s, k + 1, matching)
    BY <2>2, <2>4 DEF SelectsOf
  <2> QED
    BY <2>1, <2>5
<1>4. CASE s[k + 1] \in matching
  <2>1. u = Append(t, s[k + 1])
    BY <1>4 DEF Kept
  <2>2. /\ u \in Seq(Query) /\ Len(u) = n + 1 /\ u[n + 1] = s[k + 1]
        /\ \A i \in 1..n : u[i] = t[i]
    <3> DEFINE x == s[k + 1]
    <3>1. x \in Query
      BY <1>1
    <3> HIDE DEF x
    <3>2. /\ Append(t, x) \in Seq(Query) /\ Len(Append(t, x)) = n + 1
          /\ Append(t, x)[n + 1] = x /\ \A i \in 1..n : Append(t, x)[i] = t[i]
      BY <3>1
    <3> HIDE DEF u
    <3> QED
      BY <2>1, <3>2 DEF x
  <2> DEFINE g == [i \in 1..(n + 1) |-> IF i = n + 1 THEN k + 1 ELSE f[i]]
  <2>3. \A i \in 1..(n + 1) : i = n + 1 \/ i \in 1..n
    BY <1>1
  <2>4. /\ \A i \in 1..n : g[i] = f[i] /\ i \in 1..(n + 1) /\ f[i] \in 1..k /\ i # n + 1
        /\ g[n + 1] = k + 1 /\ n + 1 \in 1..(n + 1)
    BY <1>1, <1>6
  <2>5. g \in [1..(n + 1) -> 1..(k + 1)]
    <3>1. \A x \in 1..k : x \in 1..(k + 1)
      OBVIOUS
    <3>2. k + 1 \in 1..(k + 1)
      BY <1>1
    <3> QED
      BY <1>6, <2>3, <3>1, <3>2
  <2> HIDE DEF g, u
  <2>6. ASSUME NEW i \in 1..(n + 1), NEW j \in 1..(n + 1), i < j PROVE g[i] < g[j]
    <3>1. i \in 1..n
      BY <1>1, <2>6
    <3>2. CASE j = n + 1
      BY <2>4, <3>1, <3>2
    <3>3. CASE j \in 1..n
      BY <1>2, <2>4, <2>6, <3>1, <3>3
    <3> QED
      BY <2>3, <3>2, <3>3
  <2>7. ASSUME NEW i \in 1..(n + 1) PROVE u[i] = s[g[i]]
    BY <1>2, <2>2, <2>3, <2>4
  <2>8. ASSUME NEW j \in 1..(k + 1)
        PROVE  s[j] \in matching <=> \E i \in 1..(n + 1) : g[i] = j
    <3>1. CASE j = k + 1
      BY <1>4, <2>4, <3>1
    <3>2. CASE j # k + 1
      <4>1. j \in 1..k
        BY <3>2
      <4>2. (\E i \in 1..n : f[i] = j) <=> \E i \in 1..(n + 1) : g[i] = j
        BY <2>3, <2>4, <3>2
      <4> QED
        BY <1>2, <4>1, <4>2
    <3> QED
      BY <3>1, <3>2
  <2>9. Places(g, u, n + 1, s, k + 1, matching)
    BY <2>6, <2>7, <2>8 DEF Places
  <2>10. SelectsOf(u, s, k + 1, matching)
    BY <2>2, <2>5, <2>9 DEF SelectsOf
  <2> QED
    BY <2>2, <2>10 DEF u
<1> QED
  BY <1>3, <1>4

\* The walk back is defined for every length: of the lengths for which it is
\* not, the least would be one slot more than one for which it is.
LEMMA WalkDefined ==
    ASSUME NEW s \in Seq(Query), NEW matching, NEW n \in Nat
    PROVE  \E f : f = [i \in 0..n |-> IF i = 0 THEN <<>> ELSE Kept(s, i, f[i - 1], matching)]
<1> DEFINE Step(f, i) == IF i = 0 THEN <<>> ELSE Kept(s, i, f[i - 1], matching)
           Defined(k) == \E f : f = [i \in 0..k |-> Step(f, i)]
           Not == {k \in Nat : ~Defined(k)}
<1>1. ASSUME NEW f, NEW g, NEW i, i # 0 => f[i - 1] = g[i - 1] PROVE Step(f, i) = Step(g, i)
  BY <1>1
<1> HIDE DEF Step
<1>2. Defined(0)
  <2> DEFINE f == [i \in 0..0 |-> Step(0, i)]
  <2>1. ASSUME NEW i \in 0..0 PROVE Step(0, i) = Step(f, i)
    BY <1>1, i = 0
  <2>2. f = [i \in 0..0 |-> Step(f, i)]
    BY <2>1
  <2> QED
    BY <2>2
<1>3. ASSUME NEW k \in Nat, Defined(k) PROVE Defined(k + 1)
  <2>1. PICK f : f = [i \in 0..k |-> Step(f, i)]
    BY <1>3
  <2> DEFINE g == [i \in 0..(k + 1) |-> Step(f, i)]
  <2>2. \A i \in 0..k : g[i] = f[i] /\ i \in 0..(k + 1)
    BY <2>1
  <2>3. ASSUME NEW i \in 0..(k + 1) PROVE Step(f, i) = Step(g, i)
    <3>1. i # 0 => i - 1 \in 0..k
      OBVIOUS
    <3> HIDE DEF g
    <3> QED
      BY <1>1, <2>2, <3>1
  <2>4. g = [i \in 0..(k + 1) |-> Step(g, i)]
    BY <2>3
  <2> QED
    BY <2>4
<1> HIDE DEF Defined
<1>4. Not = {}
  <2>1. SUFFICES ASSUME Not # {} PROVE FALSE
    OBVIOUS
  <2>2. PICK k \in Not : \A m \in Not : k <= m
    BY <2>1, LeastNat
  <2>3. k \in Nat /\ k # 0 /\ ~Defined(k)
    BY <1>2, <2>2
  <2>4. k - 1 \in Nat /\ k - 1 + 1 = k /\ ~(k <= k - 1)
    BY <2>3
  <2>5. Defined(k - 1)
    BY <2>2, <2>4
  <2> QED
    BY <1>3, <2>3, <2>4, <2>5
<1>5. Defined(n)
  BY <1>4
<1> QED
  BY <1>5 DEF Defined, Step

\* Ring.Snapshot returns what the filter matches of the slots it walks over, in
\* order.
LEMMA SnapshotSelects ==
    ASSUME NEW r, NEW matching, r.size \in Nat, Slots(r) \in Seq(Query)
    PROVE  /\ Snapshot(r, matching) \in Seq(Query)
           /\ Selects(Snapshot(r, matching), Slots(r), matching)
<1> DEFINE s == Slots(r)
           n == r.size
           Walk(f) == f = [i \in 0..n |-> IF i = 0 THEN <<>> ELSE Kept(s, i, f[i - 1], matching)]
           found == CHOOSE f : Walk(f)
<1>1. Len(s) = n /\ n \in Nat
  <2>1. DOMAIN s = 1..n
    BY DEF Slots
  <2> HIDE DEF s
  <2> QED
    BY <2>1
<1>2. Snapshot(r, matching) = found[n]
  BY DEF Snapshot, Kept
<1> HIDE DEF s, n
<1>3. Walk(found)
  <2>1. \E f : Walk(f)
    BY <1>1, WalkDefined DEF s
  <2> HIDE DEF Walk
  <2> QED
    BY <2>1
<1> HIDE DEF found
<1>4. found[0] = <<>> /\ \A i \in 1..n : found[i] = Kept(s, i, found[i - 1], matching)
  <2>1. 0 \in 0..n /\ \A i \in 1..n : i \in 0..n /\ i # 0
    BY <1>1
  <2> QED
    BY <1>3, <2>1
<1> DEFINE Good(k) == found[k] \in Seq(Query) /\ SelectsOf(found[k], s, k, matching)
           Bad == {k \in 0..n : ~Good(k)}
<1>5. Good(0)
  <2>1. found[0] \in Seq(Query) /\ Len(found[0]) = 0
    BY <1>4
  <2>2. 1..0 = {} /\ [i \in {} |-> 0] \in [{} -> {}]
    OBVIOUS
  <2> QED
    BY <2>1, <2>2 DEF SelectsOf, Places
<1>6. ASSUME NEW k \in Nat, k + 1 <= n, Good(k) PROVE Good(k + 1)
  <2>1. k + 1 \in 1..n /\ k + 1 - 1 = k
    BY <1>1, <1>6
  <2>2. found[k + 1] = Kept(s, k + 1, found[k], matching)
    BY <1>4, <2>1
  <2> QED
    BY <1>1, <1>6, <2>2, SelectsOneMore DEF s
<1> HIDE DEF Good
<1>7. Bad = {}
  <2>1. SUFFICES ASSUME Bad # {} PROVE FALSE
    OBVIOUS
  <2>6. Bad \in SUBSET Nat
    BY <1>1
  <2>2. PICK k \in Bad : \A m \in Bad : k <= m
    <3> HIDE DEF Bad
    <3> QED
      BY <2>1, <2>6, LeastNat
  <2>3. k \in Nat /\ k <= n /\ k # 0 /\ ~Good(k)
    BY <1>1, <1>5, <2>2
  <2>4. k - 1 \in Nat /\ k - 1 + 1 = k /\ ~(k <= k - 1) /\ k - 1 \in 0..n
    BY <1>1, <2>3
  <2>5. Good(k - 1)
    BY <2>2, <2>4
  <2> QED
    BY <1>6, <2>3, <2>4, <2>5
<1>8. Good(n)
  BY <1>1, <1>7
<1> QED
  BY <1>1, <1>2, <1>8 DEF Good, Selects, SelectsOf, Places, s

\* The larger of two numbers.
LEMMA Larger ==
    ASSUME NEW a \in Nat, NEW b \in Nat
    PROVE  Max({a, b}) = IF a < b THEN b ELSE a
<1> DEFINE m == IF a < b THEN b ELSE a
<1>1. m \in {a, b} /\ \A y \in {a, b} : m >= y
  OBVIOUS
<1>2. ASSUME NEW x \in {a, b}, \A y \in {a, b} : x >= y PROVE x = m
  BY <1>1, <1>2
<1> QED
  BY <1>1, <1>2 DEF Max

\* As many pages as hold the entries, and no page too many.
LEMMA PagesHold ==
    ASSUME NEW all \in Seq(Query)
    PROVE  LET P == Pages(all)
           IN /\ P \in Nat /\ 1 <= P /\ Len(all) <= P * PageSize
              /\ Len(all) # 0 => (P - 1) * PageSize < Len(all)
              /\ Len(all) = 0 => P = 1
<1> DEFINE L == Len(all)
           z == PageSize
           x == L + z - 1
           y == x \div z
           P == Pages(all)
<1>1. L \in Nat /\ z \in Nat /\ z # 0 /\ x \in Nat
  BY QueryLogAssumption
<1>2. x = z * y + (x % z) /\ x % z \in 0..(z - 1) /\ y \in Nat
  BY <1>1, Divided
<1>3. P = IF 1 < y THEN y ELSE 1
  <2>1. Max({1, y}) = IF 1 < y THEN y ELSE 1
    BY <1>2, Larger
  <2> QED
    BY <2>1 DEF Pages
<1> HIDE DEF P, y
<1>4. z * y \in Nat /\ z * y <= L + z - 1 /\ L <= z * y
  BY <1>1, <1>2
<1>5. P \in Nat /\ 1 <= P /\ y <= P /\ (y # 0 => P = y)
  BY <1>2, <1>3
<1>6. L <= P * z
  <2>1. z * y <= z * P /\ z * P = P * z /\ z * P \in Nat
    BY <1>1, <1>2, <1>5
  <2> QED
    BY <1>1, <1>4, <2>1
<1>7. L # 0 => (P - 1) * z < L
  <2>1. SUFFICES ASSUME L # 0 PROVE (P - 1) * z < L
    OBVIOUS
  <2>2. y # 0
    BY <1>1, <1>4, <2>1
  <2>3. (P - 1) * z = z * y - z
    BY <1>1, <1>2, <1>5, <2>2
  <2> QED
    BY <1>1, <1>4, <2>3
<1>8. L = 0 => P = 1
  <2>1. SUFFICES ASSUME L = 0 PROVE ~(1 < y)
    BY <1>3
  <2>2. SUFFICES ASSUME 1 < y PROVE FALSE
    OBVIOUS
  <2>3. z * 2 <= z * y
    BY <1>1, <1>2, <2>2
  <2> QED
    BY <1>1, <1>4, <2>1, <2>3
<1> QED
  BY <1>5, <1>6, <1>7, <1>8 DEF P, L, z

\* Where page p ends.
UpTo(all, p) == IF p * PageSize < Len(all) THEN p * PageSize ELSE Len(all)

\* A page number is brought into range, and what is in range starts where the
\* page before it ends.
LEMMA PageIs ==
    ASSUME NEW all \in Seq(Query), NEW p \in Nat
    PROVE  LET c == Clamped(all, p)
           IN /\ c \in 1..Pages(all) /\ (p \in 1..Pages(all) => c = p)
              /\ Paginate(all, p) = SubSeq(all, (c - 1) * PageSize + 1, UpTo(all, c))
<1> DEFINE P == Pages(all)
           c == Clamped(all, p)
           m == IF p < P THEN p ELSE P
           start == (c - 1) * PageSize
<1>1. P \in Nat /\ 1 <= P
  BY PagesHold
<1>2. PageSize \in Nat /\ Len(all) \in Nat
  BY QueryLogAssumption
<1> HIDE DEF P
<1>3. Min({p, P}) = m /\ m \in Nat
  BY <1>1, Smaller
<1> HIDE DEF m
<1>4. c = IF 1 < m THEN m ELSE 1
  <2>1. Max({1, m}) = IF 1 < m THEN m ELSE 1
    BY <1>3, Larger
  <2> QED
    BY <1>3, <2>1 DEF Clamped, P
<1> HIDE DEF c
<1>5. c \in 1..P /\ (p \in 1..P => c = p)
  BY <1>1, <1>3, <1>4 DEF m
<1>6. start + PageSize = c * PageSize /\ start \in Nat /\ c * PageSize \in Nat
  <2>1. c \in Nat /\ c - 1 \in Nat
    BY <1>1, <1>5
  <2>2. (c - 1) * PageSize = c * PageSize - PageSize
    BY <1>2, <2>1
  <2>3. (c - 1) * PageSize \in Nat /\ c * PageSize \in Nat
    BY <1>2, <2>1
  <2> QED
    BY <1>2, <2>2, <2>3
<1>7. Min({start + PageSize, Len(all)}) = UpTo(all, c)
  <2>1. Min({c * PageSize, Len(all)}) = IF c * PageSize < Len(all) THEN c * PageSize ELSE Len(all)
    BY <1>2, <1>6, Smaller
  <2> QED
    BY <1>6, <2>1 DEF UpTo
<1>8. Paginate(all, p) = SubSeq(all, start + 1, UpTo(all, c))
  <2>1. Paginate(all, p) = SubSeq(all, start + 1, Min({start + PageSize, Len(all)}))
    BY DEF Paginate, c
  <2> QED
    BY <1>7, <2>1
<1> QED
  BY <1>5, <1>8 DEF c, P

\* A part of a sequence and the part after it.
LEMMA PartsJoin ==
    ASSUME NEW s \in Seq(Query), NEW a \in Nat, NEW b \in Nat, a <= b, b <= Len(s)
    PROVE  SubSeq(s, 1, a) \o SubSeq(s, a + 1, b) = SubSeq(s, 1, b)
<1> DEFINE u == SubSeq(s, 1, a)
           v == SubSeq(s, a + 1, b)
           w == SubSeq(s, 1, b)
<1>1. u \in Seq(Query) /\ Len(u) = a /\ \A i \in 1..a : u[i] = s[i]
  OBVIOUS
<1>2. v \in Seq(Query) /\ Len(v) = b - a /\ \A i \in 1..(b - a) : v[i] = s[a + i]
  OBVIOUS
<1>3. w \in Seq(Query) /\ Len(w) = b /\ \A i \in 1..b : w[i] = s[i]
  OBVIOUS
<1> HIDE DEF u, v, w
<1>4. u \o v \in Seq(Query) /\ Len(u \o v) = b
  <2>1. u \in Seq(Query) /\ v \in Seq(Query)
    BY <1>1, <1>2
  <2>2. u \o v \in Seq(Query) /\ Len(u \o v) = Len(u) + Len(v)
    BY <2>1
  <2> QED
    BY <1>1, <1>2, <2>2
<1>5. ASSUME NEW i \in 1..b PROVE (u \o v)[i] = w[i]
  <2>1. CASE i <= a
    BY <1>1, <1>2, <1>3, <2>1, SMTT(40)
  <2>2. CASE i > a
    <3>1. i - a \in 1..(b - a) /\ a + (i - a) = i
      BY <2>2
    <3>2. (u \o v)[i] = v[i - a]
      BY <1>1, <1>2, <2>2
    <3> QED
      BY <1>2, <1>3, <3>1, <3>2
  <2>3. i <= a \/ i > a
    OBVIOUS
  <2> QED
    BY <2>1, <2>2, <2>3, Zenon
<1>6. u \o v = w
  BY <1>3, <1>4, <1>5, SeqEqual
<1> QED
  BY <1>6 DEF u, v, w

\* The pages, one after the other, are the log: FlattenSeq has put together what
\* comes before the end of each page, and of the pages where it had not the first
\* would follow one where it had.
LEMMA PagesAreAll ==
    ASSUME NEW all \in Seq(Query)
    PROVE  FlattenSeq([p \in 1..Pages(all) |-> Paginate(all, p)]) = all
<1> DEFINE P == Pages(all)
           L == Len(all)
           z == PageSize
           page == [p \in 1..P |-> Paginate(all, p)]
           Part(p) == SubSeq(all, 1, UpTo(all, p))
           Step(f, i) == IF i = 1 THEN page[i] ELSE f[i - 1] \o page[i]
           Joins(f) == f = [i \in 1..P |-> Step(f, i)]
           flat == CHOOSE f : Joins(f)
           part == [i \in 1..P |-> Part(i)]
<1>1. /\ P \in Nat /\ 1 <= P /\ L <= P * z
      /\ L # 0 => (P - 1) * z < L
      /\ L = 0 => P = 1
  BY PagesHold
<1>2. z \in Nat /\ L \in Nat
  BY QueryLogAssumption
<1> HIDE DEF P, z
<1>3. ASSUME NEW p \in 1..P
      PROVE  /\ (p - 1) * z \in Nat /\ p * z \in Nat /\ (p - 1) * z <= p * z
             /\ (p - 1) * z <= L
  <2>1. p \in Nat /\ p - 1 \in Nat /\ P - 1 \in Nat /\ p - 1 <= P - 1 /\ p - 1 <= p
    BY <1>1
  <2>2. (p - 1) * z \in Nat /\ p * z \in Nat /\ (P - 1) * z \in Nat
    BY <1>2, <2>1
  <2>3. (p - 1) * z <= (P - 1) * z /\ (p - 1) * z <= p * z
    BY <1>2, <2>1
  <2>4. (P - 1) * z <= L
    <3>1. CASE L # 0
      BY <1>1, <1>2, <2>2, <3>1
    <3>2. CASE L = 0
      BY <1>1, <1>2, <3>2
    <3> QED
      BY <3>1, <3>2
  <2> QED
    BY <1>2, <2>2, <2>3, <2>4
<1>4. ASSUME NEW p \in 1..P
      PROVE  /\ page[p] = SubSeq(all, (p - 1) * z + 1, UpTo(all, p))
             /\ UpTo(all, p) \in Nat /\ UpTo(all, p) <= L /\ (p - 1) * z <= UpTo(all, p)
  <2>1. p \in Nat
    BY <1>1
  <2>2. Paginate(all, p) = SubSeq(all, (p - 1) * z + 1, UpTo(all, p))
    <3>1. /\ p \in 1..Pages(all) => Clamped(all, p) = p
          /\ Paginate(all, p) = SubSeq(all, (Clamped(all, p) - 1) * PageSize + 1,
                                       UpTo(all, Clamped(all, p)))
      BY <2>1, PageIs
    <3> QED
      BY <3>1 DEF P, z
  <2>3. UpTo(all, p) = IF p * z < L THEN p * z ELSE L
    BY DEF UpTo, z
  <2> QED
    BY <1>2, <1>3, <2>2, <2>3
<1>5. FlattenSeq(page) = flat[P]
  <2>1. Len(page) = P /\ P # 0
    <3>1. page \in Seq({Paginate(all, p) : p \in 1..P}) /\ DOMAIN page = 1..P
      <4> DEFINE S == {Paginate(all, p) : p \in 1..P}
      <4>1. page \in [1..P -> S]
        OBVIOUS
      <4> HIDE DEF S, page
      <4>2. page \in Seq(S) /\ DOMAIN page = 1..P
        BY <1>1, <4>1, SeqDef
      <4> QED
        BY <4>2 DEF S
    <3> HIDE DEF page
    <3> QED
      BY <1>1, <3>1
  <2> HIDE DEF page
  <2> QED
    BY <2>1 DEF FlattenSeq
<1> HIDE DEF page, Part, L
<1>6. ASSUME NEW i \in 1..P PROVE i = 1 => Part(i) = page[i]
  <2>1. SUFFICES ASSUME i = 1 PROVE Part(i) = page[i]
    OBVIOUS
  <2>2. (i - 1) * z + 1 = 1
    BY <1>2, <2>1
  <2> QED
    BY <1>4, <2>2 DEF Part
<1>7. ASSUME NEW i \in 1..P, i # 1 PROVE i - 1 \in 1..P /\ Part(i) = Part(i - 1) \o page[i]
  <2>1. i - 1 \in 1..P
    BY <1>1, <1>7
  <2>2. UpTo(all, i - 1) = (i - 1) * z
    <3>1. (i - 1) * z <= L /\ (i - 1) * z \in Nat
      BY <1>3
    <3>2. UpTo(all, i - 1) = IF (i - 1) * z < L THEN (i - 1) * z ELSE L
      BY DEF UpTo, z, L
    <3> DEFINE y == (i - 1) * z
    <3> HIDE DEF y
    <3>3. y <= L /\ y \in Nat /\ UpTo(all, i - 1) = IF y < L THEN y ELSE L
      BY <3>1, <3>2 DEF y
    <3>4. UpTo(all, i - 1) = y
      BY <1>2, <3>3
    <3> QED
      BY <3>4 DEF y
  <2>3. /\ (i - 1) * z \in Nat /\ UpTo(all, i) \in Nat
        /\ (i - 1) * z <= UpTo(all, i) /\ UpTo(all, i) <= Len(all)
    BY <1>3, <1>4 DEF L
  <2>4. SubSeq(all, 1, (i - 1) * z) \o SubSeq(all, (i - 1) * z + 1, UpTo(all, i))
            = SubSeq(all, 1, UpTo(all, i))
    BY <2>3, PartsJoin
  <2> QED
    BY <1>4, <2>1, <2>2, <2>4 DEF Part
<1>8. Joins(part)
  <2>1. ASSUME NEW i \in 1..P PROVE Part(i) = Step(part, i)
    <3>1. CASE i = 1
      BY <1>6, <3>1
    <3>2. CASE i # 1
      <4>1. part[i - 1] = Part(i - 1)
        BY <1>7, <3>2
      <4> HIDE DEF part
      <4> QED
        BY <1>7, <3>2, <4>1
    <3> QED
      BY <3>1, <3>2
  <2> HIDE DEF Step
  <2> QED
    BY <2>1
<1>9. Joins(flat)
  <2> HIDE DEF Joins, part
  <2> QED
    BY <1>8
<1> HIDE DEF flat
<1> DEFINE Wrong == {i \in 1..P : flat[i] # Part(i)}
<1>10. Wrong = {}
  <2>1. SUFFICES ASSUME Wrong # {} PROVE FALSE
    OBVIOUS
  <2>2. Wrong \in SUBSET Nat
    BY <1>1
  <2>3. PICK i \in Wrong : \A m \in Wrong : i <= m
    <3> HIDE DEF Wrong
    <3> QED
      BY <2>1, <2>2, LeastNat
  <2>4. i \in 1..P /\ flat[i] # Part(i) /\ i \in Nat
    BY <2>2, <2>3
  <2>5. flat[i] = Step(flat, i)
    <3> HIDE DEF Step
    <3> QED
      BY <1>9, <2>4
  <2>6. CASE i = 1
    BY <1>6, <2>4, <2>5, <2>6
  <2>7. CASE i # 1
    <3>3. ~(i <= i - 1)
      BY <2>4
    <3>1. i - 1 \in 1..P /\ ~(i <= i - 1)
      BY <1>7, <2>4, <2>7, <3>3
    <3>2. flat[i - 1] = Part(i - 1)
      BY <2>3, <3>1
    <3> QED
      BY <1>7, <2>4, <2>5, <2>7, <3>2
  <2> QED
    BY <2>6, <2>7
<1>11. flat[P] = Part(P)
  BY <1>1, <1>10
<1>12. Part(P) = all
  <2>1. UpTo(all, P) = L
    <3> DEFINE y == P * z
    <3>1. y \in Nat
      BY <1>1, <1>3
    <3>2. UpTo(all, P) = IF y < L THEN y ELSE L
      BY DEF UpTo, z, L
    <3>3. L <= y
      BY <1>1
    <3> HIDE DEF y
    <3> QED
      BY <1>2, <3>1, <3>2, <3>3
  <2>2. SubSeq(all, 1, Len(all)) = all
    OBVIOUS
  <2> QED
    BY <2>1, <2>2 DEF Part, L
<1> QED
  BY <1>5, <1>11, <1>12 DEF page, P

\* Whatever page is asked for, a log with entries shows some.
LEMMA PageNotEmpty ==
    ASSUME NEW all \in Seq(Query), all # <<>>, NEW p \in Nat
    PROVE  Paginate(all, p) # <<>>
<1> DEFINE c == Clamped(all, p)
           P == Pages(all)
           L == Len(all)
           z == PageSize
           a == (c - 1) * z
           e == UpTo(all, c)
<1>1. L \in Nat /\ L # 0 /\ z \in Nat /\ z # 0
  BY QueryLogAssumption
<1>2. P \in Nat /\ (P - 1) * z < L
  BY <1>1, PagesHold
<1>3. c \in 1..P /\ Paginate(all, p) = SubSeq(all, a + 1, e)
  BY PageIs
<1>4. e = IF c * z < L THEN c * z ELSE L
  BY DEF UpTo
<1> HIDE DEF c, P, L, z, e
<1>5. a \in Nat /\ c * z \in Nat /\ a < L /\ a < c * z
  <2>1. c \in Nat /\ c - 1 \in Nat /\ P - 1 \in Nat /\ c - 1 <= P - 1
    BY <1>2, <1>3
  <2>2. (c - 1) * z <= (P - 1) * z /\ (c - 1) * z \in Nat /\ (P - 1) * z \in Nat
    BY <1>1, <2>1
  <2>3. (c - 1) * z = c * z - z /\ c * z \in Nat
    BY <1>1, <2>1
  <2> QED
    BY <1>1, <1>2, <2>2, <2>3
<1> HIDE DEF a
<1>6. e \in Nat /\ a + 1 <= e /\ e <= L
  BY <1>1, <1>4, <1>5
<1>7. Len(SubSeq(all, a + 1, e)) = e - a
  BY <1>5, <1>6 DEF L
<1>8. e - a # 0
  BY <1>5, <1>6
<1>9. SubSeq(all, a + 1, e) # <<>>
  BY <1>7, <1>8, Len(<<>>) = 0
<1> QED
  BY <1>3, <1>9 DEF a, c, z, e

\* Across wraps, reloads and concurrent pushes, and whatever the filter: a snapshot
\* has, newest first, just the entries it matches of those the ring should hold,
\* and the pages of the query log show each of them once (ring.go:77, log pages).
THEOREM SnapshotsHoldNewest == Spec => []SnapshotIsNewest
<1>1. LogShaped /\ RingsAreTails => SnapshotIsNewest
  <2> SUFFICES ASSUME LogShaped, RingsAreTails, NEW r \in Ring, NEW matching \in SUBSET Query
               PROVE  LET all == Snapshot(ring[r], matching)
                      IN /\ Selects(all, Newest(pushed[r], ring[r].cap), matching)
                         /\ r = current =>
                               /\ FlattenSeq([p \in 1..Pages(all) |-> Grid(p, matching)]) = all
                               /\ \A p \in 0..(Len(all) + 2) :
                                     all # <<>> => Grid(p, matching) # <<>>
    BY DEF SnapshotIsNewest, Filters
  <2> DEFINE all == Snapshot(ring[r], matching)
             s == Slots(ring[r])
  <2>1. ring[r].size \in Nat /\ s \in Seq(Query) /\ s = Newest(pushed[r], ring[r].cap)
    BY RingIsNewest
  <2>2. all \in Seq(Query) /\ Selects(all, s, matching)
    BY <2>1, SnapshotSelects
  <2>3. r # 0
    BY DEF Ring, LogShaped
  <2> HIDE DEF all, s
  <2>4. ASSUME r = current
        PROVE  /\ FlattenSeq([p \in 1..Pages(all) |-> Grid(p, matching)]) = all
               /\ \A p \in 0..(Len(all) + 2) : all # <<>> => Grid(p, matching) # <<>>
    <3>1. \A p : Grid(p, matching) = Paginate(all, p)
      BY <2>3, <2>4 DEF Grid, all
    <3>2. [p \in 1..Pages(all) |-> Grid(p, matching)] = [p \in 1..Pages(all) |-> Paginate(all, p)]
      BY <3>1
    <3>3. FlattenSeq([p \in 1..Pages(all) |-> Paginate(all, p)]) = all
      BY <2>2, PagesAreAll
    <3>4. \A p \in Nat : all # <<>> => Paginate(all, p) # <<>>
      BY <2>2, PageNotEmpty
    <3>5. \A p \in 0..(Len(all) + 2) : p \in Nat
      BY <2>2
    <3> QED
      BY <3>1, <3>2, <3>3, <3>4, <3>5
  <2> QED
    BY <2>1, <2>2, <2>4 DEF all
<1> QED
  BY <1>1, LogInv, PTL

---------------------------------------------------------------------------
(* The stored series and the clients' activity. *)

\* Later times are in later buckets.
LEMMA QuotientsInOrder ==
    ASSUME NEW a \in Nat, NEW b \in Nat, a <= b, NEW w \in Nat, w # 0
    PROVE  a \div w \in Nat /\ b \div w \in Nat /\ a \div w <= b \div w
<1> DEFINE x == a \div w
           y == b \div w
<1>1. a = w * x + (a % w) /\ a % w \in 0..(w - 1) /\ x \in Nat
  BY Divided
<1>2. b = w * y + (b % w) /\ b % w \in 0..(w - 1) /\ y \in Nat
  BY Divided
<1> DEFINE c == a % w
           d == b % w
<1> HIDE DEF x, y, c, d
<1>3. a = w * x + c /\ c \in Nat /\ b = w * y + d /\ d \in Nat /\ d < w
  BY <1>1, <1>2 DEF c, d
<1>4. ~(y < x)
  <2>1. SUFFICES ASSUME y < x PROVE FALSE
    OBVIOUS
  <2>2. w * (y + 1) <= w * x
    BY <1>1, <1>2, <2>1
  <2>3. w * (y + 1) = w * y + w
    BY <1>2
  <2>4. w * x \in Nat /\ w * y \in Nat
    BY <1>1, <1>2
  <2> QED
    BY <1>3, <2>2, <2>3, <2>4
<1> QED
  BY <1>1, <1>2, <1>4 DEF x, y

\* The rows of a window: finitely many, of clients, with a start in it.
LEMMA WindowRows ==
    ASSUME LogShaped, StartsInv, RowsInv, NEW from \in Nat, NEW to \in Nat
    PROVE  LET S == InWindow(from, to)
           IN /\ S \in SUBSET Query /\ IsFiniteSet(S) /\ S \subseteq rows
              /\ \A q \in rows : /\ entry[q].start \in Nat /\ entry[q].start <= now
                                 /\ entry[q].client \in Nat
              /\ \A q \in S : from <= entry[q].start /\ entry[q].start < to
<1>1. InWindow(from, to) \subseteq rows /\ rows \subseteq Query
  BY DEF InWindow, LogShaped, TypeOK
<1>2. IsFiniteSet(InWindow(from, to))
  BY <1>1, QueryLogAssumption, FS_Subset
<1>3. ASSUME NEW q \in rows
      PROVE  entry[q].start \in Nat /\ entry[q].start <= now /\ entry[q].client \in Nat
  <2>1. q \in Query /\ at[q] # "new"
    BY <1>1 DEF RowsInv
  <2>2. entry[q].client \in Client
    BY <2>1 DEF LogShaped, TypeOK
  <2> QED
    BY <2>1, <2>2, QueryLogAssumption DEF StartsInv
<1>4. \A q \in InWindow(from, to) : from <= entry[q].start /\ entry[q].start < to
  BY DEF InWindow
<1> QED
  BY <1>1, <1>2, <1>3, <1>4

\* The buckets of a window are finitely many, and every time in it has one.
LEMMA BucketsCover ==
    ASSUME NEW from \in Nat, NEW to \in Nat, from < to
    PROVE  /\ IsFiniteSet(Buckets(from, to))
           /\ \A t \in Nat : from <= t /\ t < to => t \div BucketWidth \in Buckets(from, to)
<1> DEFINE w == BucketWidth
<1>1. w \in Nat /\ w # 0 /\ to - 1 \in Nat /\ from <= to - 1
  BY QueryLogAssumption
<1> HIDE DEF w
<1>2. from \div w \in Nat /\ (to - 1) \div w \in Nat
  BY <1>1, QuotientsInOrder
<1>3. Buckets(from, to) = (from \div w)..((to - 1) \div w)
  BY <1>1 DEF Buckets, w
<1>4. IsFiniteSet(Buckets(from, to))
  BY <1>2, <1>3, FS_Interval
<1>5. ASSUME NEW t \in Nat, from <= t, t < to PROVE t \div w \in Buckets(from, to)
  <2>1. t <= to - 1
    BY <1>5
  <2>2. t \div w \in Nat /\ from \div w <= t \div w /\ t \div w <= (to - 1) \div w
    BY <1>1, <1>5, <2>1, QuotientsInOrder
  <2> DEFINE x == from \div w
             y == t \div w
             z == (to - 1) \div w
  <2>3. x \in Nat /\ y \in Nat /\ z \in Nat /\ x <= y /\ y <= z /\ Buckets(from, to) = x..z
    BY <1>2, <1>3, <2>2
  <2> HIDE DEF x, y, z
  <2>4. y \in Buckets(from, to)
    BY <2>3
  <2> QED
    BY <2>4 DEF y
<1> QED
  BY <1>4, <1>5 DEF w

\* Log.Series counts every row of the window once.
LEMMA SeriesAddsUp ==
    ASSUME LogShaped, StartsInv, RowsInv, NEW from \in Nat, NEW to \in Nat, from < to
    PROVE  SumFunction(Series(from, to)) = Cardinality(InWindow(from, to))
<1> DEFINE S == InWindow(from, to)
           B == Buckets(from, to)
           f == Series(from, to)
           g == [q \in S |-> entry[q].start \div BucketWidth]
<1>1. IsFiniteSet(S) /\ \A q \in S : entry[q].start \in Nat
                                      /\ from <= entry[q].start /\ entry[q].start < to
  BY WindowRows
<1>2. IsFiniteSet(B) /\ \A q \in S : g[q] \in B
  BY <1>1, BucketsCover
<1>3. DOMAIN f = B /\ \A b \in B : f[b] = CountIn(S, b)
  BY DEF Series
<1>4. ASSUME NEW b \in B PROVE f[b] = Cardinality({q \in S : g[q] = b})
  <2>1. {q \in S : g[q] = b} = {q \in S : entry[q].start \div BucketWidth = b}
    OBVIOUS
  <2>2. f[b] = Cardinality({q \in S : entry[q].start \div BucketWidth = b})
    BY <1>3 DEF CountIn
  <2> QED
    BY <2>1, <2>2
<1> HIDE DEF S, B, f, g
<1>5. SumFunction(f) = Cardinality(S)
  BY <1>1, <1>2, <1>3, <1>4, SumOfParts
<1> QED
  BY <1>5 DEF f, S

\* What the order of the clients gives: every client of the rows once, and no
\* later one with more rows.
RankedOK(S, ranked) ==
    LET C == {entry[q].client : q \in S}
    IN /\ IsFiniteSet(C) /\ Cardinality(C) \in Nat /\ C \subseteq Nat
       /\ ranked \in [1..Cardinality(C) -> C]
       /\ \A i, j \in 1..Cardinality(C) : ranked[i] = ranked[j] => i = j
       /\ \A c \in C : \E i \in 1..Cardinality(C) : ranked[i] = c
       /\ \A i, j \in 1..Cardinality(C) : i < j => Ahead(S, ranked[i], ranked[j])

\* A group has some number of rows.
LEMMA GroupsCount ==
    ASSUME NEW S \in SUBSET Query, NEW c
    PROVE  GroupCount(S, "client", c) \in Nat
<1>1. {q \in S : entry[q]["client"] = c} \in SUBSET Query
  OBVIOUS
<1>2. IsFiniteSet({q \in S : entry[q]["client"] = c})
  BY <1>1, QueryLogAssumption, FS_Subset
<1> QED
  BY <1>2, FS_CardinalityType DEF GroupCount

\* The clients of some rows can be ranked, by count and then by address.
LEMMA Ranks ==
    ASSUME NEW S \in SUBSET Query, \A q \in S : entry[q].client \in Nat
    PROVE  RankedOK(S, Ranked(S))
<1> DEFINE C == {entry[q].client : q \in S}
           N == Cardinality(C)
           G(c) == GroupCount(S, "client", c)
           R == {p \in C \X C : Ahead(S, p[1], p[2])}
           Sorted(s) == \A i, j \in 1..N : i < j => Ahead(S, s[i], s[j])
<1>1. IsFiniteSet(C) /\ N \in Nat /\ C \subseteq Nat
  <2> DEFINE g == [q \in S |-> entry[q].client]
  <2>1. g \in Surjection(S, C)
    BY DEF Surjection
  <2>2. IsFiniteSet(S)
    BY QueryLogAssumption, FS_Subset
  <2>3. IsFiniteSet(C)
    BY <2>1, <2>2, FS_Surjection
  <2> QED
    BY <2>3, FS_CardinalityType
<1>2. \A c \in C : G(c) \in Nat /\ c \in Nat
  BY <1>1, GroupsCount
<1>3. \A c, d \in C : Ahead(S, c, d) <=> G(c) > G(d) \/ (G(c) = G(d) /\ c < d)
  BY DEF Ahead
<1>4. \A c, d \in C : <<c, d>> \in R <=> Ahead(S, c, d)
  OBVIOUS
<1>5. Ranked(S) = CHOOSE s \in SetToSeqs(C) : \A i, j \in DOMAIN s : i < j => Ahead(S, s[i], s[j])
  BY DEF Ranked
<1> HIDE DEF C, G, R
<1>6. \A x \in C : <<x, x>> \notin R
  BY <1>2, <1>3, <1>4
<1>7. \A x, y, z \in C : <<x, y>> \in R /\ <<y, z>> \in R => <<x, z>> \in R
  <2>1. SUFFICES ASSUME NEW x \in C, NEW y \in C, NEW z \in C, Ahead(S, x, y), Ahead(S, y, z)
                 PROVE  Ahead(S, x, z)
    BY <1>4
  <2>2. /\ G(x) > G(y) \/ (G(x) = G(y) /\ x < y)
        /\ G(y) > G(z) \/ (G(y) = G(z) /\ y < z)
    BY <1>3, <2>1
  <2>3. /\ G(x) \in Nat /\ G(y) \in Nat /\ G(z) \in Nat
        /\ x \in Nat /\ y \in Nat /\ z \in Nat
    BY <1>2
  <2>4. G(x) > G(z) \/ (G(x) = G(z) /\ x < z)
    BY <2>2, <2>3
  <2> QED
    BY <1>3, <2>4
<1>8. \A x, y \in C : x # y => <<x, y>> \in R \/ <<y, x>> \in R
  <2>1. SUFFICES ASSUME NEW x \in C, NEW y \in C, x # y
                 PROVE  Ahead(S, x, y) \/ Ahead(S, y, x)
    BY <1>4
  <2>2. G(x) \in Nat /\ G(y) \in Nat /\ x \in Nat /\ y \in Nat
    BY <1>2
  <2>3. \/ G(x) > G(y) \/ (G(x) = G(y) /\ x < y)
        \/ G(y) > G(x) \/ (G(y) = G(x) /\ y < x)
    BY <2>1, <2>2
  <2> QED
    BY <1>3, <2>3
<1> HIDE DEF N
<1>9. PICK s \in [1..N -> C] :
        /\ \A i, j \in 1..N : i # j => s[i] # s[j]
        /\ \A i, j \in 1..N : i < j => <<s[i], s[j]>> \in R
  BY <1>1, <1>6, <1>7, <1>8, ListedInOrder DEF N
<1>10. s \in SetToSeqs(C) /\ \A i, j \in DOMAIN s : i < j => Ahead(S, s[i], s[j])
  <2>1. s \in SetToSeqs(C)
    BY <1>9 DEF SetToSeqs, N
  <2>2. DOMAIN s = 1..N /\ \A i \in 1..N : s[i] \in C
    BY <1>9
  <2> QED
    BY <1>4, <1>9, <2>1, <2>2
<1> DEFINE r == Ranked(S)
<1>11. r \in SetToSeqs(C) /\ \A i, j \in DOMAIN r : i < j => Ahead(S, r[i], r[j])
  BY <1>5, <1>10
<1> HIDE DEF r
<1>12. r \in [1..N -> C] /\ \A i, j \in 1..N : r[i] = r[j] => i = j
  BY <1>11 DEF SetToSeqs, N
<1>13. \A c \in C : \E i \in 1..N : r[i] = c
  <2> DEFINE D == 1..N
  <2>1. Cardinality(D) = Cardinality(C)
    <3>1. Cardinality(1..N) = IF 1 > N THEN 0 ELSE N - 1 + 1
      BY <1>1, FS_Interval
    <3> QED
      BY <1>1, <3>1 DEF N
  <2> HIDE DEF D
  <2>2. r \in Injection(D, C)
    BY <1>12 DEF Injection, IsInjective, D
  <2>3. r \in Surjection(D, C)
    BY <1>1, <2>1, <2>2, FS_Injection
  <2> QED
    BY <2>3 DEF Surjection, D
<1>14. DOMAIN r = 1..N
  BY <1>12
<1> QED
  BY <1>1, <1>11, <1>12, <1>13, <1>14 DEF RankedOK, C, N, r

\* The rows of ClientActivity: one for each of the first n of N ranked clients,
\* and one for the others if there are any.
RowsOf(a, S, ranked, n, N, B) ==
    LET m == IF n < N THEN n ELSE N
        F == Folded(ranked, n)
    IN /\ DOMAIN a = 1..(IF F = {} THEN m ELSE m + 1)
       /\ \A i \in 1..m : a[i] = Row(S, {ranked[i]}, B)
       /\ F # {} => a[m + 1] = Row(S, F, B)
       /\ F = {ranked[i] : i \in (n + 1)..N}

\* ClientActivity has those rows.
LEMMA ActivityRows ==
    ASSUME NEW from, NEW to, NEW n \in Nat, NEW N \in Nat, NEW V,
           Ranked(InWindow(from, to)) \in [1..N -> V]
    PROVE  RowsOf(ClientActivity(from, to, n), InWindow(from, to), Ranked(InWindow(from, to)),
                  n, N, Buckets(from, to))
<1> DEFINE S == InWindow(from, to)
           ranked == Ranked(S)
           B == Buckets(from, to)
           a == ClientActivity(from, to, n)
           m == IF n < N THEN n ELSE N
           F == Folded(ranked, n)
           R(i) == Row(S, {ranked[i]}, B)
           rest == Row(S, F, B)
           top == [i \in 1..m |-> R(i)]
<1>1. Len(ranked) = N
  <2> HIDE DEF ranked
  <2>1. ranked \in Seq(V) /\ DOMAIN ranked = 1..N
    BY SeqDef DEF ranked
  <2> QED
    BY <2>1
<1>2. Min({n, Len(ranked)}) = m /\ m \in Nat
  BY <1>1, Smaller
<1>3. F = {ranked[i] : i \in (n + 1)..N}
  BY <1>1 DEF Folded
<1>4. a = IF F = {} THEN top ELSE Append(top, rest)
  BY <1>2 DEF ClientActivity
<1> HIDE DEF S, ranked, B, a, m, F, R, rest
<1>5. top \in Seq(Range(top)) /\ DOMAIN top = 1..m /\ Len(top) = m
      /\ \A i \in 1..m : top[i] = R(i)
  <2>1. top \in [1..m -> Range(top)] /\ DOMAIN top = 1..m /\ \A i \in 1..m : top[i] = R(i)
    BY DEF Range
  <2> HIDE DEF top
  <2>2. top \in Seq(Range(top))
    BY <1>2, <2>1, SeqDef
  <2> QED
    BY <1>2, <2>1, <2>2
<1> HIDE DEF top
<1>6. CASE F = {}
  <2>1. a = top
    BY <1>4, <1>6
  <2> QED
    BY <1>3, <1>5, <1>6, <2>1 DEF RowsOf, S, ranked, B, a, m, F, R, rest
<1>7. CASE F # {}
  <2>1. a = Append(top, rest)
    BY <1>4, <1>7
  <2>2. /\ DOMAIN Append(top, rest) = DOMAIN top \cup {Len(top) + 1}
        /\ \A i \in DOMAIN top : Append(top, rest)[i] = top[i]
        /\ Append(top, rest)[Len(top) + 1] = rest
    BY <1>5, SeqAppended
  <2>3. 1..m \cup {m + 1} = 1..(m + 1)
    BY <1>2
  <2>4. DOMAIN a = 1..(m + 1) /\ (\A i \in 1..m : a[i] = R(i)) /\ a[m + 1] = rest
    BY <1>5, <2>1, <2>2, <2>3
  <2> QED
    BY <1>3, <1>7, <2>4 DEF RowsOf, S, ranked, B, a, m, F, R, rest
<1> QED
  BY <1>6, <1>7

\* In every bucket the rows of ClientActivity add up to Series: a query is in the
\* row of its client, or in that of the others.
LEMMA ActivityAdds ==
    ASSUME LogShaped, StartsInv, RowsInv, NEW from \in Nat, NEW to \in Nat,
           NEW n \in Nat, NEW b \in Buckets(from, to)
    PROVE  LET a == ClientActivity(from, to, n)
           IN SumFunction([i \in DOMAIN a |-> a[i][b]]) = Series(from, to)[b]
<1> DEFINE S == InWindow(from, to)
           C == {entry[q].client : q \in S}
           N == Cardinality(C)
           B == Buckets(from, to)
           ranked == Ranked(S)
           m == IF n < N THEN n ELSE N
           F == Folded(ranked, n)
           a == ClientActivity(from, to, n)
           K == IF F = {} THEN m ELSE m + 1
           T == {q \in S : entry[q].start \div BucketWidth = b}
           Part(X) == {q \in T : entry[q].client \in X}
           f == [i \in DOMAIN a |-> a[i][b]]
<1>1. S \in SUBSET Query /\ IsFiniteSet(S) /\ \A q \in S : entry[q].client \in Nat
  BY WindowRows
<1>2. RankedOK(S, ranked)
  BY <1>1, Ranks
<1>3. /\ N \in Nat /\ ranked \in [1..N -> C]
      /\ \A i, j \in 1..N : ranked[i] = ranked[j] => i = j
      /\ \A c \in C : \E i \in 1..N : ranked[i] = c
  BY <1>2 DEF RankedOK
<1>4. /\ DOMAIN a = 1..K
      /\ \A i \in 1..m : a[i] = Row(S, {ranked[i]}, B)
      /\ F # {} => a[m + 1] = Row(S, F, B)
      /\ F = {ranked[i] : i \in (n + 1)..N}
  <2>1. Ranked(InWindow(from, to)) \in [1..N -> C] /\ N \in Nat
    BY <1>3
  <2> HIDE DEF C, N
  <2>2. RowsOf(a, S, ranked, n, N, B)
    BY <2>1, ActivityRows
  <2> HIDE DEF a, S, ranked, B
  <2> QED
    BY <2>2 DEF RowsOf
<1>5. IsFiniteSet(T) /\ T \in SUBSET S
  <2>1. T \in SUBSET S
    OBVIOUS
  <2> QED
    BY <1>1, <2>1, FS_Subset
<1>6. Series(from, to)[b] = Cardinality(T)
  BY DEF Series, CountIn
<1>7. ASSUME NEW X PROVE Row(S, X, B)[b] = Cardinality(Part(X))
  <2> DEFINE Z == {q \in S : entry[q].client \in X}
  <2>1. {q \in Z : entry[q].start \div BucketWidth = b} = Part(X)
    OBVIOUS
  <2>2. Row(S, X, B)[b] = Cardinality({q \in Z : entry[q].start \div BucketWidth = b})
    BY DEF Row, CountIn
  <2> HIDE DEF Z, Part
  <2> QED
    BY <2>1, <2>2
<1>8. \A q \in T : entry[q].client \in C
  OBVIOUS
<1>9. \A X : Part(X) = {q \in T : entry[q].client \in X}
  OBVIOUS
<1>10. \A i \in 1..K : f[i] = a[i][b]
  BY <1>4
<1>11. DOMAIN f = 1..K
  BY <1>4
<1> DEFINE Idx(c) == CHOOSE i \in 1..N : ranked[i] = c
           g == [q \in T |-> IF Idx(entry[q].client) <= m THEN Idx(entry[q].client) ELSE m + 1]
<1> HIDE DEF S, C, N, B, ranked, F, a, T, Part, f
<1>12. ASSUME NEW c \in C
       PROVE  /\ Idx(c) \in 1..N /\ ranked[Idx(c)] = c
              /\ \A i \in 1..N : ranked[i] = c <=> Idx(c) = i
  <2>1. Idx(c) \in 1..N /\ ranked[Idx(c)] = c
    BY <1>3
  <2> HIDE DEF Idx
  <2> QED
    BY <1>3, <2>1
<1> HIDE DEF Idx
<1>13. m \in Nat /\ m <= N /\ (n < N => m = n) /\ (m < N => m = n)
  BY <1>3
<1> HIDE DEF m
<1>14. ASSUME NEW c \in C
       PROVE  /\ c \in F <=> Idx(c) > n
              /\ Idx(c) <= m \/ (c \in F /\ Idx(c) > m)
              /\ c \in F => m = n
  <2> DEFINE k == Idx(c)
  <2>1. k \in 1..N /\ ranked[k] = c /\ \A i \in 1..N : ranked[i] = c <=> k = i
    BY <1>12
  <2> HIDE DEF k
  <2>2. c \in F <=> \E i \in (n + 1)..N : ranked[i] = c
    BY <1>4
  <2>3. \A i \in (n + 1)..N : i \in 1..N /\ i > n
    BY <1>3
  <2>4. k > n => k \in (n + 1)..N
    BY <1>3, <2>1
  <2>5. c \in F <=> k > n
    BY <2>1, <2>2, <2>3, <2>4
  <2>6. k <= m \/ (k > n /\ k > m)
    BY <1>3, <1>13, <2>1
  <2>7. k > n => m = n
    BY <1>3, <1>13, <2>1
  <2> QED
    BY <2>5, <2>6, <2>7 DEF k
<1>15. \A q \in T : g[q] = IF Idx(entry[q].client) <= m THEN Idx(entry[q].client) ELSE m + 1
  OBVIOUS
<1> HIDE DEF g
<1>16. ASSUME NEW q \in T PROVE g[q] \in 1..K
  <2> DEFINE c == entry[q].client
  <2>1. c \in C
    BY <1>8
  <2> HIDE DEF c
  <2>2. g[q] = IF Idx(c) <= m THEN Idx(c) ELSE m + 1
    BY <1>15 DEF c
  <2>3. Idx(c) \in 1..N /\ (Idx(c) <= m \/ (c \in F /\ Idx(c) > m))
    BY <1>12, <1>14, <2>1
  <2>4. CASE Idx(c) <= m
    BY <1>3, <1>13, <2>2, <2>3, <2>4
  <2>5. CASE c \in F /\ Idx(c) > m
    <3>1. g[q] = m + 1
      BY <1>3, <1>13, <2>2, <2>3, <2>5
    <3>2. F # {}
      BY <2>5
    <3>3. K = m + 1
      BY <3>2
    <3> QED
      BY <1>13, <3>1, <3>3
  <2> QED
    BY <2>3, <2>4, <2>5
<1>17. ASSUME NEW i \in 1..K PROVE f[i] = Cardinality({q \in T : g[q] = i})
  <2>1. CASE i <= m
    <3>1. i \in 1..m /\ i \in 1..N
      BY <1>3, <1>13, <2>1
    <3>2. f[i] = Cardinality(Part({ranked[i]}))
      BY <1>4, <1>7, <1>10, <3>1
    <3>3. ASSUME NEW q \in T PROVE entry[q].client \in {ranked[i]} <=> g[q] = i
      <4> DEFINE c == entry[q].client
      <4>1. c \in C
        BY <1>8
      <4> HIDE DEF c
      <4>2. g[q] = IF Idx(c) <= m THEN Idx(c) ELSE m + 1
        BY <1>15 DEF c
      <4>3. Idx(c) \in 1..N /\ (ranked[i] = c <=> Idx(c) = i)
        BY <1>12, <3>1, <4>1
      <4>4. g[q] = i <=> Idx(c) = i
        BY <1>3, <1>13, <3>1, <4>2, <4>3
      <4> QED
        BY <4>3, <4>4 DEF c
    <3>4. Part({ranked[i]}) = {q \in T : g[q] = i}
      BY <1>9, <3>3
    <3> QED
      BY <3>2, <3>4
  <2>2. CASE ~(i <= m)
    <3>1. F # {} /\ i = m + 1
      BY <1>13, <2>2
    <3>2. f[i] = Cardinality(Part(F))
      BY <1>4, <1>7, <1>10, <3>1
    <3>3. ASSUME NEW q \in T PROVE entry[q].client \in F <=> g[q] = i
      <4> DEFINE c == entry[q].client
      <4>1. c \in C
        BY <1>8
      <4> HIDE DEF c
      <4>2. g[q] = IF Idx(c) <= m THEN Idx(c) ELSE m + 1
        BY <1>15 DEF c
      <4>3. Idx(c) \in 1..N
        BY <1>12, <4>1
      <4>4. (c \in F <=> Idx(c) > n) /\ (Idx(c) <= m \/ (c \in F /\ Idx(c) > m)) /\ (c \in F => m = n)
        BY <1>14, <4>1
      <4>5. c \in F <=> Idx(c) > m
        BY <1>3, <1>13, <4>3, <4>4
      <4>6. g[q] = i <=> Idx(c) > m
        BY <1>3, <1>13, <3>1, <4>2, <4>3
      <4> QED
        BY <4>5, <4>6 DEF c
    <3>4. Part(F) = {q \in T : g[q] = i}
      BY <1>9, <3>3
    <3> QED
      BY <3>2, <3>4
  <2> QED
    BY <2>1, <2>2
<1>18. IsFiniteSet(DOMAIN f)
  <2>1. K \in Nat
    BY <1>13
  <2> HIDE DEF K
  <2> QED
    BY <1>11, <2>1, FS_Interval
<1> HIDE DEF K
<1>19. SumFunction(f) = Cardinality(T)
  BY <1>5, <1>11, <1>16, <1>17, <1>18, SumOfParts
<1> QED
  BY <1>6, <1>19 DEF f, a

\* The first n of the ranking are a choice of the n clients with the most rows.
LEMMA FirstAreTop ==
    ASSUME NEW S \in SUBSET Query, \A q \in S : entry[q].client \in Nat, NEW n \in Nat
    PROVE  LET ranked == Ranked(S)
           IN {ranked[i] : i \in 1..Min({n, Len(ranked)})} \in Tops(S, "client", n)
<1> DEFINE ranked == Ranked(S)
           C == {entry[q].client : q \in S}
           N == Cardinality(C)
           m == IF n < N THEN n ELSE N
           T == {ranked[i] : i \in 1..m}
<1>1. /\ IsFiniteSet(C) /\ N \in Nat /\ C \subseteq Nat
      /\ ranked \in [1..N -> C]
      /\ \A i, j \in 1..N : ranked[i] = ranked[j] => i = j
      /\ \A c \in C : \E i \in 1..N : ranked[i] = c
      /\ \A i, j \in 1..N : i < j => Ahead(S, ranked[i], ranked[j])
  BY Ranks DEF RankedOK
<1>2. C = {entry[q]["client"] : q \in S}
  OBVIOUS
<1> HIDE DEF C, N, ranked
<1>3. Len(ranked) = N
  <2>1. ranked \in Seq(C) /\ DOMAIN ranked = 1..N
    BY <1>1, SeqDef
  <2> QED
    BY <1>1, <2>1
<1>4. Min({n, Len(ranked)}) = m
  BY <1>1, <1>3, Smaller
<1>5. m \in Nat /\ m <= N /\ \A i \in 1..m : i \in 1..N
  BY <1>1
<1>6. m = IF N < n THEN N ELSE n
  BY <1>1
<1> HIDE DEF m
<1>7. T \in SUBSET C
  BY <1>1, <1>5
<1>8. Cardinality(T) = m
  <2> DEFINE h == [i \in 1..m |-> ranked[i]]
             D == 1..m
  <2>1. h \in [D -> T] /\ (\A i, j \in D : h[i] = h[j] => i = j) /\ \A t \in T : \E i \in D : h[i] = t
    BY <1>1, <1>5
  <2>2. IsFiniteSet(D) /\ Cardinality(D) = m
    <3>1. IsFiniteSet(1..m) /\ Cardinality(1..m) = IF 1 > m THEN 0 ELSE m - 1 + 1
      BY <1>5, FS_Interval
    <3> QED
      BY <1>5, <3>1
  <2> HIDE DEF h, D, T
  <2>3. h \in Surjection(D, T) /\ h \in Injection(D, T)
    BY <2>1 DEF Surjection, Injection, IsInjective
  <2>4. Cardinality(T) = Cardinality(D)
    BY <2>2, <2>3, FS_Surjection
  <2> QED
    BY <2>2, <2>4
<1>9. ASSUME NEW k \in T, NEW j \in C \ T
      PROVE  GroupCount(S, "client", k) >= GroupCount(S, "client", j)
  <2>1. PICK x \in 1..m : k = ranked[x]
    BY <1>9
  <2>2. PICK y \in 1..N : j = ranked[y]
    BY <1>1, <1>9
  <2>3. y \notin 1..m
    BY <1>9, <2>2
  <2>4. x < y /\ x \in 1..N
    BY <1>1, <1>5, <2>3
  <2>5. Ahead(S, k, j)
    BY <1>1, <2>1, <2>2, <2>4
  <2>6. GroupCount(S, "client", k) \in Nat /\ GroupCount(S, "client", j) \in Nat
    BY GroupsCount
  <2> QED
    BY <2>5, <2>6 DEF Ahead
<1> HIDE DEF T
<1>10. T \in Tops(S, "client", n)
  <2>1. Cardinality(T) = IF Cardinality(C) < n THEN Cardinality(C) ELSE n
    BY <1>6, <1>8 DEF N
  <2> QED
    BY <1>2, <1>7, <1>9, <2>1 DEF Tops
<1> QED
  BY <1>4, <1>10 DEF ranked, T

\* Whatever the window, however many clients are shown by themselves and however
\* their counts tie: every row is in one bucket of Series, the rows of
\* ClientActivity add up to it, and the clients shown by themselves are the
\* busiest (log.go).
THEOREM ActivityMatchesSeries == Spec => []ActivityAddsUp
<1>1. LogShaped /\ StartsInv /\ RowsInv => ActivityAddsUp
  <2> SUFFICES ASSUME LogShaped, StartsInv, RowsInv,
                      NEW from \in 0..now, NEW to \in 1..(now + 1),
                      NEW n \in 1..(Cardinality(Query) + 1), from < to
               PROVE  LET s == Series(from, to)
                          a == ClientActivity(from, to, n)
                          S == InWindow(from, to)
                          ranked == Ranked(S)
                      IN /\ SumFunction(s) = Cardinality(S)
                         /\ \A b \in DOMAIN s : SumFunction([i \in DOMAIN a |-> a[i][b]]) = s[b]
                         /\ to = now + 1 =>
                               {ranked[i] : i \in 1..Min({n, Len(ranked)})} \in TopClients(from, n)
    BY DEF ActivityAddsUp
  <2> DEFINE s == Series(from, to)
             a == ClientActivity(from, to, n)
             S == InWindow(from, to)
             ranked == Ranked(S)
  <2>1. now \in Nat /\ from \in Nat /\ to \in Nat /\ n \in Nat
    <3>1. now \in Nat
      BY DEF LogShaped, TypeOK
    <3> QED
      BY <3>1
  <2>2. SumFunction(s) = Cardinality(S)
    BY <2>1, SeriesAddsUp
  <2>3. ASSUME NEW b \in DOMAIN s PROVE SumFunction([i \in DOMAIN a |-> a[i][b]]) = s[b]
    <3>1. b \in Buckets(from, to)
      BY <2>3 DEF Series
    <3> QED
      BY <2>1, <3>1, ActivityAdds
  <2>4. ASSUME to = now + 1
        PROVE  {ranked[i] : i \in 1..Min({n, Len(ranked)})} \in TopClients(from, n)
    <3>1. /\ S \in SUBSET Query /\ \A q \in S : q \in rows
          /\ \A q \in rows : /\ entry[q].start \in Nat /\ entry[q].start <= now
                             /\ entry[q].client \in Nat
      BY <2>1, WindowRows
    <3>2. S = {q \in rows : entry[q].start >= from}
      BY <2>1, <2>4, <3>1 DEF InWindow
    <3>3. {ranked[i] : i \in 1..Min({n, Len(ranked)})} \in Tops(S, "client", n)
      BY <2>1, <3>1, FirstAreTop
    <3> QED
      BY <3>2, <3>3 DEF TopClients
  <2> QED
    BY <2>2, <2>3, <2>4
<1> QED
  BY <1>1, CountedInv, PTL
=============================================================================
